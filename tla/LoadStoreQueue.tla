---------------------------- MODULE LoadStoreQueue ----------------------------
(***************************************************************************)
(* The load queue and the store queue of O3_CPU (src/src/ooo_cpu.cc).      *)
(* Loads and stores are allocated in program order at dispatch; a load     *)
(* that finds an older store of its address waits for that store and never *)
(* reaches the cache, any other load is sent to the L1D and finishes with  *)
(* any answer for its block; a store finishes in the queue and is written  *)
(* to the L1D once its instruction has retired.                            *)
(*                                                                         *)
(* operate() runs to completion in one cycle; `stage' sequences its calls. *)
(* The front end decides when instructions arrive, the register renamer    *)
(* when they execute, the L1D which requests it takes and when it answers. *)
(***************************************************************************)
EXTENDS Integers, Sequences, FiniteSets

CONSTANTS
  Block,         \* cache blocks; an address is a block and an offset
  Programs,      \* sequences of [loads |-> Seq(Address), stores |-> Seq(Address)]
  ROB_SIZE, LQ_SIZE, SQ_SIZE,
  LQ_WIDTH, SQ_WIDTH, EXEC_WIDTH, RETIRE_WIDTH, L1D_BANDWIDTH,
  EXEC_LATENCY   \* in cycles; 0 while warming up

Never == EXEC_LATENCY + 1    \* time_point::max(): not executed yet
None == 0                    \* no producer: instruction ids start at 1
Empty == [id |-> None]       \* an LQ slot without a value
Slot == 1 .. LQ_SIZE

ASSUME LSQAssumption ==
  /\ {ROB_SIZE, LQ_SIZE, SQ_SIZE, LQ_WIDTH, SQ_WIDTH, EXEC_WIDTH, RETIRE_WIDTH,
      L1D_BANDWIDTH} \subseteq Nat \ {0}
  /\ EXEC_LATENCY \in Nat
  /\ \A p \in Programs :
       p \in Seq([loads : Seq(Block \X Nat), stores : Seq(Block \X Nat)])
  (* Dispatch waits for good when one instruction alone exceeds a queue. *)
  /\ \A p \in Programs : \A i \in DOMAIN p :
       Len(p[i].loads) <= LQ_SIZE /\ Len(p[i].stores) <= SQ_SIZE

VARIABLES
  program,   \* never changes
  next,      \* the next instruction of the program to dispatch
  ROB,       \* [id, executed, completed, wait, completed_mem_ops]
  LQ,        \* [Slot -> entry or Empty]
  SQ,
  asked,     \* asked[b]: reads of block b that the L1D took and did not answer
  returned,  \* L1D_bus.lower_level->returned
  stage,
  store_bw   \* what is left of the SQ_WIDTH of this cycle

vars == <<program, next, ROB, LQ, SQ, asked, returned, stage, store_bw>>

BlockOf(address) == address[1]
Occupied == {s \in Slot : LQ[s] # Empty}
Loads(id) == program[id].loads
Stores(id) == program[id].stores
num_mem_ops(id) == Len(Loads(id)) + Len(Stores(id))

Lesser(m, n) == IF m < n THEN m ELSE n
Least(S) == CHOOSE x \in S : \A y \in S : x <= y
Greatest(S) == CHOOSE x \in S : \A y \in S : x >= y
FirstOf(n, S) == {i \in S : Cardinality({j \in S : j < i}) < n}

(* How many members of S the operation Id maps to id. *)
CountOf(S, Id(_), id) == Cardinality({x \in S : Id(x) = id})

(* LSQ_ENTRY::finish for every load of Ls and every store of Ss. *)
Finished_LoadsOnly(Ls, Ss) ==    \* mutant: the store itself is forgotten
  [i \in DOMAIN ROB |->
     [ROB[i] EXCEPT !.completed_mem_ops = @ + CountOf(Ls, LAMBDA s : LQ[s].id, ROB[i].id)]]
Finished(Ls, Ss) ==
  [i \in DOMAIN ROB |->
     [ROB[i] EXCEPT !.completed_mem_ops =
        @ + CountOf(Ls, LAMBDA s : LQ[s].id, ROB[i].id)
          + CountOf(Ss, LAMBDA q : SQ[q].id, ROB[i].id)]]
Reset(Ls) == [s \in Slot |-> IF s \in Ls THEN Empty ELSE LQ[s]]

Init ==
  /\ program \in Programs
  /\ next = 1
  /\ ROB = <<>> /\ SQ = <<>>
  /\ LQ = [s \in Slot |-> Empty]
  /\ asked = [b \in Block |-> 0]
  /\ returned = <<>>
  /\ stage = "retire" /\ store_bw = 0

--------------------------------------------------------------------------------
(* retire_rob: the completed instructions at the head leave. *)
Retire ==
  /\ stage = "retire"
  /\ LET n == Greatest({k \in 0 .. Lesser(Len(ROB), RETIRE_WIDTH) :
                          \A i \in 1 .. k : ROB[i].completed})
     IN  ROB' = SubSeq(ROB, n + 1, Len(ROB))
  /\ stage' = "complete"
  /\ UNCHANGED <<program, next, LQ, SQ, asked, returned, store_bw>>

(* complete_inflight_instruction: executed, and all its memory accesses done. *)
Completing_Early ==    \* mutant: memory accesses are not waited for
  FirstOf(EXEC_WIDTH, {i \in DOMAIN ROB :
    ROB[i].executed /\ ~ROB[i].completed /\ ROB[i].wait <= 0})
Completing ==
  FirstOf(EXEC_WIDTH, {i \in DOMAIN ROB :
    /\ ROB[i].executed /\ ~ROB[i].completed /\ ROB[i].wait <= 0
    /\ ROB[i].completed_mem_ops = num_mem_ops(ROB[i].id)})

Complete ==
  /\ stage = "complete"
  /\ ROB' = [i \in DOMAIN ROB |-> [ROB[i] EXCEPT !.completed = @ \/ i \in Completing]]
  /\ stage' = "execute"
  /\ UNCHANGED <<program, next, LQ, SQ, asked, returned, store_bw>>

(* do_execution: the accesses of the instruction get their ready time. *)
DoExecution(E) ==
  LET Ids == {ROB[i].id : i \in E}
      Started(e) == IF e.id \in Ids THEN [e EXCEPT !.wait = EXEC_LATENCY] ELSE e
  IN  /\ ROB' = [i \in DOMAIN ROB |->
                   IF i \in E
                   THEN [ROB[i] EXCEPT !.executed = TRUE, !.wait = EXEC_LATENCY]
                   ELSE ROB[i]]
      /\ LQ' = [s \in Slot |-> IF LQ[s] = Empty THEN Empty ELSE Started(LQ[s])]
      /\ SQ' = [q \in DOMAIN SQ |-> Started(SQ[q])]

Unexecuted == {i \in DOMAIN ROB : ~ROB[i].executed}

(* execute_instruction: the sources of the instructions E are valid. *)
Execute(E) ==
  /\ stage = "execute"
  /\ DoExecution(E)
  /\ stage' = "memory_return"
  /\ UNCHANGED <<program, next, asked, returned, store_bw>>

(* handle_memory_return: each answer finishes every load of its block that *)
(* was sent, those sent after the access it answers among them.            *)
Served(B) == {s \in Occupied : LQ[s].fetch_issued /\ BlockOf(LQ[s].addr) \in B}

MemoryReturn ==
  /\ stage = "memory_return"
  /\ LET n == Lesser(Len(returned), L1D_BANDWIDTH)
         S == Served({returned[i] : i \in 1 .. n})
     IN  /\ ROB' = Finished(S, {})
         /\ LQ' = Reset(S)
         /\ returned' = SubSeq(returned, n + 1, Len(returned))
  /\ stage' = "finish_stores"
  /\ UNCHANGED <<program, next, SQ, asked, store_bw>>

--------------------------------------------------------------------------------
(* operate_lsq *)

(* The span of the store queue, behind the stores already issued, whose *)
(* stores are ready: it stops at the first that is not.                 *)
FetchSpan ==
  FirstOf(SQ_WIDTH, {q \in DOMAIN SQ :
    /\ ~SQ[q].fetch_issued
    /\ \A r \in 1 .. q : SQ[r].fetch_issued \/ SQ[r].wait <= 0})

(* do_finish_store: the store is done, and so is every load that waits for it. *)
Released_Forgotten(F) == {}    \* mutant: the loads are left waiting
Released(F) == UNION {SQ[q].lq_depend_on_me : q \in F}

FinishStores ==
  /\ stage = "finish_stores"
  /\ ROB' = Finished(Released(FetchSpan), FetchSpan)
  /\ LQ' = Reset(Released(FetchSpan))
  /\ SQ' = [q \in DOMAIN SQ |-> IF q \in FetchSpan
                                THEN [SQ[q] EXCEPT !.fetch_issued = TRUE, !.wait = 0]
                                ELSE SQ[q]]
  /\ store_bw' = SQ_WIDTH - Cardinality(FetchSpan)
  /\ stage' = "complete_stores"
  /\ UNCHANGED <<program, next, asked, returned>>

(* Stores older than everything in the ROB, in order, while they are ready. *)
Writable ==
  {n \in 0 .. Lesser(Len(SQ), store_bw) :
     \A q \in 1 .. n : /\ ROB = <<>> \/ SQ[q].id < ROB[1].id
                       /\ SQ[q].wait <= 0}

(* do_complete_store: the L1D takes the first n of them. *)
CompleteStores(n) ==
  /\ stage = "complete_stores"
  /\ n \in Writable
  /\ SQ' = SubSeq(SQ, n + 1, Len(SQ))
  /\ stage' = "issue_loads"
  /\ store_bw' = 0
  /\ UNCHANGED <<program, next, ROB, LQ, asked, returned>>

Issuable_Forwarded ==    \* mutant: also the loads that wait for a store
  {s \in Occupied : ~LQ[s].fetch_issued /\ LQ[s].wait < 0}
Issuable ==
  {s \in Occupied : /\ LQ[s].producer_id = None
                    /\ ~LQ[s].fetch_issued
                    /\ LQ[s].wait < 0}

(* execute_load for the loads that the L1D takes, at most LQ_WIDTH of them. *)
IssueLoads(S) ==
  /\ stage = "issue_loads"
  /\ S \subseteq Issuable
  /\ Cardinality(S) <= LQ_WIDTH
  /\ LQ' = [s \in Slot |-> IF s \in S THEN [LQ[s] EXCEPT !.fetch_issued = TRUE] ELSE LQ[s]]
  /\ asked' = [b \in Block |-> asked[b] + CountOf(S, LAMBDA s : BlockOf(LQ[s].addr), b)]
  /\ stage' = "dispatch"
  /\ UNCHANGED <<program, next, ROB, SQ, returned, store_bw>>

--------------------------------------------------------------------------------
(* dispatch_instruction and do_memory_scheduling *)

(* The max_element of the code: the store of that address with the greatest *)
(* instr_id, the first of them when one instruction stores to it twice.     *)
ForwardFrom_Oldest(address) ==    \* mutant
  LET Same == {q \in DOMAIN SQ : SQ[q].addr = address}
  IN  IF Same = {} THEN None ELSE Least(Same)
ForwardFrom(address) ==
  LET Same == {q \in DOMAIN SQ : SQ[q].addr = address}
  IN  IF Same = {} THEN None
      ELSE Least({q \in Same : \A r \in Same : SQ[r].id <= SQ[q].id})

(* Load k of the instruction takes the k-th free slot. *)
SlotOf(k) == CHOOSE s \in Slot \ Occupied :
               Cardinality({t \in Slot \ Occupied : t < s}) = k - 1

HasRoom(id) ==
  /\ Len(ROB) # ROB_SIZE
  /\ Cardinality(Slot \ Occupied) >= Len(Loads(id))
  /\ Len(Stores(id)) + Len(SQ) <= SQ_SIZE

(* A load whose store has executed finishes here and gives its slot back; *)
(* the next load takes the same slot, which SlotOf need not show.         *)
Dispatch ==
  /\ stage = "dispatch"
  /\ next <= Len(program)
  /\ HasRoom(next)
  /\ LET source(k) == ForwardFrom(Loads(next)[k])
         Done    == {k \in DOMAIN Loads(next) :
                       source(k) # None /\ SQ[source(k)].fetch_issued}
         Waiting == DOMAIN Loads(next) \ Done
         slot(k) == SlotOf(Cardinality({j \in Waiting : j <= k}))
         load(k) == [id |-> next, addr |-> Loads(next)[k], wait |-> Never,
                     fetch_issued |-> FALSE,
                     producer_id |-> IF source(k) = None THEN None ELSE SQ[source(k)].id]
         store(k) == [id |-> next, addr |-> Stores(next)[k], wait |-> Never,
                      fetch_issued |-> FALSE, lq_depend_on_me |-> {}]
     IN  /\ LQ' = [s \in Slot |->
                     IF \E k \in Waiting : slot(k) = s
                     THEN load(CHOOSE k \in Waiting : slot(k) = s)
                     ELSE LQ[s]]
         /\ SQ' = [q \in DOMAIN SQ |->
                     [SQ[q] EXCEPT !.lq_depend_on_me =
                        @ \cup {slot(k) : k \in {j \in Waiting : source(j) = q}}]]
                  \o [k \in DOMAIN Stores(next) |-> store(k)]
         /\ ROB' = Append(ROB, [id |-> next, executed |-> FALSE, completed |-> FALSE,
                                wait |-> Never, completed_mem_ops |-> Cardinality(Done)])
  /\ next' = next + 1
  /\ UNCHANGED <<program, asked, returned, stage, store_bw>>

(* The cycle ends: time moves every ready_time one cycle closer. *)
EndCycle ==
  /\ stage = "dispatch"
  /\ LET Tick(w) == IF w \in {Never, -1} THEN w ELSE w - 1
     IN  /\ ROB' = [i \in DOMAIN ROB |-> [ROB[i] EXCEPT !.wait = Tick(@)]]
         /\ SQ' = [q \in DOMAIN SQ |-> [SQ[q] EXCEPT !.wait = Tick(@)]]
         /\ LQ' = [s \in Slot |-> IF LQ[s] = Empty THEN Empty
                                  ELSE [LQ[s] EXCEPT !.wait = Tick(@)]]
  /\ stage' = "retire"
  /\ UNCHANGED <<program, next, asked, returned, store_bw>>

(* The L1D, between two cycles, answers k reads of a block with one response. *)
Answer(b, k) ==
  /\ stage = "retire"
  /\ k \in 1 .. asked[b]
  /\ asked' = [asked EXCEPT ![b] = @ - k]
  /\ returned' = Append(returned, b)
  /\ UNCHANGED <<program, next, ROB, LQ, SQ, stage, store_bw>>

Next ==
  \/ Retire \/ Complete \/ MemoryReturn \/ FinishStores \/ Dispatch \/ EndCycle
  \/ \E E \in SUBSET Unexecuted : Execute(E)
  \/ \E n \in 0 .. Len(SQ) : CompleteStores(n)
  \/ \E S \in SUBSET Slot : IssueLoads(S)
  \/ \E b \in Block : \E k \in 1 .. asked[b] : Answer(b, k)

Spec == Init /\ [][Next]_vars

(* The clock keeps ticking; the sources of the oldest instruction become    *)
(* valid; the L1D does not refuse for good and answers; the front end does  *)
(* not withhold an instruction that has room.                               *)
FairSpec ==
  /\ Spec
  /\ WF_vars(EndCycle) /\ WF_vars(Retire) /\ WF_vars(Complete)
  /\ WF_vars(MemoryReturn) /\ WF_vars(FinishStores)
  /\ WF_vars(\E E \in SUBSET Unexecuted : Execute(E))
  /\ SF_vars(\E E \in SUBSET Unexecuted : 1 \in E /\ Execute(E))
  /\ WF_vars(\E n \in 0 .. Len(SQ) : CompleteStores(n))
  /\ SF_vars(\E n \in 1 .. Len(SQ) : CompleteStores(n))
  /\ WF_vars(\E S \in SUBSET Slot : IssueLoads(S))
  /\ \A s \in Slot : SF_vars(\E S \in SUBSET Slot : s \in S /\ IssueLoads(S))
  /\ SF_vars(Dispatch)
  /\ \A b \in Block : SF_vars(\E k \in 1 .. asked[b] : Answer(b, k))

--------------------------------------------------------------------------------
(* Properties *)

(* Memory accesses are finished exactly once: what an instruction has      *)
(* completed and what it still has in the two queues add up to its         *)
(* accesses.  The assertion of LSQ_ENTRY::finish (ooo_cpu.cc:806) sees one *)
(* side of it; the other is an instruction that never completes.           *)
MemOpsConserved ==
  \A i \in DOMAIN ROB :
    LET id == ROB[i].id
    IN  ROB[i].completed_mem_ops
          + CountOf(Occupied, LAMBDA s : LQ[s].id, id)
          + CountOf({q \in DOMAIN SQ : ~SQ[q].fetch_issued}, LAMBDA q : SQ[q].id, id)
        = num_mem_ops(id)

(* The slots a store remembers by reference still hold the loads that wait *)
(* for it, however many loads came and went in between: the two assertions *)
(* of do_finish_store (ooo_cpu.cc:578-579).                                *)
DependentsWait ==
  \A q \in DOMAIN SQ : ~SQ[q].fetch_issued =>
    \A s \in SQ[q].lq_depend_on_me :
      LQ[s] # Empty /\ LQ[s].producer_id = SQ[q].id

(* Memory order: a load waits exactly for the youngest of the older stores *)
(* to its address that are not yet written, and goes to the cache only     *)
(* when there is none.                                                     *)
OlderStores(s) == {q \in DOMAIN SQ : SQ[q].addr = LQ[s].addr /\ SQ[q].id < LQ[s].id}
LoadWaitsForYoungestStore ==
  \A s \in Occupied :
    /\ LQ[s].producer_id =
         IF OlderStores(s) = {} THEN None ELSE Greatest({SQ[q].id : q \in OlderStores(s)})
    /\ LQ[s].fetch_issued => OlderStores(s) = {}

(* do_complete_store does not look at fetch_issued: that a store written to *)
(* the cache has finished in its ROB entry, and released its loads, rests   *)
(* on retirement waiting for every memory access.                           *)
StoresFinishBeforeWritten ==
  \A q \in DOMAIN SQ :
    (ROB = <<>> \/ SQ[q].id < ROB[1].id) => SQ[q].fetch_issued

(* Every program comes to its end: all its instructions retire and all its *)
(* stores are written, in spite of loads that wait for stores, stores that *)
(* wait for older stores, full queues and a cache that refuses.            *)
EverythingRetires == <>(next > Len(program) /\ ROB = <<>> /\ SQ = <<>>)
===============================================================================
