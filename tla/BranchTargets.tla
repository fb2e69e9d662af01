---------------------------- MODULE BranchTargets ----------------------------
(***************************************************************************)
(* basic_btb (src/btb/basic_btb): the direct predictor, a table of branch  *)
(* targets and kinds; the indirect predictor, indexed with the history of  *)
(* conditional branches; and the return stack, which learns the size of    *)
(* the call instructions to predict where a return goes.                   *)
(*                                                                         *)
(* O3_CPU asks for a prediction for every instruction and trains with the  *)
(* outcome of every branch at once (src/src/ooo_cpu.cc:131).               *)
(***************************************************************************)
EXTENDS LruTable, InstructionDecode, Words

CONSTANTS
  BtbSets, BtbWays,
  INDIRECT_SIZE,        \* entries of the indirect predictor, a power of two
  RAS_SIZE,             \* max_size of the return stack; 64 in the code
  CALL_TRACKERS,
  BtbProgram,           \* branches: [ip, instr (of the trace), target]
  CallSize,             \* [ip -> the size of the call there]
  MaxBranches           \* bound

ASSUME BtbAssumption ==
  /\ {BtbSets, BtbWays, INDIRECT_SIZE, RAS_SIZE, CALL_TRACKERS} \subseteq Nat \ {0}
  /\ \A i \in BtbProgram :
       /\ i.ip \in Nat /\ CallSize[i.ip] \in Nat
       /\ i.instr \in [reads : SUBSET STRING, writes : SUBSET STRING, memory : BOOLEAN,
                      is_branch : BOOLEAN, taken : BOOLEAN]

VARIABLES
  BTB, indirect, ras,
  calls,      \* the calls the program has not returned from
  calibrated, \* trackers that have been set by a return
  outcome     \* of the last branch: what was known, predicted and true
btbVars == <<BTB, indirect, ras, calls, calibrated, outcome>>

Kind(i) == BranchType(i.instr)
Key(ip) == [index |-> ip \div 4, tag |-> ip \div 4]
IsCall(kind) == kind \in {"DIRECT_CALL", "INDIRECT_CALL"}
BranchInfo(kind) ==
  CASE kind \in {"INDIRECT", "INDIRECT_CALL"} -> "INDIRECT"
    [] kind = "RETURN" -> "RETURN"
    [] kind = "CONDITIONAL" -> "CONDITIONAL"
    [] OTHER -> "ALWAYS_TAKEN"

BtbInit ==
  /\ BTB = NewTable(BtbSets, BtbWays)
  /\ indirect = [predictor |-> [i \in 0 .. INDIRECT_SIZE - 1 |-> 0], conditional_history |-> 0]
  /\ ras = [stack |-> <<>>, call_size_trackers |-> [i \in 0 .. CALL_TRACKERS - 1 |-> 4]]
  /\ calls = <<>> /\ calibrated = {}
  /\ outcome = [kind |-> "NONE", writes |-> {}, known |-> FALSE, predicted |-> 0, target |-> 0, branches |-> 0]

Top(stack) == stack[Len(stack)]
Pop(stack) == SubSeq(stack, 1, Len(stack) - 1)
Tracker(ip) == ip % CALL_TRACKERS
(* A call whose size is learnt, and is that of all calls it shares its tracker with. *)
OneSize(ip) ==
  /\ CallSize[ip] <= 10
  /\ \A i \in BtbProgram : IsCall(Kind(i)) /\ Tracker(i.ip) = Tracker(ip) => CallSize[i.ip] = CallSize[ip]

(* return_stack *)
RasPrediction ==
  IF ras.stack = <<>> THEN 0
  ELSE Top(ras.stack) + ras.call_size_trackers[Tracker(Top(ras.stack))]
Pushed(ip) ==
  LET stack == Append(ras.stack, ip)
  IN  [ras EXCEPT !.stack = IF Len(stack) > RAS_SIZE THEN Tail(stack) ELSE stack]

Calibrated_Peeks(target) ==    \* mutant
  LET ip == Top(ras.stack)
      size == IF ip > target THEN ip - target ELSE target - ip
  IN  IF ras.stack = <<>> THEN ras
      ELSE [ras EXCEPT !.call_size_trackers[Tracker(ip)] = IF size <= 10 THEN size ELSE @]

Calibrated(target) ==
  LET ip == Top(ras.stack)
      size == IF ip > target THEN ip - target ELSE target - ip
  IN  IF ras.stack = <<>> THEN ras
      ELSE [stack |-> Pop(ras.stack),
            call_size_trackers |->
              [ras.call_size_trackers EXCEPT ![Tracker(ip)] = IF size <= 10 THEN size ELSE @]]

(* indirect_predictor *)
IndirectIndex(ip) == ExclusiveOr(ip \div 4, indirect.conditional_history) % INDIRECT_SIZE
IndirectUpdate(ip, kind, target, taken) ==
  CASE kind \in {"INDIRECT", "INDIRECT_CALL"} ->
         [indirect EXCEPT !.predictor[IndirectIndex(ip)] = target]
    [] kind = "CONDITIONAL" ->
         [indirect EXCEPT !.conditional_history = (2 * @ + taken) % INDIRECT_SIZE]
    [] OTHER -> indirect

(* direct_predictor: check_hit of the prediction, then the one of update, *)
(* whose copy of the entry is written back only with a target.            *)
DirectUpdate(table, ip, kind, target) ==
  LET old == DataOf(table, Key(ip))
      elem == [index |-> ip \div 4, tag |-> ip \div 4, target |-> target, type |-> BranchInfo(kind),
               ip |-> IF Hits(table, Key(ip)) THEN old.ip ELSE ip]
      touched_table == CheckHit(table, Key(ip))
  IN  IF target = 0 THEN touched_table ELSE Fill(touched_table, elem)

(* btb_prediction *)
Prediction(ip) ==
  IF ~Hits(BTB, Key(ip)) THEN 0
  ELSE LET entry == DataOf(BTB, Key(ip))
       IN  CASE entry.type = "RETURN" -> RasPrediction
             [] entry.type = "INDIRECT" -> indirect.predictor[IndirectIndex(ip)]
             [] OTHER -> entry.target

(* btb_prediction and update_btb for one branch; a branch not taken has no target. *)
Branch(i, target, taken) ==
  /\ outcome.branches < MaxBranches
  /\ BTB' = DirectUpdate(CheckHit(BTB, Key(i.ip)), i.ip, Kind(i), target)
  /\ indirect' = IndirectUpdate(i.ip, Kind(i), target, taken)
  /\ ras' = CASE IsCall(Kind(i)) -> Pushed(i.ip)
              [] Kind(i) = "RETURN" -> Calibrated(target)
              [] OTHER -> ras
  /\ \E warmup \in BOOLEAN :
       outcome' = [kind |-> Kind(i), writes |-> InitInstruction(Decoded(i.instr), warmup).writes,
                   predicted |-> Prediction(i.ip), target |-> target,
                   known |-> Hits(BTB, Key(i.ip)) /\ DataOf(BTB, Key(i.ip)).type = BranchInfo(Kind(i))
                             /\ ras.stack # <<>> /\ Tracker(Top(ras.stack)) \in calibrated
                             /\ OneSize(Top(ras.stack)),
                   branches |-> outcome.branches + 1]

Call(i) ==
  /\ IsCall(Kind(i))
  /\ Branch(i, i.target, 1)
  /\ calls' = Append(calls, i.ip)
  /\ UNCHANGED calibrated
Return(i) ==
  /\ Kind(i) = "RETURN" /\ calls # <<>>
  /\ Branch(i, Top(calls) + CallSize[Top(calls)], 1)
  /\ calls' = Pop(calls)
  /\ calibrated' = calibrated \cup IF ras.stack # <<>> THEN {Tracker(Top(ras.stack))} ELSE {}
Jump(i) ==
  /\ ~IsCall(Kind(i)) /\ Kind(i) # "RETURN"
  /\ \/ Branch(i, i.target, 1)
     \/ Kind(i) = "CONDITIONAL" /\ Branch(i, 0, 0)
  /\ UNCHANGED <<calls, calibrated>>

BtbNext == \E i \in BtbProgram : Call(i) \/ Return(i) \/ Jump(i)

BtbSpec == BtbInit /\ [][BtbNext]_btbVars

-------------------------------------------------------------------------------
(* The return stack holds the innermost calls of the program, however deep   *)
(* they nest past max_size, and a return that the table knows is predicted   *)
(* exactly, provided its call is still on the stack and a return has shown   *)
(* the one size, at most 10 bytes, of the calls of its tracker (push,        *)
(* prediction, calibrate_call_size). No call or return is left in the chain  *)
(* of those that write the stack pointer (do_stack_pointer_folding), and all *)
(* of this is known from the registers of the trace alone.                   *)
ReturnsFollowCalls ==
  /\ Len(ras.stack) <= Len(calls)
  /\ ras.stack = SubSeq(calls, Len(calls) - Len(ras.stack) + 1, Len(calls))
  /\ outcome.kind = "RETURN" /\ outcome.known => outcome.predicted = outcome.target
  /\ IsCall(outcome.kind) \/ outcome.kind = "RETURN" => REG_STACK_POINTER \notin outcome.writes
===============================================================================
