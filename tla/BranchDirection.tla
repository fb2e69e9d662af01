--------------------------- MODULE BranchDirection ---------------------------
(***************************************************************************)
(* The four direction predictors (src/branch): bimodal, gshare, perceptron *)
(* and hashed_perceptron, with the saturating counters and the folded      *)
(* shift register they are made of. All four are driven by one stream.     *)
(*                                                                         *)
(* O3_CPU asks for a prediction for every instruction, branch or not, and  *)
(* gives the outcome of a branch right after (src/src/ooo_cpu.cc:131).     *)
(* perceptron alone keeps something at the prediction: a state for the     *)
(* outcome to be taught with, and a bit of its speculative history.        *)
(***************************************************************************)
EXTENDS Integers, Sequences, Words
LOCAL INSTANCE SequencesExt
LOCAL INSTANCE Functions

CONSTANTS
  BranchStream,      \* instructions: [ip, branch, taken]
  BIMODAL_PRIME,     \* table size of bimodal
  GSHARE_HISTORY,    \* bits of history; the table has 2^GSHARE_HISTORY counters
  COUNTER_MAX,       \* of the unsigned counters; 3 in the code
  WEIGHT_MAX,        \* of the signed weights; 127 in the code
  NUM_PERCEPTRONS, PERCEPTRON_HISTORY, NUM_UPDATE_ENTRIES, THETA,
  history_lengths,   \* of the tables of hashed_perceptron
  WORD_LEN,          \* TABLE_INDEX_BITS: bits of one folded word
  WORDS_PER_VALUE,   \* words packed in one value of the register
  SPEED,             \* of the dynamic threshold; 18 in the code
  MaxOutcomes,       \* bound on the branches
  MaxOthers          \* bound on the other instructions

ASSUME BranchAssumption ==
  /\ {BIMODAL_PRIME, NUM_PERCEPTRONS, PERCEPTRON_HISTORY, NUM_UPDATE_ENTRIES, WORD_LEN,
      WORDS_PER_VALUE, SPEED} \subseteq Nat \ {0}
  /\ history_lengths \in Seq(Nat)

VARIABLES
  bimodal_table,
  gshare,      \* [history, table]
  perceptron,  \* [rows, state_buf, spec_global_history, global_history]
  hashed,      \* [tables, ghist_words, theta, tc]
  outcomes,    \* every outcome so far, the latest first; 1 is taken
  others,      \* the instructions predicted that were no branches
  seen         \* history: what perceptron is to look at, see HistoriesAgree
branchVars == <<bimodal_table, gshare, perceptron, hashed, outcomes, others, seen>>

Bit(b) == IF b THEN 1 ELSE 0
ShiftedIn(b, bits) == <<b>> \o SubSeq(bits, 1, Len(bits) - 1)
Clamp(v, lo, hi) == IF v < lo THEN lo ELSE IF v > hi THEN hi ELSE v
Counted(v, up) == Clamp(IF up THEN v + 1 ELSE v - 1, 0, COUNTER_MAX)
Weighed(v, up) == Clamp(IF up THEN v + 1 ELSE v - 1, -WEIGHT_MAX - 1, WEIGHT_MAX)
SumOf(f) == FoldFunction(+, 0, f)

-------------------------------------------------------------------------------
(* folded_shift_register: values of WORDS_PER_VALUE packed words, lowest first. *)
VALUE_LEN == WORD_LEN * WORDS_PER_VALUE
NewRegister(length) ==
  [i \in 1 .. (length + VALUE_LEN - 1) \div VALUE_LEN |-> 0]

(* push_back: the top bit of a value moves on; the last one keeps `length' bits in all. *)
PushBack(words, length, bit) ==
  LET last == IF length % VALUE_LEN = 0 THEN VALUE_LEN ELSE length % VALUE_LEN
  IN  [i \in DOMAIN words |->
         (2 * words[i] + IF i = 1 THEN bit ELSE words[i - 1] \div 2 ^ (VALUE_LEN - 1))
           % 2 ^ (IF i = Len(words) THEN last ELSE VALUE_LEN)]

(* value(): the values joined with XOR, then their words. *)
Folded(words) ==
  LET joined == FoldLeft(ExclusiveOr, 0, words)
      shifts == [i \in 1 .. WORDS_PER_VALUE + 1 |-> joined \div 2 ^ (i * WORD_LEN)]
  IN  FoldLeft(ExclusiveOr, joined, shifts) % 2 ^ WORD_LEN

-------------------------------------------------------------------------------
BranchInit ==
  /\ bimodal_table = [i \in 0 .. BIMODAL_PRIME - 1 |-> 0]
  /\ gshare = [history |-> 0, table |-> [i \in 0 .. 2 ^ GSHARE_HISTORY - 1 |-> 0]]
  /\ perceptron = [rows |-> [i \in 0 .. NUM_PERCEPTRONS - 1 |->
                               [bias |-> 0, weights |-> [j \in 1 .. PERCEPTRON_HISTORY |-> 0]]],
                   state_buf |-> <<>>,
                   spec_global_history |-> [j \in 1 .. PERCEPTRON_HISTORY |-> FALSE],
                   global_history |-> [j \in 1 .. PERCEPTRON_HISTORY |-> FALSE]]
  /\ hashed = [tables |-> [t \in DOMAIN history_lengths |-> [i \in 0 .. 2 ^ WORD_LEN - 1 |-> 0]],
               ghist_words |-> [t \in DOMAIN history_lengths |-> NewRegister(history_lengths[t])],
               theta |-> 10, tc |-> 0]
  /\ outcomes = <<>> /\ others = 0 /\ seen = <<>>

(* bimodal::last_branch_result *)
BimodalUpdate(ip, taken) == [bimodal_table EXCEPT ![ip % BIMODAL_PRIME] = Counted(@, taken)]

(* gshare: the history is mixed with three slices of the address. *)
GshareHash(ip) ==
  LET n == 2 ^ GSHARE_HISTORY
  IN  FoldLeft(ExclusiveOr, gshare.history, <<ip % n, (ip \div n) % n, (ip \div (n * n)) % n>>)
GshareUpdate(ip, taken) ==
  [history |-> (2 * gshare.history + Bit(taken)) % 2 ^ GSHARE_HISTORY,
   table |-> [gshare.table EXCEPT ![GshareHash(ip)] = Counted(@, taken)]]

(* perceptron::predict_branch: also for instructions that are no branches. *)
PerceptronOutput(row, history) ==
  row.bias + SumOf([j \in DOMAIN history |-> IF history[j] THEN row.weights[j] ELSE -row.weights[j]])
PerceptronPredicts(ip) ==
  PerceptronOutput(perceptron.rows[ip % NUM_PERCEPTRONS], perceptron.spec_global_history) >= 0
Buffered_DropsNewest(buf) == IF Len(buf) > NUM_UPDATE_ENTRIES THEN Front(buf) ELSE buf    \* mutant
Buffered(buf) == IF Len(buf) > NUM_UPDATE_ENTRIES THEN Tail(buf) ELSE buf
PerceptronPredict(ip) ==
  LET history == perceptron.spec_global_history
      output == PerceptronOutput(perceptron.rows[ip % NUM_PERCEPTRONS], history)
  IN  [perceptron EXCEPT
         !.state_buf = Buffered(Append(@, [ip |-> ip, prediction |-> output >= 0,
                                           output |-> output, history |-> history])),
         !.spec_global_history = ShiftedIn(output >= 0, @)]

PerceptronTrained(row, taken, history) ==
  [bias |-> Weighed(row.bias, taken),
   weights |-> [j \in DOMAIN history |-> Weighed(row.weights[j], history[j] = taken)]]

(* perceptron::last_branch_result, after the prediction p: the first state of the ip. *)
PerceptronUpdate(p, ip, taken) ==
  LET found == {k \in DOMAIN p.state_buf : p.state_buf[k].ip = ip}
      k == CHOOSE i \in found : \A j \in found : i <= j
      state == p.state_buf[k]
      wrong == state.prediction # taken
      global == ShiftedIn(taken, p.global_history)
      trains == wrong \/ (state.output <= THETA /\ state.output >= -THETA)
  IN  IF found = {} THEN p
      ELSE [rows |-> IF trains
                     THEN [p.rows EXCEPT ![ip % NUM_PERCEPTRONS] = PerceptronTrained(@, taken, state.history)]
                     ELSE p.rows,
            state_buf |-> RemoveAt(p.state_buf, k),
            spec_global_history |-> IF wrong THEN global ELSE p.spec_global_history,
            global_history |-> global]

(* hashed_perceptron *)
HashedIndex(t, ip) == ExclusiveOr(Folded(hashed.ghist_words[t]), ip % 2 ^ WORD_LEN)
HashedOutput(ip) == SumOf([t \in DOMAIN history_lengths |-> hashed.tables[t][HashedIndex(t, ip)]])
AdjustThreshold(correct) ==
  LET tc == IF correct THEN hashed.tc - 1 ELSE hashed.tc + 1
  IN  CASE ~correct /\ tc >= SPEED -> [theta |-> hashed.theta + 1, tc |-> 0]
        [] correct /\ tc <= -SPEED -> [theta |-> hashed.theta - 1, tc |-> 0]
        [] OTHER -> [theta |-> hashed.theta, tc |-> tc]
HashedUpdate(ip, taken) ==
  LET yout == HashedOutput(ip)
      correct == taken = (yout >= 1)
      weak == yout < hashed.theta /\ -yout < hashed.theta
      threshold == IF ~correct \/ weak THEN AdjustThreshold(correct)
                   ELSE [theta |-> hashed.theta, tc |-> hashed.tc]
  IN  [tables |-> IF ~correct \/ weak
                  THEN [t \in DOMAIN history_lengths |->
                          [hashed.tables[t] EXCEPT ![HashedIndex(t, ip)] = Weighed(@, taken)]]
                  ELSE hashed.tables,
       ghist_words |-> [t \in DOMAIN history_lengths |->
                          PushBack(hashed.ghist_words[t], history_lengths[t], Bit(taken))],
       theta |-> threshold.theta, tc |-> threshold.tc]

(* do_predict_branch, for an instruction that is a branch or is not. *)
PredictNonBranch(i) ==
  /\ ~i.branch /\ others < MaxOthers
  /\ others' = others + 1
  /\ perceptron' = PerceptronPredict(i.ip)
  /\ seen' = <<Bit(PerceptronPredicts(i.ip))>> \o seen
  /\ UNCHANGED <<bimodal_table, gshare, hashed, outcomes>>

PredictBranch(i) ==
  /\ i.branch /\ Len(outcomes) < MaxOutcomes
  /\ bimodal_table' = BimodalUpdate(i.ip, i.taken)
  /\ gshare' = GshareUpdate(i.ip, i.taken)
  /\ perceptron' = PerceptronUpdate(PerceptronPredict(i.ip), i.ip, i.taken)
  /\ hashed' = HashedUpdate(i.ip, i.taken)
  /\ outcomes' = <<Bit(i.taken)>> \o outcomes
  /\ seen' = IF PerceptronPredicts(i.ip) = i.taken THEN <<Bit(i.taken)>> \o seen ELSE outcomes'
  /\ UNCHANGED others

BranchNext == \E i \in BranchStream : PredictNonBranch(i) \/ PredictBranch(i)

-------------------------------------------------------------------------------
Recent(bits, n) == [p \in 1 .. n |-> IF p <= Len(bits) THEN bits[p] ELSE 0]
(* The reference of the folded register: outcome number p is in bit p mod WORD_LEN. *)
FoldOf(n) ==
  FoldLeft(ExclusiveOr, 0, [p \in 1 .. n |-> Recent(outcomes, n)[p] * 2 ^ ((p - 1) % WORD_LEN)])

(* What the predictors look at (folded_shift_register, gshare, perceptron).      *)
(* gshare and hashed_perceptron: exactly the latest outcomes of branches, as     *)
(* many as the history is long, whatever was predicted in between; folded over   *)
(* values and words, none is lost or counted twice.  perceptron predicts with    *)
(* spec_global_history: the outcomes of branches, but among them, at their       *)
(* places, its predictions of the instructions that are no branches, since its   *)
(* last misprediction (seen). A misprediction clears these out, since            *)
(* global_history has the outcomes alone; however many states of other           *)
(* instructions fill the buffer, no outcome is lost or taught another's state.   *)
HistoriesAgree ==
  /\ \A t \in DOMAIN history_lengths : Folded(hashed.ghist_words[t]) = FoldOf(history_lengths[t])
  /\ gshare.history = SumOf([p \in 1 .. GSHARE_HISTORY |-> Recent(outcomes, GSHARE_HISTORY)[p] * 2 ^ (p - 1)])
  /\ \A p \in 1 .. PERCEPTRON_HISTORY :
       /\ Bit(perceptron.spec_global_history[p]) = Recent(seen, PERCEPTRON_HISTORY)[p]
       /\ Bit(perceptron.global_history[p]) = Recent(outcomes, PERCEPTRON_HISTORY)[p]
===============================================================================
