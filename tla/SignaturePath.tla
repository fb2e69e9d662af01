---------------------------- MODULE SignaturePath ----------------------------
(***************************************************************************)
(* The signature path prefetcher (src/prefetcher/spp_dev): the signature   *)
(* table ST follows the deltas inside a page, the pattern table PT counts  *)
(* which delta follows a signature, the lookahead walks PT along the most  *)
(* confident delta, the FILTER remembers what was asked and what was used, *)
(* and the GHR carries a walk that leaves its page over to the next page.  *)
(*                                                                         *)
(* The hashes are constants. An address is its block number. A call of     *)
(* prefetcher_cache_operate takes several steps here, one for every pass   *)
(* of its two loops.                                                       *)
(***************************************************************************)
EXTENDS Positions, Words

CONSTANTS
  BLOCKS_PER_PAGE,
  SppLines,           \* the lines the program touches
  SppSteps,           \* bound: the distances between two of its accesses
  SppEvicted,         \* the lines the cache may evict
  PageTag,            \* [page -> tag]: the ST_TAG_BIT bits of a page number
  SignatureHash,      \* [signature -> PT set]
  Quotient, Remainder, \* [line -> its slot in the filter, its tag there]
  ST_WAY, PT_WAY, MAX_GHR_ENTRY,
  SIG_SHIFT, SIG_BIT, SIG_DELTA_BIT,
  C_SIG_MAX, FILL_THRESHOLD, PF_THRESHOLD, GLOBAL_COUNTER_MAX,
  MaxSppOperations    \* bound

Page(line) == line \div BLOCKS_PER_PAGE
Offset(line) == line % BLOCKS_PER_PAGE

(* Deltas enter a signature in sign and magnitude. *)
SigDelta(delta) == IF delta < 0 THEN 2 ^ (SIG_DELTA_BIT - 1) - delta ELSE delta
NextSig(sig, delta) == ExclusiveOr(sig * 2 ^ SIG_SHIFT, SigDelta(delta)) % 2 ^ SIG_BIT
Signatures == 0 .. 2 ^ SIG_BIT - 1
PageDeltas == (1 - BLOCKS_PER_PAGE) .. (BLOCKS_PER_PAGE - 1)
PatternSets == {SignatureHash[sig] : sig \in Signatures}
FilterSlots == {Quotient[line] : line \in DOMAIN Quotient}

ASSUME SppAssumption ==
  /\ {ST_WAY, PT_WAY, MAX_GHR_ENTRY, BLOCKS_PER_PAGE} \subseteq Nat \ {0}
  /\ {C_SIG_MAX, FILL_THRESHOLD, GLOBAL_COUNTER_MAX} \subseteq Nat /\ PF_THRESHOLD \in Nat \ {0}
  /\ C_SIG_MAX % 2 = 1     \* (1 << C_SIG_BIT) - 1
  /\ 0 \in Signatures /\ Signatures \subseteq Nat
  /\ \A sig \in Signatures, delta \in PageDeltas : NextSig(sig, delta) \in Signatures
  /\ DOMAIN SignatureHash = Signatures
  /\ SppLines \subseteq Nat /\ SppEvicted \subseteq DOMAIN Quotient /\ IsFiniteSet(DOMAIN Quotient)
  /\ \A line \in SppLines, offset \in 0 .. BLOCKS_PER_PAGE - 1 :
       Page(line) * BLOCKS_PER_PAGE + offset \in DOMAIN Quotient

VARIABLES
  ST,      \* [way -> entry] of the one set of the signature table
  PT,      \* [set -> [delta, c_delta: way -> value, c_sig]]
  FILTER,  \* [slot -> [valid, useful, remainder_tag]]
  GHR,     \* [entry: index -> entry, pf_useful, pf_issued, halved: were the two ever halved,
           \* failed: did its assertion fail]
  walk,    \* the locals of the call that runs, or NoWalk
  spp_last \* the last access; how many there were

sppVars == <<ST, PT, FILTER, GHR, walk, spp_last>>

LowestWith(S, f) == Least({i \in S : \A j \in S : f[i] <= f[j]})

(* at: the step that is next; queue, head and pos: delta_q with confidence_q, *)
(* pf_q_head and i; way: lookahead_way, 0 if none; conf: lookahead_conf.       *)
NoWalk == [at |-> "return", page |-> 0, accuracy |-> 0, sig |-> 0, base |-> 0, queue |-> <<>>,
           head |-> 1, pos |-> 1, way |-> 0, conf |-> 100, depth |-> 0, more |-> FALSE]

SppInit ==
  /\ ST = [w \in 1 .. ST_WAY |-> [valid |-> FALSE, tag |-> 0, last_offset |-> 0, sig |-> 0, lru |-> w - 1]]
  /\ PT = [s \in PatternSets |->
             [delta |-> [w \in 1 .. PT_WAY |-> 0], c_delta |-> [w \in 1 .. PT_WAY |-> 0], c_sig |-> 0]]
  /\ FILTER = [q \in FilterSlots |-> [valid |-> FALSE, useful |-> FALSE, remainder_tag |-> 0]]
  /\ GHR = [entry |-> [i \in 1 .. MAX_GHR_ENTRY |->
                         [valid |-> FALSE, sig |-> 0, confidence |-> 0, offset |-> 0, delta |-> 0]],
            pf_useful |-> 0, pf_issued |-> 0, halved |-> FALSE, failed |-> FALSE]
  /\ walk = NoWalk
  /\ spp_last = [line |-> 0, operations |-> 0]

-------------------------------------------------------------------------------
(* SIGNATURE_TABLE *)
Tagged(line) == {w \in DOMAIN ST : ST[w].valid /\ ST[w].tag = PageTag[Page(line)]}
Unused == {w \in DOMAIN ST : ~ST[w].valid}
LeastRecent == {w \in DOMAIN ST : ST[w].lru = ST_WAY - 1}

(* The signature the GHR lends to a page entered at this offset, or 0. *)
BootstrapSig(offset) ==
  LET found == {i \in DOMAIN GHR.entry : GHR.entry[i].offset = offset /\ GHR.entry[i].confidence > 0}
      best == LowestWith(found, [i \in found |-> -GHR.entry[i].confidence])
  IN  IF found = {} THEN 0 ELSE NextSig(GHR.entry[best].sig, GHR.entry[best].delta)

MadeRecent(table, way) ==
  [w \in DOMAIN table |->
     [table[w] EXCEPT !.lru = IF w = way THEN 0 ELSE IF @ < table[way].lru THEN @ + 1 ELSE @]]

(* read_and_update_sig: the new table, the signatures before and after, the delta. *)
ReadAndUpdateSig(line) ==
  LET hit == Tagged(line) # {}
      way == Least(IF hit THEN Tagged(line) ELSE IF Unused # {} THEN Unused ELSE LeastRecent)
      delta == IF hit THEN Offset(line) - ST[way].last_offset ELSE 0
      sig == IF ~hit THEN BootstrapSig(Offset(line))
             ELSE IF delta # 0 THEN NextSig(ST[way].sig, delta) ELSE ST[way].sig
      entry == [valid |-> TRUE, tag |-> PageTag[Page(line)], last_offset |-> Offset(line),
                sig |-> sig, lru |-> ST[way].lru]
  IN  [table |-> MadeRecent([ST EXCEPT ![way] = entry], way),
       last_sig |-> IF delta # 0 THEN ST[way].sig ELSE 0,
       curr_sig |-> IF hit /\ delta = 0 THEN 0 ELSE sig,
       delta |-> delta]

-------------------------------------------------------------------------------
(* PATTERN_TABLE *)
Halved(set) ==
  IF set.c_sig <= C_SIG_MAX THEN set
  ELSE [delta |-> set.delta, c_delta |-> [w \in 1 .. PT_WAY |-> set.c_delta[w] \div 2],
        c_sig |-> set.c_sig \div 2]

UpdateSet_MissUncounted(set, delta) ==    \* mutant
  LET known == {w \in 1 .. PT_WAY : set.delta[w] = delta}
      way == IF known # {} THEN Least(known) ELSE LowestWith(1 .. PT_WAY, set.c_delta)
  IN  Halved([delta |-> [set.delta EXCEPT ![way] = delta],
              c_delta |-> [set.c_delta EXCEPT ![way] = IF known # {} THEN @ + 1 ELSE 0],
              c_sig |-> IF known # {} THEN set.c_sig + 1 ELSE set.c_sig])

UpdateSet(set, delta) ==
  LET known == {w \in 1 .. PT_WAY : set.delta[w] = delta}
      way == IF known # {} THEN Least(known) ELSE LowestWith(1 .. PT_WAY, set.c_delta)
  IN  Halved([delta |-> [set.delta EXCEPT ![way] = delta],
              c_delta |-> [set.c_delta EXCEPT ![way] = IF known # {} THEN @ + 1 ELSE 0],
              c_sig |-> set.c_sig + 1])

UpdatePattern(last_sig, delta) ==
  IF last_sig = 0 THEN PT
  ELSE [PT EXCEPT ![SignatureHash[last_sig]] = UpdateSet(@, delta)]

PfConf(set, way) ==
  IF walk.depth = 0 THEN (100 * set.c_delta[way]) \div set.c_sig
  ELSE (((walk.accuracy * set.c_delta[way]) \div set.c_sig) * walk.conf) \div 100

(* read_pattern, and the start of a pass over the queue from pf_q_head. The first *)
(* slot of the queue starts with confidence 100, and the slot that ends what one  *)
(* call of read_pattern found is left as it is.                                   *)
ReadPattern ==
  LET set == PT[SignatureHash[walk.sig]]
      conf == [w \in 1 .. PT_WAY |-> PfConf(set, w)]
      chosen == {w \in 1 .. PT_WAY : conf[w] >= PF_THRESHOLD}
      found == [k \in 1 .. Cardinality(chosen) |->
                  [conf |-> conf[Nth(chosen, k)], delta |-> set.delta[Nth(chosen, k)]]]
      gap == [conf |-> IF walk.queue = <<>> /\ chosen = {} THEN 100 ELSE 0, delta |-> 0]
      follow == IF chosen = {} THEN 0 ELSE LowestWith(chosen, [w \in 1 .. PT_WAY |-> -conf[w]])
  IN  /\ walk.at = "read_pattern"
      /\ walk' = [walk EXCEPT
                    !.at = "candidate", !.more = FALSE, !.pos = walk.head,
                    !.queue = IF set.c_sig = 0 THEN @ ELSE @ \o Append(found, gap),
                    !.way = IF set.c_sig = 0 THEN 0 ELSE follow,
                    !.conf = IF set.c_sig = 0 THEN @ ELSE IF follow = 0 THEN 0 ELSE conf[follow],
                    !.depth = IF set.c_sig = 0 \/ follow = 0 THEN @ ELSE @ + 1]
      /\ UNCHANGED <<ST, PT, FILTER, GHR, spp_last>>

-------------------------------------------------------------------------------
(* PREFETCH_FILTER, one operator per request. *)
InFilter(filter, line) ==
  LET slot == filter[Quotient[line]]
  IN  (slot.valid \/ slot.useful) /\ slot.remainder_tag = Remainder[line]

(* SPP_L2C_PREFETCH of a line that is not in the filter. *)
Record(filter, line) ==
  [filter EXCEPT ![Quotient[line]] = [valid |-> TRUE, useful |-> FALSE, remainder_tag |-> Remainder[line]]]

(* L2C_DEMAND: a slot that never held a line counts as one with tag 0. *)
FirstUse(line) ==
  FILTER[Quotient[line]].remainder_tag = Remainder[line] /\ ~FILTER[Quotient[line]].useful
Demanded(line) == IF FirstUse(line) THEN [FILTER EXCEPT ![Quotient[line]].useful = TRUE] ELSE FILTER

CountIssued(ghr) ==
  IF ghr.pf_issued < GLOBAL_COUNTER_MAX THEN [ghr EXCEPT !.pf_issued = @ + 1]
  ELSE [ghr EXCEPT !.pf_issued = (@ + 1) \div 2, !.pf_useful = @ \div 2, !.halved = TRUE]

(* GLOBAL_REGISTER::update_entry; `failed' is its assertion. *)
UpdateEntry(ghr, sig, candidate, offset) ==
  LET same == {i \in DOMAIN ghr.entry : ghr.entry[i].valid /\ ghr.entry[i].offset = offset}
      weak == {i \in DOMAIN ghr.entry : ghr.entry[i].confidence < 100}
      index == IF same # {} THEN Least(same)
               ELSE LowestWith(weak, [i \in weak |-> ghr.entry[i].confidence])
  IN  IF same \cup weak = {} THEN [ghr EXCEPT !.failed = TRUE]
      ELSE [ghr EXCEPT !.entry[index] =
              [valid |-> TRUE, sig |-> sig, confidence |-> candidate.conf, offset |-> offset,
               delta |-> candidate.delta]]

-------------------------------------------------------------------------------
(* One candidate of the queue: passed over, asked for, filtered out, or kept in *)
(* the GHR. One asked for again in a later pass is taken from the base of that  *)
(* pass.                                                                        *)
Candidate ==
  LET candidate == walk.queue[walk.pos]
      line == walk.base + candidate.delta
      confident == candidate.conf >= PF_THRESHOLD
      inside == Page(line) = walk.page
      asked == confident /\ inside /\ ~InFilter(FILTER, line) /\ candidate.conf >= FILL_THRESHOLD
  IN  /\ walk.at = "candidate" /\ walk.pos <= Len(walk.queue)
      /\ walk' = [walk EXCEPT !.pos = @ + 1, !.head = IF confident THEN @ + 1 ELSE @,
                              !.more = @ \/ confident]
      /\ FILTER' = IF asked THEN Record(FILTER, line) ELSE FILTER
      /\ GHR' = CASE confident /\ ~inside -> UpdateEntry(GHR, walk.sig, candidate, Offset(line))
                  [] asked -> CountIssued(GHR)
                  [] OTHER -> GHR
      /\ UNCHANGED <<ST, PT, spp_last>>

(* The end of a pass: on along the way, as long as a pass found something. *)
Follow ==
  LET delta == PT[SignatureHash[walk.sig]].delta[walk.way]
      next == [walk EXCEPT !.at = "read_pattern"]
  IN  /\ walk.at = "candidate" /\ walk.pos > Len(walk.queue)
      /\ walk' = CASE ~walk.more -> NoWalk
                   [] walk.more /\ walk.way = 0 -> next
                   [] OTHER -> [next EXCEPT !.base = @ + delta, !.sig = NextSig(@, delta)]
      /\ UNCHANGED <<ST, PT, FILTER, GHR, spp_last>>

(* prefetcher_cache_operate, up to its loop *)
SppOperate(line) ==
  LET read == ReadAndUpdateSig(line)
      used == FirstUse(line) /\ FILTER[Quotient[line]].valid
  IN  /\ walk.at = "return"
      /\ spp_last.operations < MaxSppOperations
      /\ spp_last.operations > 0 => line - spp_last.line \in SppSteps
      /\ ST' = read.table
      /\ PT' = UpdatePattern(read.last_sig, read.delta)
      /\ FILTER' = Demanded(line)
      /\ GHR' = [GHR EXCEPT !.pf_useful = IF used THEN @ + 1 ELSE @]
      /\ walk' = [NoWalk EXCEPT
                    !.at = "read_pattern", !.page = Page(line), !.sig = read.curr_sig, !.base = line,
                    !.accuracy = IF GHR.pf_issued > 0 THEN (100 * GHR.pf_useful) \div GHR.pf_issued ELSE 0]
      /\ spp_last' = [line |-> line, operations |-> spp_last.operations + 1]

(* prefetcher_cache_fill: L2C_EVICT, whichever line the slot stands for. *)
SppEvict(line) ==
  LET slot == FILTER[Quotient[line]]
  IN  /\ walk.at = "return"
      /\ FILTER' = [FILTER EXCEPT ![Quotient[line]] =
                      [valid |-> FALSE, useful |-> FALSE, remainder_tag |-> 0]]
      /\ GHR' = [GHR EXCEPT !.pf_useful =
                   IF slot.valid /\ ~slot.useful /\ @ > 0 THEN @ - 1 ELSE @]
      /\ UNCHANGED <<ST, PT, walk, spp_last>>

SppNext ==
  \/ \E line \in SppLines : SppOperate(line)
  \/ \E line \in SppEvicted : SppEvict(line)
  \/ ReadPattern \/ Candidate \/ Follow

SppSpec == SppInit /\ [][SppNext]_sppVars

-------------------------------------------------------------------------------
(* The counted occurrences of the deltas of a set of PT. *)
Occurrences(set) == {o \in (1 .. PT_WAY) \X (1 .. C_SIG_MAX) : o[2] <= set.c_delta[o[1]]}

(* None of the assertions of spp_dev can fire (spp_dev.cc:254, 283, 343, 526), *)
(* the one of the GHR as long as pf_issued was never halved: the LRU values of  *)
(* ST are a permutation, so a victim is always found; the counts of a set add   *)
(* up to less than c_sig, through every halving, so that PT has an entry to     *)
(* replace and no confidence of PT reaches 100; no more prefetches are counted  *)
(* as useful than as issued, so that a lookahead loses confidence with every    *)
(* step and ends, and the GHR always has an entry to replace.                   *)
SppAssertionsHold ==
  /\ {ST[w].lru : w \in DOMAIN ST} = 0 .. ST_WAY - 1
  /\ \A s \in DOMAIN PT : /\ PT[s].c_sig \in 0 .. C_SIG_MAX
                          /\ PT[s].c_sig = 0 \/ Cardinality(Occurrences(PT[s])) < PT[s].c_sig
  /\ ~GHR.halved => /\ GHR.pf_useful <= GHR.pf_issued
                    /\ walk.conf + walk.depth <= 100
                    /\ ~GHR.failed

(* "Cannot find a replacement victim!" (spp_dev.cc:528): what the assertion of *)
(* the GHR says of every run, halved counters or not.                          *)
GhrFindsVictim == ~GHR.failed
===============================================================================
