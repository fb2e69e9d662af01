------------------------------ MODULE Replacement ------------------------------
(***************************************************************************)
(* The replacement policies lru, srrip, drrip and ship (replacement/), and *)
(* the way CACHE calls them (src/cache.cc, inc/cache.h): every lookup      *)
(* reports a hit, and a miss too when the policy has a hook for fills; a   *)
(* fill of a full set asks for a victim first, and once more each time the *)
(* lower level refuses the write-back of the victim.  One processor, one   *)
(* policy in a behaviour.                                                  *)
(***************************************************************************)
EXTENDS Positions

CONSTANTS
  ReplacementAccesses,    \* [line, ip, type]; line l lives in set l % NUM_SET
  NUM_SET, NUM_WAY,
  maxRRPV, BRRIP_MAX, PSEL_MAX,
  SHCT_MAX, SHCT_PRIME,
  REPLACEMENT_MSHR,       \* MSHR_SIZE of the cache
  MaxReplacementSteps     \* bound on the lookups

ASSUME ReplacementAssumption ==
  /\ ReplacementAccesses \subseteq [line : Nat, ip : Nat, type : {"LOAD", "PREFETCH", "WRITE"}]
  /\ {NUM_WAY, BRRIP_MAX, SHCT_PRIME} \subseteq Nat \ {0}
  /\ maxRRPV \in Nat \ {0, 1}                   \* 3 in all three
  /\ NUM_SET \in 8 .. 63 /\ NUM_SET % 4 = 0    \* get_sample_rate is 4

VARIABLES
  policy, match_offset_bits,      \* never change; stores miss like loads if match_offset_bits
  content, dirty,                 \* [set -> [way -> line or NoLine]], [set -> [way -> BOOLEAN]]
  MSHR, inflight_fills,           \* accesses that wait for their data, and for their fill in turn
  last_used,                      \* of lru: [set -> [way -> time]]
  rrpv,                           \* of srrip, drrip and ship
  brrip_counter, PSEL,            \* of drrip
  sampler, SHCT,                  \* of ship; sampler[s] belongs to sets 4s .. 4s + 3
  clock,                          \* lru::cycle, ship::access_count
  lookups,
  used_since, reused, fresh, refused  \* history: see VictimsAreCold
replVars == <<policy, match_offset_bits, content, dirty, MSHR, inflight_fills, last_used, rrpv,
              brrip_counter, PSEL, sampler, SHCT, clock, lookups, used_since, reused, fresh, refused>>

NoLine == -1
CacheSets == 0 .. NUM_SET - 1
CacheWays == 1 .. NUM_WAY
CacheSet(line) == line % NUM_SET
Holding(line) == {w \in CacheWays : content[CacheSet(line)][w] = line}
Full(set) == \A w \in CacheWays : content[set][w] # NoLine

(* The first of the least, and of the greatest, elements. *)
min_element(f) == CHOOSE i \in DOMAIN f : \A j \in DOMAIN f : f[i] <= f[j] /\ (f[i] = f[j] => i <= j)
max_element(f) == CHOOSE i \in DOMAIN f : \A j \in DOMAIN f : f[i] >= f[j] /\ (f[i] = f[j] => i <= j)

ReplacementInit ==
  /\ policy \in {"lru", "srrip", "drrip", "ship"} /\ match_offset_bits \in BOOLEAN
  /\ content = [s \in CacheSets |-> [w \in CacheWays |-> NoLine]]
  /\ dirty = [s \in CacheSets |-> [w \in CacheWays |-> FALSE]]
  /\ MSHR = {} /\ inflight_fills = <<>>
  /\ last_used = [s \in CacheSets |-> [w \in CacheWays |-> 0]]
  /\ rrpv = [s \in CacheSets |-> [w \in CacheWays |-> IF policy = "drrip" THEN 0 ELSE maxRRPV]]
  (* Never initialised; BRRIP_MAX stands for every value it would have to wrap from. *)
  /\ brrip_counter \in IF policy = "drrip" THEN 0 .. BRRIP_MAX ELSE {0}
  /\ PSEL = 0
  /\ sampler = [s \in 0 .. NUM_SET \div 4 - 1 |-> [w \in CacheWays |->
                  [valid |-> FALSE, used |-> FALSE, line |-> 0, ip |-> 0, last_used |-> 0]]]
  /\ SHCT = [i \in 0 .. SHCT_PRIME - 1 |-> 0]
  /\ clock = 0 /\ lookups = 0
  /\ used_since = [s \in CacheSets |-> [w \in CacheWays |-> {}]]
  /\ reused = [s \in CacheSets |-> {}]
  /\ fresh = [s \in CacheSets |-> {}]
  /\ refused = [s \in CacheSets |-> {}]

(* categorizer::get_sample_category: 0 and 1 lead the duel, the others follow. *)
SampleCategory(set) == ((4 + (set % 4)) - ((set \div 4) % 4)) % 4

-------------------------------------------------------------------------------
(* ship::update_replacement_state: the sampler sees every lookup of its sets. *)
Saturated(v, max) == IF v < 0 THEN 0 ELSE IF v > max THEN max ELSE v
Sample(line, ip) ==
  LET s == CacheSet(line) \div 4
      found == {w \in CacheWays : sampler[s][w].valid /\ sampler[s][w].line = line}
      way == IF found # {} THEN CHOOSE w \in found : \A v \in found : w <= v
             ELSE min_element([w \in CacheWays |-> sampler[s][w].last_used])
      entry == sampler[s][way]
      trained == entry.ip % SHCT_PRIME
  IN  IF SampleCategory(CacheSet(line)) # 0 THEN UNCHANGED <<sampler, SHCT, clock>>
      ELSE /\ clock' = clock + 1
           /\ sampler' = [sampler EXCEPT ![s][way] =
                IF found # {} THEN [entry EXCEPT !.used = TRUE, !.last_used = clock]
                ELSE [valid |-> TRUE, used |-> FALSE, line |-> line, ip |-> ip, last_used |-> clock]]
           /\ SHCT' = CASE found # {} -> [SHCT EXCEPT ![trained] = Saturated(@ - 1, SHCT_MAX)]
                        [] found = {} /\ ~entry.used ->
                             [SHCT EXCEPT ![trained] = Saturated(@ + 1, SHCT_MAX)]
                        [] OTHER -> SHCT

(* What a hit leaves: drrip moves what is written away from the front. *)
HitRRPV_WritesToo(write) == 0    \* mutant
HitRRPV(write) == IF policy = "drrip" /\ write THEN maxRRPV - 1 ELSE 0

(* lru: a way is used now, after all others. *)
WayUsed(set, way) ==
  /\ last_used' = [last_used EXCEPT ![set][way] = clock]
  /\ clock' = clock + 1
  /\ used_since' = [used_since EXCEPT ![set] =
                      [w \in CacheWays |-> IF w = way THEN {} ELSE @[w] \cup {way}]]

(* CACHE::try_hit, in the first way that holds the line. *)
LookupHit(a) ==
  LET set == CacheSet(a.line)
      way == Least(Holding(a.line))
      writes == a.type = "WRITE"
  IN  /\ Holding(a.line) # {}
      /\ dirty' = [dirty EXCEPT ![set][way] = @ \/ writes]
      /\ IF policy = "lru"
         THEN /\ IF writes THEN UNCHANGED <<last_used, clock, used_since>> ELSE WayUsed(set, way)
              /\ UNCHANGED <<rrpv, sampler, SHCT, reused, fresh>>
         ELSE /\ rrpv' = [rrpv EXCEPT ![set][way] = HitRRPV(writes)]
              /\ IF policy = "ship" THEN Sample(a.line, a.ip) ELSE UNCHANGED <<sampler, SHCT, clock>>
              /\ IF policy = "drrip" /\ writes
                 THEN fresh' = [fresh EXCEPT ![set] = @ \ {way}] /\ UNCHANGED reused
                 ELSE /\ fresh' = [fresh EXCEPT ![set] = @ \cup {way}]
                      /\ reused' = [reused EXCEPT ![set] = @ \cup {way}]
              /\ UNCHANGED <<last_used, used_since>>
      /\ refused' = [refused EXCEPT ![set] = @ \ {way}]
      /\ UNCHANGED <<content, MSHR, inflight_fills>>

(* fill_type::merge *)
Merged(predecessor, successor) == IF successor.type = "PREFETCH" THEN predecessor ELSE successor

(* CACHE::handle_miss: joins the entry of its block, or takes one - unless the MSHR is  *)
(* full, the lower level refuses, when it is looked up again, or nothing is to come back. *)
HandleMiss(a) ==
  LET filling == {i \in DOMAIN inflight_fills : inflight_fills[i].line = a.line}
  IN  CASE \E m \in MSHR : m.line = a.line ->
             /\ MSHR' = {IF m.line = a.line THEN Merged(m, a) ELSE m : m \in MSHR}
             /\ UNCHANGED inflight_fills
        [] filling # {} /\ ~ \E m \in MSHR : m.line = a.line ->
             /\ inflight_fills' = [inflight_fills EXCEPT ![Least(filling)] = Merged(@, a)]
             /\ UNCHANGED MSHR
        [] OTHER ->
             /\ \/ Cardinality(MSHR) < REPLACEMENT_MSHR /\ MSHR' = MSHR \cup {a}
                \/ UNCHANGED MSHR
             /\ UNCHANGED inflight_fills

(* CACHE::handle_write, of the levels that take writes for write-backs: a fill of its own. *)
HandleWrite(a) == inflight_fills' = Append(inflight_fills, a) /\ UNCHANGED MSHR

(* lru and drrip do nothing at a miss, and srrip is not told. *)
LookupMiss(a) ==
  /\ Holding(a.line) = {}
  /\ IF policy = "ship" THEN Sample(a.line, a.ip) ELSE UNCHANGED <<sampler, SHCT, clock>>
  /\ IF a.type = "WRITE" /\ ~match_offset_bits THEN HandleWrite(a) ELSE HandleMiss(a)
  /\ UNCHANGED <<content, dirty, last_used, rrpv, used_since, reused, fresh, refused>>

Lookup(a) ==
  /\ lookups < MaxReplacementSteps
  /\ lookups' = lookups + 1
  /\ LookupHit(a) \/ LookupMiss(a)
  /\ UNCHANGED <<policy, match_offset_bits, brrip_counter, PSEL>>

(* CACHE::finish_packet: the data are there, the fill waits for its turn. *)
FinishPacket(m) ==
  /\ MSHR' = MSHR \ {m}
  /\ inflight_fills' = Append(inflight_fills, m)
  /\ UNCHANGED <<policy, match_offset_bits, content, dirty, last_used, rrpv, brrip_counter, PSEL,
                 sampler, SHCT, clock, lookups, used_since, reused, fresh, refused>>

-------------------------------------------------------------------------------
(* dscounter *)
Decide(set) ==
  CASE SampleCategory(set) = 0 -> TRUE
    [] SampleCategory(set) = 1 -> FALSE
    [] OTHER -> PSEL >= PSEL_MAX \div 2
UpdateBad(set) ==
  CASE SampleCategory(set) = 0 -> Saturated(PSEL - 1, PSEL_MAX)
    [] SampleCategory(set) = 1 -> Saturated(PSEL + 1, PSEL_MAX)
    [] OTHER -> PSEL

(* srrip_set_helper::victim and the two copies of it: everything ages until one is at the maximum. *)
Aged(values) == LET most == values[max_element(values)]
                IN  [w \in CacheWays |-> values[w] + (maxRRPV - most)]

(* drrip::replacement_cache_fill *)
DrripFill(m, set, way, values) ==
  IF m.type = "WRITE"
  THEN /\ rrpv' = [rrpv EXCEPT ![set] = [values EXCEPT ![way] = maxRRPV - 1]]
       /\ UNCHANGED <<brrip_counter, PSEL>>
  ELSE LET bimodal == Decide(set)
           near == ~bimodal \/ brrip_counter + 1 = BRRIP_MAX
       IN  /\ rrpv' = [rrpv EXCEPT ![set] = [values EXCEPT ![way] = IF near THEN maxRRPV - 1 ELSE maxRRPV]]
           /\ brrip_counter' = CASE ~bimodal \/ brrip_counter = BRRIP_MAX -> brrip_counter
                                 [] OTHER -> (brrip_counter + 1) % BRRIP_MAX
           /\ PSEL' = UpdateBad(set)

(* ship::replacement_cache_fill *)
ShipRRPV(m) == IF m.type # "WRITE" /\ SHCT[m.ip % SHCT_PRIME] = SHCT_MAX THEN maxRRPV ELSE maxRRPV - 1

(* find_victim, and the row of the set it leaves. *)
Victim(set) == IF policy = "lru" THEN min_element(last_used[set]) ELSE max_element(rrpv[set])
Searched(set) == IF policy = "lru" THEN rrpv[set] ELSE Aged(rrpv[set])
FilledWay(set) ==
  IF Full(set) THEN Victim(set) ELSE Least({w \in CacheWays : content[set][w] = NoLine})

(* CACHE::handle_fill: an empty way, or the victim's; then the policy's hook.   *)
(* impl_replacement_cache_fill passes the fill of a policy without the hook to  *)
(* impl_update_replacement_state as a miss, which drops it: srrip never hears.  *)
FillWay ==
  LET m == Head(inflight_fills)
      set == CacheSet(m.line)
      way == FilledWay(set)
      values == IF Full(set) THEN Searched(set) ELSE rrpv[set]
  IN  /\ inflight_fills # <<>>
      /\ inflight_fills' = Tail(inflight_fills)
      /\ content' = [content EXCEPT ![set][way] = m.line]
      /\ dirty' = [dirty EXCEPT ![set][way] = m.type = "WRITE"]
      /\ CASE policy = "lru" -> WayUsed(set, way) /\ UNCHANGED <<rrpv, brrip_counter, PSEL>>
           [] policy = "drrip" -> DrripFill(m, set, way, values) /\ UNCHANGED <<last_used, clock, used_since>>
           [] policy = "ship" -> /\ rrpv' = [rrpv EXCEPT ![set] = [values EXCEPT ![way] = ShipRRPV(m)]]
                                 /\ UNCHANGED <<last_used, clock, used_since, brrip_counter, PSEL>>
           [] OTHER -> /\ rrpv' = [rrpv EXCEPT ![set] = values]
                       /\ UNCHANGED <<last_used, clock, used_since, brrip_counter, PSEL>>
      /\ reused' = [reused EXCEPT ![set] = @ \ {way}]
      /\ fresh' = IF Full(set) THEN [fresh EXCEPT ![set] = {}] ELSE fresh
      /\ refused' = [refused EXCEPT ![set] = {}]
      /\ UNCHANGED <<policy, match_offset_bits, MSHR, sampler, SHCT, lookups>>

(* The lower level refuses the write-back of the victim: the fill stays at its   *)
(* place, before all others, and only what the search did to the set is left.    *)
FillRefused ==
  LET set == CacheSet(Head(inflight_fills).line)
  IN  /\ inflight_fills # <<>>
      /\ Full(set) /\ dirty[set][Victim(set)]
      /\ rrpv' = [rrpv EXCEPT ![set] = Searched(set)]
      /\ fresh' = [fresh EXCEPT ![set] = {}]
      /\ refused' = [refused EXCEPT ![set] = {Victim(set)}]
      /\ UNCHANGED <<policy, match_offset_bits, content, dirty, MSHR, inflight_fills, last_used,
                     brrip_counter, PSEL, sampler, SHCT, clock, lookups, used_since, reused>>

ReplacementNext ==
  \/ \E a \in ReplacementAccesses : Lookup(a)
  \/ \E m \in MSHR : FinishPacket(m)
  \/ FillWay
  \/ FillRefused

ReplacementSpec == ReplacementInit /\ [][ReplacementNext]_replVars

-------------------------------------------------------------------------------
Evicted(s, w) == content[s][w] # NoLine /\ content[s][w] # content'[s][w]

(* The victim is cold, however often its write-back was refused (find_victim    *)
(* of the four policies, called by handle_fill at every try).  lru evicts a     *)
(* block only when all other blocks of its set were filled or read after it was *)
(* (used_since).  The others never evict a block promoted since the last search *)
(* of its set (fresh), refused or not, unless all blocks of the set were        *)
(* promoted since their fill (reused).  And a refused fill takes the block it   *)
(* chose first (refused), whatever it did to the ages and whatever else was hit *)
(* in between, unless that block was hit.                                       *)
VictimsAreCold ==
  [][\A s \in CacheSets, w \in CacheWays :
       Evicted(s, w) =>
         /\ refused[s] \subseteq {w}
         /\ IF policy = "lru" THEN CacheWays \ {w} \subseteq used_since[s][w]
            ELSE w \in fresh[s] => reused[s] = CacheWays]_replVars
===============================================================================
