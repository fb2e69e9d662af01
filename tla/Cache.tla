--------------------------------- MODULE Cache ---------------------------------
(***************************************************************************)
(* CACHE (src/src/cache.cc): one cache of the hierarchy between the        *)
(* channels of its upper levels and the channel to its lower level, as an  *)
(* L2C or LLC is configured (every request arrives translated).            *)
(*                                                                         *)
(* operate() runs to completion in one simulated cycle.  Each function it  *)
(* calls is an action; `stage' sequences them as operate() does, and the   *)
(* neighbours of the cache move only between two calls of operate().       *)
(***************************************************************************)
EXTENDS Integers, Sequences, FiniteSets

CONSTANTS
  Block,            \* block addresses (an address without its OFFSET_BITS)
  Upper,            \* the channels in upper_levels
  Set,              \* the sets of the cache
  SetIndex,         \* get_set_index, as a function
  NUM_WAY,
  MSHR_SIZE,
  PQ_SIZE,          \* of internal_PQ
  UpperSize,        \* the sizes of the upper channels' queues, by queue
  LowerSize,        \* the sizes of the lower channel's queues, by queue
  MAX_TAG,          \* tag checks per cycle
  MAX_FILL,         \* fills per cycle
  HIT_LATENCY,      \* in cycles
  FILL_LATENCY,     \* in cycles
  match_offset_bits,    \* stores are misses (L1D), not fills
  prefetch_as_load,     \* local prefetches go to the lower RQ
  pref_activate_mask,   \* the access types that train the prefetcher
  PolicyMayBypass,      \* the replacement policy may answer NUM_WAY
  RequestKinds,     \* what the upper levels send, by queue
  PrefetchRequests, \* what one call of a prefetcher hook may ask for: sequences
  MaxPrefetch,      \* bound: prefetches issued in a phase
  MaxPending        \* bound: requests inside the cache when a write enters

Queue == {"WQ", "RQ", "PQ"}
AccessType == {"LOAD", "WRITE", "RFO", "PREFETCH"}
Way == 1..NUM_WAY
PipelineDepth == MAX_TAG * HIT_LATENCY    \* tag checks that fit in HIT_LATENCY cycles

ASSUME CacheAssumption ==
  /\ IsFiniteSet(Upper) /\ Upper # {}
  /\ IsFiniteSet(Set) /\ SetIndex \in [Block -> Set]
  /\ NUM_WAY \in Nat \ {0}
  /\ MSHR_SIZE \in Nat \ {0}
  /\ PQ_SIZE \in Nat
  /\ UpperSize \in [Queue -> Nat] /\ LowerSize \in [Queue -> Nat]
  /\ MAX_TAG \in Nat \ {0} /\ MAX_FILL \in Nat \ {0}
  /\ HIT_LATENCY \in Nat /\ FILL_LATENCY \in Nat
  /\ match_offset_bits \in BOOLEAN /\ prefetch_as_load \in BOOLEAN
  /\ pref_activate_mask \subseteq AccessType
  /\ PolicyMayBypass \in BOOLEAN
  /\ RequestKinds \subseteq [queue : Queue, type : AccessType, response_requested : BOOLEAN]
  /\ PrefetchRequests \subseteq Seq([addr : Block, fill : BOOLEAN])
  /\ MaxPrefetch \in Nat /\ MaxPending \in Nat

VARIABLES
  upper_queue,         \* upper_queue[u][q]: queue q of upper channel u
  returned,            \* returned[u]: the responses in upper channel u
  asked,               \* asked[u]: the blocks u has an MSHR entry for
  upper_levels,        \* the channels in the order this cycle serves them
  internal_PQ,         \* the prefetcher's own requests
  inflight_tag_check,
  MSHR,
  inflight_fills,
  block,               \* block[s][w]: a line of set s
  lower_queue,         \* lower_queue[q]: queue q of the lower channel
  lower_taken,         \* blocks the lower level is working on
  lower_returned,      \* the responses in the lower channel
  warmup,
  sim_stats,           \* the prefetch counters
  stage,               \* where operate() is
  budget,              \* what is left of the bandwidth of this stage
  quota,               \* what is left of one queue's share of it
  share,               \* per_upper_bandwidth
  todo,                \* the upper queues still to be served
  scan                 \* the tag check under examination

upper == <<upper_queue, asked, upper_levels>>
lower == <<lower_queue, lower_taken, lower_returned>>
sched == <<stage, budget, quota, share, todo, scan>>
cacheVars == <<internal_PQ, inflight_tag_check, MSHR, inflight_fills, block, sim_stats>>
vars == <<upper, returned, cacheVars, lower, warmup, sched>>

Request  == [addr : Block, type : AccessType, response_requested : BOOLEAN]
TagCheck == [addr : Block, type : AccessType, prefetch_from_this : BOOLEAN,
             skip_fill : BOOLEAN, to_return : SUBSET Upper, wait : Nat]
Fill     == [addr : Block, type : AccessType, prefetch_from_this : BOOLEAN,
             to_return : SUBSET Upper, wait : Nat]
InvalidLine == [valid |-> FALSE]
ValidLine == [valid : {TRUE}, addr : Block, dirty : BOOLEAN, prefetch : BOOLEAN]

--------------------------------------------------------------------------------
(* Helpers *)

Lesser(m, n)  == IF m < n THEN m ELSE n
Greater(m, n) == IF m > n THEN m ELSE n
Without(s, i) == [j \in 1 .. Len(s) - 1 |-> IF j < i THEN s[j] ELSE s[j + 1]]
Latency(cycles) == IF warmup THEN 0 ELSE cycles

(* A cycle passes: what was to be ready at a time is one cycle closer to it. *)
TickEntry(entry) == [entry EXCEPT !.wait = IF @ = 0 THEN 0 ELSE @ - 1]
Tick(s) == [i \in DOMAIN s |-> TickEntry(s[i])]

(* The entry std::find_if finds with matches_address. *)
FirstMatch(s, b, i) ==
  /\ i \in DOMAIN s
  /\ s[i].addr = b
  /\ \A j \in 1 .. i - 1 : s[j].addr # b
NoMatch(s, b) == \A i \in DOMAIN s : s[i].addr # b

(* std::iter_swap of the i-th entry with the first, then pop_front. *)
SwapPop_NoSwap(s, i) == Tail(s)    \* mutant: pop_front without the iter_swap
SwapPop(s, i) == [j \in 1 .. Len(s) - 1 |-> IF j + 1 = i THEN s[1] ELSE s[j + 1]]

(* tag_lookup_type of a request, with its to_return and event_cycle. *)
ToReturn_Always(req, u) == {u}    \* mutant: response_requested ignored
ToReturn(req, u) == IF req.response_requested THEN {u} ELSE {}
TagLookup(req, to_return) ==
  [addr |-> req.addr, type |-> req.type, prefetch_from_this |-> FALSE,
   skip_fill |-> FALSE, to_return |-> to_return, wait |-> Latency(HIT_LATENCY)]

FillType(pkt, wait) ==
  [addr |-> pkt.addr, type |-> pkt.type, prefetch_from_this |-> pkt.prefetch_from_this,
   to_return |-> pkt.to_return, wait |-> wait]

(* Mutant: the entry stays a local prefetch after a demand has made it useful. *)
Merge_StaysPrefetch(predecessor, successor) ==
  [(IF successor.type = "PREFETCH" THEN predecessor ELSE successor)
     EXCEPT !.to_return = predecessor.to_return \cup successor.to_return,
            !.wait = predecessor.wait,
            !.prefetch_from_this = predecessor.prefetch_from_this]

(* fill_type::merge: a demand takes the entry over, a prefetch does not. *)
Merge(predecessor, successor) ==
  LET kept == IF successor.type = "PREFETCH" THEN predecessor ELSE successor
  IN  [kept EXCEPT !.to_return = predecessor.to_return \cup successor.to_return,
                   !.wait = predecessor.wait]

FillBlock(fill) ==
  [valid |-> TRUE, addr |-> fill.addr, dirty |-> fill.type = "WRITE",
   prefetch |-> fill.prefetch_from_this]

HitWay(b, w) ==
  /\ w \in Way
  /\ LET line == block[SetIndex[b]]
     IN  /\ line[w].valid /\ line[w].addr = b
         /\ \A v \in 1 .. w - 1 : ~(line[v].valid /\ line[v].addr = b)
Misses(b) == \A w \in Way : ~(block[SetIndex[b]][w].valid /\ block[SetIndex[b]][w].addr = b)

(* The response is pushed to every channel that waits for it. *)
Respond(to_return, b) ==
  returned' = [u \in Upper |-> IF u \in to_return THEN Append(returned[u], b)
                                                  ELSE returned[u]]

CanAdd(queue, size) == Len(queue) < size

ActivatesPrefetcher(pkt) ==
  ~pkt.prefetch_from_this /\ pkt.type \in pref_activate_mask

(* A prefetcher hook calls prefetch_line once for each element of `lines'; *)
(* the calls that find internal_PQ full fail.                              *)
HookCalls ==
  {lines \in PrefetchRequests : sim_stats.pf_issued + Len(lines) <= MaxPrefetch}
    \cup {<<>>}
Accepted(lines) == Lesser(Len(lines), Greater(PQ_SIZE - Len(internal_PQ), 0))
LocalPrefetch(line) ==
  [addr |-> line.addr, type |-> "PREFETCH", prefetch_from_this |-> TRUE,
   skip_fill |-> ~line.fill, to_return |-> {}, wait |-> 0]
PrefetchLines(lines) ==
  internal_PQ' = internal_PQ \o [i \in 1 .. Accepted(lines) |-> LocalPrefetch(lines[i])]
Issue(stats, lines) == [stats EXCEPT !.pf_issued = @ + Accepted(lines)]

Init ==
  /\ upper_queue = [u \in Upper |-> [q \in Queue |-> <<>>]]
  /\ returned = [u \in Upper |-> <<>>]
  /\ asked = [u \in Upper |-> {}]
  /\ upper_levels \in {s \in [1 .. Cardinality(Upper) -> Upper] :
                         \A u \in Upper : \E i \in DOMAIN s : s[i] = u}
  /\ internal_PQ = <<>>
  /\ inflight_tag_check = <<>>
  /\ MSHR = <<>>
  /\ inflight_fills = <<>>
  /\ block = [s \in Set |-> [w \in Way |-> InvalidLine]]
  /\ lower_queue = [q \in Queue |-> <<>>]
  /\ lower_taken = {}
  /\ lower_returned = <<>>
  /\ warmup = TRUE
  /\ sim_stats = [pf_issued |-> 0, pf_useful |-> 0, pf_useless |-> 0, carried |-> 0]
  /\ stage = "idle" /\ budget = 0 /\ quota = 0 /\ share = 0 /\ todo = <<>> /\ scan = 1

--------------------------------------------------------------------------------
(* The neighbours of the cache, between two calls of its operate() *)

(* An upper channel gets a request: one that wants a response only for a    *)
(* block the cache above has no MSHR entry for (asked), as its upper level  *)
(* is a cache and merges its misses, which LSQ and walker do not; a         *)
(* write-back or a prefetch that does not fill the level above wants none.  *)
UpperRequest(u, kind, b) ==
  /\ stage = "idle"
  /\ CanAdd(upper_queue[u][kind.queue], UpperSize[kind.queue])
  /\ IF kind.response_requested
     THEN /\ b \notin asked[u]
          /\ asked' = [asked EXCEPT ![u] = @ \cup {b}]
     ELSE /\ Len(inflight_tag_check) + Len(inflight_fills) < MaxPending
          /\ UNCHANGED asked
  /\ upper_queue' = [upper_queue EXCEPT ![u][kind.queue] =
       Append(@, [addr |-> b, type |-> kind.type,
                  response_requested |-> kind.response_requested])]
  /\ UNCHANGED <<upper_levels, returned, cacheVars, lower, warmup, sched>>

(* finish_packet of the cache above u. *)
UpperFinishPacket(u) ==
  /\ stage = "idle"
  /\ returned[u] # <<>>
  /\ asked' = [asked EXCEPT ![u] = @ \ {Head(returned[u])}]
  /\ returned' = [returned EXCEPT ![u] = Tail(@)]
  /\ UNCHANGED <<upper_queue, upper_levels, cacheVars, lower, warmup, sched>>

(* The lower level takes a request; it may take its queues in any order. *)
LowerAccept(q) ==
  /\ stage = "idle"
  /\ lower_queue[q] # <<>>
  /\ lower_taken' = IF Head(lower_queue[q]).response_requested
                      THEN lower_taken \cup {Head(lower_queue[q]).addr}
                      ELSE lower_taken
  /\ lower_queue' = [lower_queue EXCEPT ![q] = Tail(@)]
  /\ UNCHANGED <<upper, returned, cacheVars, lower_returned, warmup, sched>>

LowerRespond(b) ==
  /\ stage = "idle"
  /\ b \in lower_taken
  /\ lower_taken' = lower_taken \ {b}
  /\ lower_returned' = Append(lower_returned, b)
  /\ UNCHANGED <<upper, returned, cacheVars, lower_queue, warmup, sched>>

--------------------------------------------------------------------------------
(* operate() *)

(* _operate advances current_time before it calls operate. *)
BeginOperate ==
  /\ stage = "idle"
  /\ stage' = "returns"
  /\ inflight_tag_check' = Tick(inflight_tag_check)
  /\ inflight_fills' = Tick(inflight_fills)
  /\ UNCHANGED <<upper, returned, internal_PQ, MSHR, block, sim_stats, lower, warmup,
                 budget, quota, share, todo, scan>>

(* finish_packet: a response without an MSHR entry would abort. *)
FinishPacket ==
  /\ stage = "returns"
  /\ lower_returned # <<>>
  /\ \E m \in DOMAIN MSHR :
       /\ FirstMatch(MSHR, Head(lower_returned), m)
       /\ inflight_fills' =
            Append(inflight_fills, [MSHR[m] EXCEPT !.wait = Latency(FILL_LATENCY)])
       /\ MSHR' = SwapPop(MSHR, m)
  /\ lower_returned' = Tail(lower_returned)
  /\ UNCHANGED <<upper, returned, internal_PQ, inflight_tag_check, block, sim_stats,
                 lower_queue, lower_taken, warmup, sched>>

FinishReturns ==
  /\ stage = "returns"
  /\ lower_returned = <<>>
  /\ stage' = "fills"
  /\ budget' = MAX_FILL
  /\ UNCHANGED <<upper, returned, cacheVars, lower, warmup, quota, share, todo, scan>>

FillReady ==
  stage = "fills" /\ budget > 0 /\ inflight_fills # <<>> /\ Head(inflight_fills).wait = 0

(* The way handle_fill fills: the first invalid one, else the policy's     *)
(* victim, NUM_WAY + 1 standing for the end of the set (a bypass).         *)
Victims(fill) ==
  LET line    == block[SetIndex[fill.addr]]
      invalid == {w \in Way : ~line[w].valid}
  IN  IF invalid # {} THEN {w \in invalid : \A v \in invalid : w <= v}
      ELSE Way \cup (IF PolicyMayBypass /\ fill.type # "WRITE" THEN {NUM_WAY + 1} ELSE {})
NeedsWriteback(s, w) == w \in Way /\ block[s][w].valid /\ block[s][w].dirty

WritebackPacket_OfFill(victim, fill) ==    \* mutant: the address of the fill
  [addr |-> fill.addr, type |-> "WRITE", response_requested |-> FALSE]
WritebackPacket(victim, fill) ==
  [addr |-> victim.addr, type |-> "WRITE", response_requested |-> FALSE]

(* handle_fill, the victim's write-back accepted. *)
HandleFill(w, lines) ==
  /\ FillReady
  /\ LET fill == Head(inflight_fills)
          s    == SetIndex[fill.addr]
     IN  /\ w \in Victims(fill)
         /\ IF NeedsWriteback(s, w)
            THEN /\ CanAdd(lower_queue["WQ"], LowerSize["WQ"])
                 /\ lower_queue' =
                      [lower_queue EXCEPT !["WQ"] = Append(@, WritebackPacket(block[s][w], fill))]
            ELSE UNCHANGED lower_queue
         /\ PrefetchLines(lines)
         /\ IF w \in Way
            THEN /\ block' = [block EXCEPT ![s][w] = FillBlock(fill)]
                 /\ sim_stats' =
                      IF block[s][w].valid /\ block[s][w].prefetch
                      THEN [Issue(sim_stats, lines) EXCEPT !.pf_useless = @ + 1]
                      ELSE Issue(sim_stats, lines)
            ELSE UNCHANGED block /\ sim_stats' = Issue(sim_stats, lines)
         /\ Respond(fill.to_return, fill.addr)
  /\ inflight_fills' = Tail(inflight_fills)
  /\ budget' = budget - 1
  /\ UNCHANGED <<upper, inflight_tag_check, MSHR, lower_taken, lower_returned, warmup,
                 stage, quota, share, todo, scan>>

(* handle_fill fails on a full lower WQ: operate() fills no more this cycle. *)
HandleFillFails_Drops(w) ==    \* mutant: the fill leaves the queue all the same
  /\ FillReady
  /\ LET s == SetIndex[Head(inflight_fills).addr]
     IN  /\ w \in Victims(Head(inflight_fills))
         /\ NeedsWriteback(s, w)
         /\ ~CanAdd(lower_queue["WQ"], LowerSize["WQ"])
  /\ inflight_fills' = Tail(inflight_fills)
  /\ budget' = 0
  /\ UNCHANGED <<upper, returned, internal_PQ, inflight_tag_check, MSHR, block, sim_stats,
                 lower, warmup, stage, quota, share, todo, scan>>
HandleFillFails(w) ==
  /\ FillReady
  /\ LET s == SetIndex[Head(inflight_fills).addr]
     IN  /\ w \in Victims(Head(inflight_fills))
         /\ NeedsWriteback(s, w)
         /\ ~CanAdd(lower_queue["WQ"], LowerSize["WQ"])
  /\ budget' = 0
  /\ UNCHANGED <<upper, returned, cacheVars, lower, warmup, stage, quota, share, todo, scan>>

(* The queues in the order operate() drains them: each channel's WQ, RQ and PQ. *)
QueueOrder == <<"WQ", "RQ", "PQ">>
Sources(uls) ==
  [k \in 1 .. 3 * Len(uls) |-> <<uls[1 + ((k - 1) \div 3)], QueueOrder[1 + ((k - 1) % 3)]>>]
Rotated(uls) == IF Len(uls) > 1 THEN Append(Tail(uls), Head(uls)) ELSE uls
TagBandwidth_Full == MAX_TAG    \* mutant: the tag checks in flight not subtracted
TagBandwidth ==
  Lesser(Greater(PipelineDepth - Len(inflight_tag_check), 0), MAX_TAG)

(* The fills of this cycle are done; the bandwidth of new tag checks is shared out. *)
FinishFills ==
  /\ stage = "fills"
  /\ ~FillReady
  /\ stage' = "initiate"
  /\ budget' = TagBandwidth
  /\ upper_levels' = Rotated(upper_levels)
  /\ share' = Greater(TagBandwidth \div Cardinality(Upper), 1)
  /\ todo' = Sources(Rotated(upper_levels))
  /\ quota' = Lesser(Greater(TagBandwidth \div Cardinality(Upper), 1), TagBandwidth)
  /\ UNCHANGED <<upper_queue, asked, returned, cacheVars, lower, warmup, scan>>

(* initiate_tag_check<true> of the head of an upper queue. *)
InitiateTagCheck ==
  /\ stage = "initiate"
  /\ todo # <<>>
  /\ quota > 0
  /\ LET u == Head(todo)[1]
         q == Head(todo)[2]
         req == Head(upper_queue[u][q])
     IN  /\ upper_queue[u][q] # <<>>
         /\ inflight_tag_check' = Append(inflight_tag_check, TagLookup(req, ToReturn(req, u)))
         /\ upper_queue' = [upper_queue EXCEPT ![u][q] = Tail(@)]
  /\ quota' = quota - 1
  /\ budget' = budget - 1
  /\ UNCHANGED <<asked, upper_levels, returned, internal_PQ, MSHR, inflight_fills, block,
                 sim_stats, lower, warmup, stage, share, todo, scan>>

(* This queue is empty or has had its share: the next one. *)
NextQueue ==
  /\ stage = "initiate"
  /\ todo # <<>>
  /\ quota = 0 \/ upper_queue[Head(todo)[1]][Head(todo)[2]] = <<>>
  /\ todo' = Tail(todo)
  /\ quota' = IF Len(todo) = 1 THEN budget ELSE Lesser(share, budget)
  /\ UNCHANGED <<upper, returned, cacheVars, lower, warmup, stage, budget, share, scan>>

(* initiate_tag_check<false> of the head of internal_PQ, after the upper queues. *)
InitiatePrefetch ==
  /\ stage = "initiate"
  /\ todo = <<>>
  /\ quota > 0
  /\ internal_PQ # <<>>
  /\ inflight_tag_check' =
       Append(inflight_tag_check, [Head(internal_PQ) EXCEPT !.wait = Latency(HIT_LATENCY)])
  /\ internal_PQ' = Tail(internal_PQ)
  /\ quota' = quota - 1
  /\ budget' = budget - 1
  /\ UNCHANGED <<upper, returned, MSHR, inflight_fills, block, sim_stats, lower, warmup,
                 stage, share, todo, scan>>

FinishInitiate ==
  /\ stage = "initiate"
  /\ todo = <<>>
  /\ quota = 0 \/ internal_PQ = <<>>
  /\ stage' = "hits"
  /\ budget' = MAX_TAG
  /\ quota' = 0 /\ share' = 0 /\ scan' = 1
  /\ UNCHANGED <<upper, returned, cacheVars, lower, warmup, todo>>

(* The tag check stable_partition looks at next, in the ready prefix. *)
TagReady ==
  /\ stage = "hits" /\ budget > 0 /\ scan <= Len(inflight_tag_check)
  /\ inflight_tag_check[scan].wait = 0

(* try_hit, a hit in way w: answered now; a write makes the line dirty. *)
TryHit(w, lines) ==
  /\ TagReady
  /\ LET pkt == inflight_tag_check[scan]
          s   == SetIndex[pkt.addr]
          useful == block[s][w].prefetch /\ ~pkt.prefetch_from_this
     IN  /\ HitWay(pkt.addr, w)
         /\ lines # <<>> => ActivatesPrefetcher(pkt)
         /\ PrefetchLines(lines)
         /\ Respond(pkt.to_return, pkt.addr)
         /\ block' = [block EXCEPT ![s][w].dirty = @ \/ pkt.type = "WRITE",
                                   ![s][w].prefetch = @ /\ ~useful]
         /\ sim_stats' = IF useful
                         THEN [Issue(sim_stats, lines) EXCEPT !.pf_useful = @ + 1]
                         ELSE Issue(sim_stats, lines)
  /\ inflight_tag_check' = Without(inflight_tag_check, scan)
  /\ budget' = budget - 1
  /\ UNCHANGED <<upper, MSHR, inflight_fills, lower, warmup, stage, quota, share, todo, scan>>

(* try_hit, a miss: the prefetcher is trained, the packet stays for handle_miss. *)
TryHitMisses(lines) ==
  /\ TagReady
  /\ Misses(inflight_tag_check[scan].addr)
  /\ lines # <<>> => ActivatesPrefetcher(inflight_tag_check[scan])
  /\ PrefetchLines(lines)
  /\ sim_stats' = Issue(sim_stats, lines)
  /\ scan' = scan + 1
  /\ budget' = budget - 1
  /\ UNCHANGED <<upper, returned, inflight_tag_check, MSHR, inflight_fills, block, lower,
                 warmup, stage, quota, share, todo>>

(* The misses are the entries before scan; stable_partition starts over on them. *)
FinishHits ==
  /\ stage = "hits"
  /\ ~TagReady
  /\ stage' = "misses"
  /\ budget' = scan - 1
  /\ scan' = 1
  /\ UNCHANGED <<upper, returned, cacheVars, lower, warmup, quota, share, todo>>

(* The miss stable_partition hands to do_handle_miss next. *)
MissTurn == stage = "misses" /\ budget > 0
IsFillWrite(pkt) == pkt.type = "WRITE" /\ ~match_offset_bits

(* The packet was taken over, or stays where it is for the next cycle. *)
Done ==
  /\ inflight_tag_check' = Without(inflight_tag_check, scan)
  /\ budget' = budget - 1
  /\ UNCHANGED <<upper, returned, internal_PQ, block, lower_taken, lower_returned, warmup,
                 stage, quota, share, todo, scan>>

(* handle_write: a write-back becomes a fill, whatever is in the MSHR. *)
HandleWrite ==
  /\ MissTurn
  /\ LET pkt == inflight_tag_check[scan]
     IN  /\ IsFillWrite(pkt)
         /\ inflight_fills' = Append(inflight_fills, FillType(pkt, Latency(FILL_LATENCY)))
  /\ Done
  /\ UNCHANGED <<MSHR, lower_queue, sim_stats>>

(* A demand that finds a local prefetch under way makes it useful. *)
CountMerge(entry, pkt) ==
  IF entry.type = "PREFETCH" /\ entry.prefetch_from_this /\ pkt.type # "PREFETCH"
  THEN sim_stats' = [sim_stats EXCEPT !.pf_useful = @ + 1]
  ELSE UNCHANGED sim_stats

(* handle_miss on a block with an MSHR entry. *)
MergeIntoMSHR ==
  /\ MissTurn
  /\ LET pkt == inflight_tag_check[scan]
     IN  /\ ~IsFillWrite(pkt)
         /\ \E m \in DOMAIN MSHR :
              /\ FirstMatch(MSHR, pkt.addr, m)
              /\ MSHR' = [MSHR EXCEPT ![m] = Merge(@, FillType(pkt, 0))]
              /\ CountMerge(MSHR[m], pkt)
  /\ Done
  /\ UNCHANGED <<inflight_fills, lower_queue>>

(* handle_miss on a block that waits to be filled. *)
MergeIntoFill ==
  /\ MissTurn
  /\ LET pkt == inflight_tag_check[scan]
     IN  /\ ~IsFillWrite(pkt)
         /\ NoMatch(MSHR, pkt.addr)
         /\ \E f \in DOMAIN inflight_fills :
              /\ FirstMatch(inflight_fills, pkt.addr, f)
              /\ inflight_fills' = [inflight_fills EXCEPT ![f] = Merge(@, FillType(pkt, 0))]
              /\ CountMerge(inflight_fills[f], pkt)
  /\ Done
  /\ UNCHANGED <<MSHR, lower_queue>>

(* mshr_and_forward_packet *)
ForwardPacket(pkt) ==
  [addr |-> pkt.addr,
   type |-> IF pkt.type = "WRITE" THEN "RFO" ELSE pkt.type,
   response_requested |-> ~pkt.prefetch_from_this \/ ~pkt.skip_fill]
ForwardQueue(pkt) == IF prefetch_as_load \/ pkt.type # "PREFETCH" THEN "RQ" ELSE "PQ"

(* Mutants: inflight_fills not searched; the MSHR not searched. *)
NewMiss_NoFills(pkt) == ~IsFillWrite(pkt) /\ NoMatch(MSHR, pkt.addr)
NewMiss_NoMSHR(pkt) == ~IsFillWrite(pkt) /\ NoMatch(inflight_fills, pkt.addr)
NewMiss(pkt) ==
  /\ ~IsFillWrite(pkt)
  /\ NoMatch(MSHR, pkt.addr)
  /\ NoMatch(inflight_fills, pkt.addr)
(* Mutant: the comparison of mshr_full off by one. *)
CanForward_OneFree(pkt) ==
  /\ Len(MSHR) < MSHR_SIZE - 1
  /\ CanAdd(lower_queue[ForwardQueue(pkt)], LowerSize[ForwardQueue(pkt)])
CanForward(pkt) ==
  /\ Len(MSHR) # MSHR_SIZE
  /\ CanAdd(lower_queue[ForwardQueue(pkt)], LowerSize[ForwardQueue(pkt)])

Allocated_Always(pkt, fwd) == Append(MSHR, FillType(pkt, 0))    \* mutant
Allocated(pkt, fwd) ==
  IF fwd.response_requested THEN Append(MSHR, FillType(pkt, 0)) ELSE MSHR

(* handle_miss on a new block: asked of the lower level, and an MSHR entry *)
(* allocated if there will be an answer.                                   *)
ForwardMiss ==
  /\ MissTurn
  /\ LET pkt == inflight_tag_check[scan]
         fwd == ForwardPacket(pkt)
     IN  /\ NewMiss(pkt)
         /\ CanForward(pkt)
         /\ lower_queue' = [lower_queue EXCEPT ![ForwardQueue(pkt)] = Append(@, fwd)]
         /\ MSHR' = Allocated(pkt, fwd)
  /\ Done
  /\ UNCHANGED <<inflight_fills, sim_stats>>

(* handle_miss fails: no MSHR entry is free, or the lower queue is full. *)
HandleMissFails ==
  /\ MissTurn
  /\ NewMiss(inflight_tag_check[scan])
  /\ ~CanForward(inflight_tag_check[scan])
  /\ scan' = scan + 1
  /\ budget' = budget - 1
  /\ UNCHANGED <<upper, returned, cacheVars, lower, warmup, stage, quota, share, todo>>

(* impl_prefetcher_cycle_operate, and operate() returns. *)
FinishOperate(lines) ==
  /\ stage = "misses"
  /\ budget = 0
  /\ PrefetchLines(lines)
  /\ sim_stats' = Issue(sim_stats, lines)
  /\ stage' = "idle"
  /\ scan' = 1
  /\ UNCHANGED <<upper, returned, inflight_tag_check, MSHR, inflight_fills, block, lower,
                 warmup, budget, quota, share, todo>>

(* The local prefetches that can still turn out useful or useless. *)
LivePrefetches ==
  Len(internal_PQ)
  + Cardinality({i \in DOMAIN inflight_tag_check : inflight_tag_check[i].prefetch_from_this})
  + Cardinality({i \in DOMAIN MSHR : MSHR[i].prefetch_from_this})
  + Cardinality({i \in DOMAIN inflight_fills : inflight_fills[i].prefetch_from_this})
  + Cardinality({sw \in Set \X Way : block[sw[1]][sw[2]].valid
                                     /\ block[sw[1]][sw[2]].prefetch})

(* The simulation phase begins: the counters restart, what is in flight stays. *)
BeginPhase ==
  /\ stage = "idle"
  /\ warmup
  /\ warmup' = FALSE
  /\ sim_stats' = [pf_issued |-> 0, pf_useful |-> 0, pf_useless |-> 0,
                   carried |-> LivePrefetches]
  /\ UNCHANGED <<upper, returned, internal_PQ, inflight_tag_check, MSHR, inflight_fills,
                 block, lower, sched>>

Operate ==
  \/ BeginOperate
  \/ FinishPacket
  \/ FinishReturns
  \/ \E w \in Way \cup {NUM_WAY + 1}, lines \in HookCalls : HandleFill(w, lines)
  \/ \E w \in Way : HandleFillFails(w)
  \/ FinishFills
  \/ InitiateTagCheck
  \/ NextQueue
  \/ InitiatePrefetch
  \/ FinishInitiate
  \/ \E w \in Way, lines \in HookCalls : TryHit(w, lines)
  \/ \E lines \in HookCalls : TryHitMisses(lines)
  \/ FinishHits
  \/ HandleWrite
  \/ MergeIntoMSHR
  \/ MergeIntoFill
  \/ ForwardMiss
  \/ HandleMissFails
  \/ \E lines \in HookCalls : FinishOperate(lines)

Upstream ==
  \/ \E u \in Upper, kind \in RequestKinds, b \in Block : UpperRequest(u, kind, b)
  \/ \E u \in Upper : UpperFinishPacket(u)

Downstream ==
  \/ \E q \in Queue : LowerAccept(q)
  \/ \E b \in Block : LowerRespond(b)

Next == Operate \/ Upstream \/ Downstream \/ BeginPhase

Spec == Init /\ [][Next]_vars

(* operate() of every level is called in every cycle (champsim.cc), so the  *)
(* cache keeps moving, and each neighbour gets its turn between two calls   *)
(* again and again: hence strong fairness for what it does when idle.       *)
(* Assumed of the lower level: it serves each of its queues and each block. *)
Fairness ==
  /\ WF_vars(Operate)
  /\ \A u \in Upper : SF_vars(UpperFinishPacket(u))
  /\ \A q \in Queue : SF_vars(LowerAccept(q))
  /\ \A b \in Block : SF_vars(LowerRespond(b))

FairSpec == Spec /\ Fairness

--------------------------------------------------------------------------------
(* Properties *)

(* The type invariant: every variable has the shape the code gives it, and  *)
(* no queue or MSHR file holds more than its configured size.               *)
TypeOK ==
  /\ upper_queue \in [Upper -> [Queue -> Seq(Request)]]
  /\ returned \in [Upper -> Seq(Block)]
  /\ asked \in [Upper -> SUBSET Block]
  /\ upper_levels \in Seq(Upper)
  /\ internal_PQ \in Seq(TagCheck)
  /\ inflight_tag_check \in Seq(TagCheck)
  /\ MSHR \in Seq(Fill)
  /\ inflight_fills \in Seq(Fill)
  /\ block \in [Set -> [Way -> ValidLine \cup {InvalidLine}]]
  /\ lower_queue \in [Queue -> Seq(Request)]
  /\ lower_taken \in SUBSET Block
  /\ lower_returned \in Seq(Block)
  /\ warmup \in BOOLEAN
  /\ sim_stats \in [pf_issued : Nat, pf_useful : Nat, pf_useless : Nat, carried : Nat]
  /\ stage \in {"idle", "returns", "fills", "initiate", "hits", "misses"}
  /\ budget \in Nat /\ quota \in Nat /\ share \in Nat /\ scan \in Nat \ {0}
  /\ todo \in Seq(Upper \X Queue)
  /\ \A u \in Upper, q \in Queue : Len(upper_queue[u][q]) <= UpperSize[q]
  /\ \A q \in Queue : Len(lower_queue[q]) <= LowerSize[q]
  /\ Len(internal_PQ) <= PQ_SIZE
  /\ Len(MSHR) <= MSHR_SIZE

Addresses(s) == {s[i].addr : i \in DOMAIN s}
Awaited(s) == {s[i].addr : i \in {j \in DOMAIN s : s[j].response_requested}}
Answers(s) == {s[i] : i \in DOMAIN s}

(* cache.cc:612 asserts that finish_packet finds an MSHR entry: every       *)
(* response on its way back from the lower level has one.                   *)
NoOrphanResponse == Answers(lower_returned) \subseteq Addresses(MSHR)

(* An MSHR entry is never forgotten below: its request is in a lower queue, *)
(* being worked on, or answered.                                            *)
NoForgottenMiss ==
  Addresses(MSHR) \subseteq Awaited(lower_queue["RQ"]) \cup Awaited(lower_queue["PQ"])
                              \cup lower_taken \cup Answers(lower_returned)

(* A block the cache above waits for is somewhere in this cache until the   *)
(* answer is read: a stalled miss, a merged one and a blocked fill keep it. *)
NoForgottenRequest ==
  \A u \in Upper : \A b \in asked[u] :
    \/ \E q \in Queue : b \in Awaited(upper_queue[u][q])
    \/ b \in Answers(returned[u])
    \/ \E s \in {inflight_tag_check, MSHR, inflight_fills} :
         \E i \in DOMAIN s : s[i].addr = b /\ u \in s[i].to_return

(* initiate_tag_bw: however the queues share it, a cycle never starts more  *)
(* tag checks than the pipeline holds.                                      *)
TagPipelineBound == Len(inflight_tag_check) <= PipelineDepth

(* Under FairSpec every request for a block is answered, however the misses *)
(* stall on a full MSHR and the fills on a full lower WQ - provided that    *)
(* again and again a cycle begins with no write in front of the loads:      *)
(* operate() drains WQ first, and only the levels above limit what is in it. *)
WritesPause ==
  []<>(/\ stage = "returns"
       /\ \A u \in Upper : upper_queue[u]["WQ"] = <<>>
       /\ \A i \in DOMAIN inflight_tag_check : inflight_tag_check[i].type # "WRITE")
EventuallyAnswered ==
  WritesPause => \A u \in Upper, b \in Block : b \in asked[u] ~> b \notin asked[u]

(* Where stores are misses, a block is never both present and awaited, and  *)
(* never present, awaited or waiting to be filled twice.                    *)
OneCopy ==
  \A b \in Block :
    Cardinality({i \in DOMAIN MSHR : MSHR[i].addr = b})
    + Cardinality({i \in DOMAIN inflight_fills : inflight_fills[i].addr = b})
    + Cardinality({w \in Way : block[SetIndex[b]][w].valid /\ block[SetIndex[b]][w].addr = b})
    <= 1

(* pf_useful and pf_useless count each issued prefetch at most once; those  *)
(* in flight when the phase began (carried) are counted in this phase.      *)
PrefetchAccounting ==
  sim_stats.pf_useful + sim_stats.pf_useless + LivePrefetches
    <= sim_stats.pf_issued + sim_stats.carried

(* A dirty line leaves the cache only with its write-back in the lower WQ,  *)
(* also when the fill was retried on a full WQ.                             *)
DirtyLeavesByWriteback ==
  [][\A s \in Set, w \in Way :
       /\ NeedsWriteback(s, w)
       /\ ~(NeedsWriteback(s, w)' /\ block'[s][w].addr = block[s][w].addr)
       => /\ Len(lower_queue["WQ"]') = Len(lower_queue["WQ"]) + 1
          /\ lower_queue["WQ"]'[Len(lower_queue["WQ"]')].addr = block[s][w].addr]_vars

(* cache.cc:181 "Writes may not bypass": a write that became a fill or an   *)
(* MSHR entry ends as a dirty line, so its block stops being modified only  *)
(* by a write-back.                                                         *)
HoldsWrite(b) ==
  \/ \E s \in {MSHR, inflight_fills} :
       \E i \in DOMAIN s : s[i].addr = b /\ s[i].type = "WRITE"
  \/ \E w \in Way : NeedsWriteback(SetIndex[b], w) /\ block[SetIndex[b]][w].addr = b
WritesMayNotBypass ==
  [][\A b \in Block :
       HoldsWrite(b) /\ ~HoldsWrite(b)'
       => Len(lower_queue["WQ"]') > Len(lower_queue["WQ"])]_vars

--------------------------------------------------------------------------------
(* Both ends of the cache keep the contract of MemoryPort. *)

UpperPort == INSTANCE MemoryPort WITH Client <- Upper

Lower == "lower_level"
LowerPort == INSTANCE MemoryPort WITH
  Client <- {Lower},
  asked <- [c \in {Lower} |-> Addresses(MSHR)],
  returned <- [c \in {Lower} |-> lower_returned]

(* Towards the caches above: each block asked for is answered exactly once. *)
AnswersOnce == UpperPort!Spec

(* Towards the lower level: no block is asked for twice, and every answer   *)
(* is to an outstanding request.                                            *)
AsksOnce == LowerPort!Spec
===============================================================================
