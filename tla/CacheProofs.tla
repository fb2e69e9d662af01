------------------------------ MODULE CacheProofs ------------------------------
(***************************************************************************)
(* Proofs about Cache for every value of its constants.                    *)
(***************************************************************************)
EXTENDS Cache, TLAPS, SequenceTheorems, FiniteSetTheorems

(* What operate() needs to know of its own bookkeeping: the shared-out      *)
(* bandwidth never exceeds the free slots of the tag pipeline, and the      *)
(* scans stay inside inflight_tag_check.                                    *)
SchedOK ==
  /\ TagPipelineBound
  /\ stage = "initiate" => quota <= budget
                           /\ Len(inflight_tag_check) + budget <= PipelineDepth
  /\ stage = "hits" => scan - 1 <= Len(inflight_tag_check)
  /\ stage = "misses" => scan + budget - 1 <= Len(inflight_tag_check)

Inv == TypeOK /\ SchedOK

--------------------------------------------------------------------------------
(* Lemmas about the helpers *)

LEMMA PipelineDepthType == PipelineDepth \in Nat
BY CacheAssumption DEF PipelineDepth

(* Without drops one element and keeps the others. *)
LEMMA WithoutProperties ==
  ASSUME NEW S, NEW s \in Seq(S), NEW i \in 1 .. Len(s)
  PROVE  /\ Without(s, i) \in Seq(S)
         /\ Len(Without(s, i)) = Len(s) - 1
<1>1. Len(s) - 1 \in Nat
  OBVIOUS
<1>2. \A j \in 1 .. Len(s) - 1 : (IF j < i THEN s[j] ELSE s[j + 1]) \in S
  OBVIOUS
<1> QED BY <1>1, <1>2 DEF Without

(* SwapPop drops the i-th element and keeps the others, in another order. *)
LEMMA SwapPopProperties ==
  ASSUME NEW S, NEW s \in Seq(S), NEW i \in 1 .. Len(s)
  PROVE  /\ SwapPop(s, i) \in Seq(S)
         /\ Len(SwapPop(s, i)) = Len(s) - 1
<1>1. Len(s) - 1 \in Nat
  OBVIOUS
<1>2. \A j \in 1 .. Len(s) - 1 : (IF j + 1 = i THEN s[1] ELSE s[j + 1]) \in S
  OBVIOUS
<1> QED BY <1>1, <1>2 DEF SwapPop

LEMMA AppendFacts ==
  ASSUME NEW S, NEW s \in Seq(S), NEW e \in S
  PROVE  Append(s, e) \in Seq(S) /\ Len(Append(s, e)) = Len(s) + 1
OBVIOUS

LEMMA TailProperties ==
  ASSUME NEW S, NEW s \in Seq(S), s # <<>>
  PROVE  /\ Head(s) \in S
         /\ Tail(s) \in Seq(S)
         /\ Len(s) \in Nat \ {0} /\ Len(Tail(s)) = Len(s) - 1
OBVIOUS

(* The three queues of a channel stay within their sizes when one changes. *)
LEMMA QueueUpdate ==
  ASSUME NEW f \in [Queue -> Seq(Request)], NEW size,
         \A q \in Queue : Len(f[q]) <= size[q],
         NEW q \in Queue, NEW s \in Seq(Request), Len(s) <= size[q]
  PROVE  /\ [f EXCEPT ![q] = s] \in [Queue -> Seq(Request)]
         /\ \A r \in Queue : Len([f EXCEPT ![q] = s][r]) <= size[r]
OBVIOUS

LEMMA UpperQueueUpdate ==
  ASSUME TypeOK, NEW u \in Upper, NEW q \in Queue, NEW s \in Seq(Request),
         Len(s) <= UpperSize[q], upper_queue' = [upper_queue EXCEPT ![u][q] = s]
  PROVE  /\ upper_queue' \in [Upper -> [Queue -> Seq(Request)]]
         /\ \A v \in Upper, r \in Queue : Len(upper_queue'[v][r]) <= UpperSize[r]
<1> DEFINE g == [upper_queue[u] EXCEPT ![q] = s]
<1>1. upper_queue[u] \in [Queue -> Seq(Request)]
      /\ \A r \in Queue : Len(upper_queue[u][r]) <= UpperSize[r]
  BY DEF TypeOK
<1>2. g \in [Queue -> Seq(Request)] /\ \A r \in Queue : Len(g[r]) <= UpperSize[r]
  BY <1>1, QueueUpdate
<1>3. upper_queue' = [upper_queue EXCEPT ![u] = g]
  OBVIOUS
<1> HIDE DEF g
<1> QED BY SMTT(30), ZenonT(60), <1>2, <1>3 DEF TypeOK

LEMMA TickTagCheck ==
  ASSUME NEW s \in Seq(TagCheck)
  PROVE  Tick(s) \in Seq(TagCheck) /\ Len(Tick(s)) = Len(s)
<1>1. ASSUME NEW entry \in TagCheck
      PROVE  TickEntry(entry) \in TagCheck
  BY SMTT(30) DEF TickEntry, TagCheck
<1>2. \A i \in 1 .. Len(s) : TickEntry(s[i]) \in TagCheck
  BY <1>1
<1> QED BY <1>2 DEF Tick

LEMMA TickFill ==
  ASSUME NEW s \in Seq(Fill)
  PROVE  Tick(s) \in Seq(Fill) /\ Len(Tick(s)) = Len(s)
<1>1. ASSUME NEW entry \in Fill
      PROVE  TickEntry(entry) \in Fill
  BY SMTT(30) DEF TickEntry, Fill
<1>2. \A i \in 1 .. Len(s) : TickEntry(s[i]) \in Fill
  BY <1>1
<1> QED BY <1>2 DEF Tick

LEMMA LatencyType ==
  ASSUME TypeOK, NEW c \in Nat
  PROVE  Latency(c) \in Nat
BY DEF Latency

(* The records the cache builds have their types. *)
LEMMA FillTypeType ==
  ASSUME NEW pkt \in TagCheck, NEW wait \in Nat
  PROVE  FillType(pkt, wait) \in Fill /\ FillType(pkt, wait).addr = pkt.addr
BY DEF FillType, Fill, TagCheck

LEMMA MergeType ==
  ASSUME NEW p \in Fill, NEW n \in Fill
  PROVE  /\ Merge(p, n) \in Fill
         /\ p.addr = n.addr => Merge(p, n).addr = p.addr
BY DEF Merge, Fill

LEMMA FillBlockType ==
  ASSUME NEW fill \in Fill
  PROVE  FillBlock(fill) \in ValidLine
BY DEF FillBlock, ValidLine, Fill

(* What a hook asks of prefetch_line is accepted up to the size of internal_PQ. *)
LEMMA PrefetchLinesType ==
  ASSUME TypeOK, NEW lines \in HookCalls, PrefetchLines(lines)
  PROVE  /\ internal_PQ' \in Seq(TagCheck)
         /\ Len(internal_PQ') <= PQ_SIZE
         /\ Accepted(lines) \in Nat
         /\ Len(internal_PQ') = Len(internal_PQ) + Accepted(lines)
<1> USE CacheAssumption
<1> DEFINE Line == [addr : Block, fill : BOOLEAN]
<1>1. lines \in Seq(Line)
  <2>1. PrefetchRequests \subseteq Seq(Line)
    OBVIOUS
  <2>2. lines \in PrefetchRequests \/ lines = <<>>
    BY DEF HookCalls
  <2>3. <<>> \in Seq(Line)
    OBVIOUS
  <2> HIDE DEF Line
  <2> QED BY <2>1, <2>2, <2>3
<1>2. /\ Accepted(lines) \in Nat
      /\ Accepted(lines) <= Len(lines)
      /\ Len(internal_PQ) + Accepted(lines) <= PQ_SIZE
  BY SMTT(30), <1>1 DEF Accepted, Lesser, Greater, TypeOK
<1> DEFINE added == [i \in 1 .. Accepted(lines) |-> LocalPrefetch(lines[i])]
<1>3. ASSUME NEW i \in 1 .. Accepted(lines)
      PROVE  LocalPrefetch(lines[i]) \in TagCheck
  <2>1. lines[i] \in Line
    <3> HIDE DEF Line
    <3> QED BY <1>1, <1>2
  <2> QED BY <2>1 DEF LocalPrefetch, TagCheck, AccessType
<1>4. added \in Seq(TagCheck) /\ Len(added) = Accepted(lines)
  BY <1>2, <1>3
<1>5. internal_PQ' = internal_PQ \o added
  BY DEF PrefetchLines
<1> HIDE DEF added
<1>6. internal_PQ' \in Seq(TagCheck) /\ Len(internal_PQ') = Len(internal_PQ) + Len(added)
  BY SMTT(30), ZenonT(60), <1>4, <1>5, ConcatProperties DEF TypeOK
<1> QED BY <1>2, <1>4, <1>6

LEMMA IssueType ==
  ASSUME TypeOK, NEW lines, Accepted(lines) \in Nat
  PROVE  LET counters == [pf_issued : Nat, pf_useful : Nat, pf_useless : Nat, carried : Nat]
         IN  /\ Issue(sim_stats, lines) \in counters
             /\ [Issue(sim_stats, lines) EXCEPT !.pf_useful = @ + 1] \in counters
             /\ [Issue(sim_stats, lines) EXCEPT !.pf_useless = @ + 1] \in counters
<1> DEFINE counters == [pf_issued : Nat, pf_useful : Nat, pf_useless : Nat, carried : Nat]
<1>1. sim_stats \in counters
  BY DEF TypeOK
<1>2. Issue(sim_stats, lines) \in counters
  BY <1>1 DEF Issue
<1>3. ASSUME NEW s \in counters
      PROVE  /\ [s EXCEPT !.pf_useful = @ + 1] \in counters
             /\ [s EXCEPT !.pf_useless = @ + 1] \in counters
  OBVIOUS
<1> QED BY <1>2, <1>3

LEMMA RespondType ==
  ASSUME TypeOK, NEW to_return \in SUBSET Upper, NEW b \in Block, Respond(to_return, b)
  PROVE  returned' \in [Upper -> Seq(Block)]
BY DEF Respond, TypeOK

--------------------------------------------------------------------------------
(* Inv is inductive: one lemma per action. *)

LEMMA InitInv == Init => Inv
<1> SUFFICES ASSUME Init PROVE Inv
  OBVIOUS
<1>1. upper_levels \in Seq(Upper)
  <2>1. Cardinality(Upper) \in Nat
    BY CacheAssumption, FS_CardinalityType
  <2>2. upper_levels \in [1 .. Cardinality(Upper) -> Upper]
    BY DEF Init
  <2> QED BY <2>1, <2>2, SeqDef
<1>2. TypeOK
  BY <1>1, CacheAssumption DEF Init, TypeOK, Queue, InvalidLine
<1> QED BY <1>2, PipelineDepthType DEF Init, Inv, SchedOK, TagPipelineBound

LEMMA UpperRequestInv ==
  ASSUME Inv, NEW u \in Upper, NEW kind \in RequestKinds, NEW b \in Block,
         UpperRequest(u, kind, b)
  PROVE  Inv'
<1> DEFINE req == [addr |-> b, type |-> kind.type,
                   response_requested |-> kind.response_requested]
<1>1. req \in Request /\ kind.queue \in Queue
  BY CacheAssumption DEF Request
<1>2. /\ upper_queue' = [upper_queue EXCEPT ![u][kind.queue] = Append(@, req)]
      /\ Len(upper_queue[u][kind.queue]) < UpperSize[kind.queue]
  BY DEF UpperRequest, CanAdd
<1> HIDE DEF req
<1>3. /\ upper_queue' \in [Upper -> [Queue -> Seq(Request)]]
      /\ \A v \in Upper, q \in Queue : Len(upper_queue'[v][q]) <= UpperSize[q]
  <2> DEFINE old == upper_queue[u][kind.queue]
  <2>1. old \in Seq(Request) /\ UpperSize[kind.queue] \in Nat
    <3>1. upper_queue[u] \in [Queue -> Seq(Request)]
      BY DEF Inv, TypeOK
    <3>2. UpperSize \in [Queue -> Nat]
      BY CacheAssumption
    <3> QED BY <1>1, <3>1, <3>2
  <2>2. upper_queue' = [upper_queue EXCEPT ![u][kind.queue] = Append(old, req)]
    BY <1>2
  <2>3. Len(old) < UpperSize[kind.queue]
    BY <1>2
  <2> HIDE DEF old
  <2>4. Append(old, req) \in Seq(Request) /\ Len(Append(old, req)) <= UpperSize[kind.queue]
    BY <1>1, <2>1, <2>3, AppendFacts
  <2> QED BY <1>1, <2>2, <2>4, UpperQueueUpdate DEF Inv
<1>4. asked' \in [Upper -> SUBSET Block]
  <2>1. CASE kind.response_requested
    <3>1. asked' = [asked EXCEPT ![u] = @ \cup {b}]
      BY <2>1 DEF UpperRequest
    <3> QED BY <3>1 DEF Inv, TypeOK
  <2>2. CASE ~kind.response_requested
    BY <2>2 DEF UpperRequest, Inv, TypeOK
  <2> QED BY <2>1, <2>2
<1> QED BY SMTT(30), <1>3, <1>4 DEF UpperRequest, Inv, TypeOK, SchedOK, TagPipelineBound,
           lower, sched, cacheVars

LEMMA UpperFinishPacketInv ==
  ASSUME Inv, NEW u \in Upper, UpperFinishPacket(u)
  PROVE  Inv'
<1>1. returned' \in [Upper -> Seq(Block)] /\ asked' \in [Upper -> SUBSET Block]
  BY DEF UpperFinishPacket, Inv, TypeOK
<1> QED BY SMTT(30), <1>1 DEF UpperFinishPacket, Inv, TypeOK, SchedOK, TagPipelineBound,
           lower, sched, cacheVars

LEMMA LowerAcceptInv ==
  ASSUME Inv, NEW q \in Queue, LowerAccept(q)
  PROVE  Inv'
<1>1. Head(lower_queue[q]) \in Request
  BY DEF LowerAccept, Inv, TypeOK
<1>2. lower_taken' \in SUBSET Block
  BY <1>1 DEF LowerAccept, Inv, TypeOK, Request
<1>3. /\ lower_queue' \in [Queue -> Seq(Request)]
      /\ \A r \in Queue : Len(lower_queue'[r]) <= LowerSize[r]
  <2> DEFINE old == lower_queue[q]
  <2>1. old \in Seq(Request) /\ old # <<>> /\ LowerSize[q] \in Nat /\ Len(old) <= LowerSize[q]
    BY CacheAssumption DEF LowerAccept, Inv, TypeOK
  <2>2. lower_queue' = [lower_queue EXCEPT ![q] = Tail(old)]
    BY DEF LowerAccept
  <2> HIDE DEF old
  <2>3. Tail(old) \in Seq(Request) /\ Len(Tail(old)) <= LowerSize[q]
    BY <2>1, TailProperties
  <2> QED BY <2>2, <2>3, QueueUpdate DEF Inv, TypeOK
<1> QED BY SMTT(30), <1>2, <1>3 DEF LowerAccept, Inv, TypeOK, SchedOK, TagPipelineBound,
           upper, sched, cacheVars

LEMMA LowerRespondInv ==
  ASSUME Inv, NEW b \in Block, LowerRespond(b)
  PROVE  Inv'
BY SMTT(30) DEF LowerRespond, Inv, TypeOK, SchedOK, TagPipelineBound, upper, sched, cacheVars

LEMMA BeginOperateInv ==
  ASSUME Inv, BeginOperate
  PROVE  Inv'
<1>1. /\ inflight_tag_check' \in Seq(TagCheck)
      /\ Len(inflight_tag_check') = Len(inflight_tag_check)
      /\ inflight_fills' \in Seq(Fill)
  BY TickTagCheck, TickFill DEF BeginOperate, Inv, TypeOK
<1> QED BY SMTT(30), <1>1 DEF BeginOperate, Inv, TypeOK, SchedOK, TagPipelineBound, upper, lower

LEMMA FinishPacketInv ==
  ASSUME Inv, FinishPacket
  PROVE  Inv'
<1> PICK m \in DOMAIN MSHR :
      /\ inflight_fills' =
           Append(inflight_fills, [MSHR[m] EXCEPT !.wait = Latency(FILL_LATENCY)])
      /\ MSHR' = SwapPop(MSHR, m)
  BY DEF FinishPacket
<1>1. m \in 1 .. Len(MSHR) /\ MSHR[m] \in Fill
  BY DEF Inv, TypeOK
<1>2. [MSHR[m] EXCEPT !.wait = Latency(FILL_LATENCY)] \in Fill
  BY <1>1, LatencyType, CacheAssumption DEF Inv, Fill
<1>3. inflight_fills' \in Seq(Fill)
  BY <1>2 DEF Inv, TypeOK
<1>4. MSHR' \in Seq(Fill) /\ Len(MSHR') <= MSHR_SIZE
  <2>1. MSHR' \in Seq(Fill) /\ Len(MSHR') = Len(MSHR) - 1
    BY <1>1, SwapPopProperties DEF Inv, TypeOK
  <2>2. Len(MSHR) \in Nat /\ MSHR_SIZE \in Nat /\ Len(MSHR) <= MSHR_SIZE
    BY CacheAssumption DEF Inv, TypeOK
  <2> QED BY <2>1, <2>2
<1>5. lower_returned' \in Seq(Block)
  BY DEF FinishPacket, Inv, TypeOK
<1> QED BY SMTT(30), <1>3, <1>4, <1>5 DEF FinishPacket, Inv, TypeOK, SchedOK, TagPipelineBound,
           upper, sched

LEMMA FinishReturnsInv ==
  ASSUME Inv, FinishReturns
  PROVE  Inv'
BY SMTT(30), CacheAssumption DEF FinishReturns, Inv, TypeOK, SchedOK, TagPipelineBound,
   upper, lower, cacheVars

(* What handle_fill leaves at the head of the fills, and the room it has. *)
LEMMA HeadFill ==
  ASSUME Inv, FillReady
  PROVE  /\ Head(inflight_fills) \in Fill
         /\ Head(inflight_fills).addr \in Block
         /\ SetIndex[Head(inflight_fills).addr] \in Set
         /\ Tail(inflight_fills) \in Seq(Fill)
         /\ stage = "fills" /\ budget - 1 \in Nat
<1>1. Head(inflight_fills) \in Fill /\ Tail(inflight_fills) \in Seq(Fill)
  BY TailProperties DEF FillReady, Inv, TypeOK
<1>2. Head(inflight_fills).addr \in Block
  BY <1>1 DEF Fill
<1> QED BY SMTT(30), <1>1, <1>2, CacheAssumption DEF FillReady, Inv, TypeOK

LEMMA WritebackType ==
  ASSUME TypeOK, NEW s \in Set, NEW w, NeedsWriteback(s, w), NEW fill
  PROVE  WritebackPacket(block[s][w], fill) \in Request
<1>1. block[s][w] \in ValidLine
  BY DEF NeedsWriteback, TypeOK, InvalidLine
<1> QED BY <1>1 DEF WritebackPacket, Request, ValidLine, AccessType

(* One more entry in a queue of the lower channel that has room for it. *)
LEMMA LowerAppend ==
  ASSUME TypeOK, NEW q \in Queue, NEW req \in Request,
         CanAdd(lower_queue[q], LowerSize[q]),
         lower_queue' = [lower_queue EXCEPT ![q] = Append(@, req)]
  PROVE  /\ lower_queue' \in [Queue -> Seq(Request)]
         /\ \A r \in Queue : Len(lower_queue'[r]) <= LowerSize[r]
<1> DEFINE old == lower_queue[q]
<1>1. old \in Seq(Request) /\ LowerSize[q] \in Nat /\ Len(old) < LowerSize[q]
  BY CacheAssumption DEF TypeOK, CanAdd
<1>2. lower_queue' = [lower_queue EXCEPT ![q] = Append(old, req)]
  OBVIOUS
<1> HIDE DEF old
<1>3. Append(old, req) \in Seq(Request) /\ Len(Append(old, req)) <= LowerSize[q]
  BY <1>1, AppendFacts
<1>4. /\ lower_queue \in [Queue -> Seq(Request)]
      /\ \A r \in Queue : Len(lower_queue[r]) <= LowerSize[r]
  BY DEF TypeOK
<1> QED BY <1>2, <1>3, <1>4, QueueUpdate

LEMMA HandleFillInv ==
  ASSUME Inv, NEW w, NEW lines \in HookCalls, HandleFill(w, lines)
  PROVE  Inv'
<1> DEFINE fill == Head(inflight_fills)
           s    == SetIndex[fill.addr]
<1>1. /\ fill \in Fill /\ fill.addr \in Block /\ s \in Set
      /\ Tail(inflight_fills) \in Seq(Fill)
      /\ stage = "fills" /\ budget - 1 \in Nat
  BY HeadFill DEF HandleFill
<1>2. /\ internal_PQ' \in Seq(TagCheck) /\ Len(internal_PQ') <= PQ_SIZE
      /\ Accepted(lines) \in Nat
  BY PrefetchLinesType DEF HandleFill, Inv
<1>3. /\ lower_queue' \in [Queue -> Seq(Request)]
      /\ \A r \in Queue : Len(lower_queue'[r]) <= LowerSize[r]
  <2>1. CASE NeedsWriteback(s, w)
    <3>1. /\ CanAdd(lower_queue["WQ"], LowerSize["WQ"])
          /\ lower_queue' =
               [lower_queue EXCEPT !["WQ"] = Append(@, WritebackPacket(block[s][w], fill))]
      BY <2>1 DEF HandleFill
    <3>2. WritebackPacket(block[s][w], fill) \in Request
      BY <1>1, <2>1, WritebackType DEF Inv
    <3> QED BY <3>1, <3>2, LowerAppend DEF Inv, Queue
  <2>2. CASE ~NeedsWriteback(s, w)
    <3>1. lower_queue' = lower_queue
      BY <2>2 DEF HandleFill
    <3> QED BY <3>1 DEF Inv, TypeOK
  <2> QED BY <2>1, <2>2
<1>4. /\ block' \in [Set -> [Way -> ValidLine \cup {InvalidLine}]]
      /\ sim_stats' \in [pf_issued : Nat, pf_useful : Nat, pf_useless : Nat, carried : Nat]
  <2>1. CASE w \in Way
    <3>1. /\ block' = [block EXCEPT ![s][w] = FillBlock(fill)]
          /\ \/ sim_stats' = [Issue(sim_stats, lines) EXCEPT !.pf_useless = @ + 1]
             \/ sim_stats' = Issue(sim_stats, lines)
      BY <2>1 DEF HandleFill
    <3>2. FillBlock(fill) \in ValidLine
      BY <1>1, FillBlockType
    <3>3. block \in [Set -> [Way -> ValidLine \cup {InvalidLine}]]
      BY DEF Inv, TypeOK
    <3>4. block' \in [Set -> [Way -> ValidLine \cup {InvalidLine}]]
      <4> HIDE DEF s, fill
      <4> QED BY <1>1, <2>1, <3>1, <3>2, <3>3
    <3> QED BY <1>2, <3>1, <3>4, IssueType DEF Inv
  <2>2. CASE w \notin Way
    <3>1. block' = block /\ sim_stats' = Issue(sim_stats, lines)
      BY <2>2 DEF HandleFill
    <3>2. block' \in [Set -> [Way -> ValidLine \cup {InvalidLine}]]
      BY <3>1 DEF Inv, TypeOK
    <3> QED BY <1>2, <3>1, <3>2, IssueType DEF Inv
  <2> QED BY <2>1, <2>2
<1>5. returned' \in [Upper -> Seq(Block)]
  <2>1. fill.to_return \in SUBSET Upper
    <3> HIDE DEF fill
    <3> QED BY <1>1 DEF Fill
  <2>2. Respond(fill.to_return, fill.addr)
    BY DEF HandleFill
  <2> QED BY <1>1, <2>1, <2>2, RespondType DEF Inv
<1>6. inflight_fills' = Tail(inflight_fills) /\ budget' = budget - 1
  BY DEF HandleFill
<1> HIDE DEF fill, s
<1> QED BY <1>1, <1>2, <1>3, <1>4, <1>5, <1>6
        DEF HandleFill, Inv, TypeOK, SchedOK, TagPipelineBound, upper

LEMMA HandleFillFailsInv ==
  ASSUME Inv, NEW w, HandleFillFails(w)
  PROVE  Inv'
BY SMTT(30) DEF HandleFillFails, FillReady, Inv, TypeOK, SchedOK, TagPipelineBound,
   upper, lower, cacheVars

LEMMA FinishFillsInv ==
  ASSUME Inv, FinishFills
  PROVE  Inv'
<1>1. Cardinality(Upper) \in Nat \ {0}
  BY CacheAssumption, FS_CardinalityType, FS_EmptySet
<1>2. /\ TagBandwidth \in Nat
      /\ Len(inflight_tag_check) + TagBandwidth <= PipelineDepth
  BY CacheAssumption, PipelineDepthType
     DEF TagBandwidth, Lesser, Greater, Inv, TypeOK, SchedOK, TagPipelineBound
<1>3. TagBandwidth \div Cardinality(Upper) \in Int
  BY <1>1, <1>2
<1>4. /\ share' \in Nat
      /\ budget' \in Nat /\ quota' \in Nat /\ quota' <= budget'
  BY <1>2, <1>3 DEF FinishFills, Lesser, Greater
<1>5. Rotated(upper_levels) \in Seq(Upper)
  BY DEF Rotated, Inv, TypeOK
<1>6. ASSUME NEW uls \in Seq(Upper)
      PROVE  Sources(uls) \in Seq(Upper \X Queue)
  <2>1. 3 * Len(uls) \in Nat
    OBVIOUS
  <2>2. ASSUME NEW k \in 1 .. 3 * Len(uls)
        PROVE  <<uls[1 + ((k - 1) \div 3)], QueueOrder[1 + ((k - 1) % 3)]>> \in Upper \X Queue
    <3>1. 1 + ((k - 1) \div 3) \in 1 .. Len(uls) /\ 1 + ((k - 1) % 3) \in 1 .. 3
      OBVIOUS
    <3>2. \A i \in 1 .. 3 : QueueOrder[i] \in Queue
      BY DEF QueueOrder, Queue
    <3> QED BY <3>1, <3>2
  <2> QED BY <2>1, <2>2 DEF Sources
<1>7. upper_levels' \in Seq(Upper) /\ todo' \in Seq(Upper \X Queue)
  BY <1>5, <1>6 DEF FinishFills
<1> QED BY SMTT(30), <1>2, <1>4, <1>7 DEF FinishFills, Inv, TypeOK, SchedOK, TagPipelineBound,
           lower, cacheVars

(* One more tag check, out of the bandwidth that is left. *)
LEMMA Initiated ==
  ASSUME Inv, stage = "initiate", quota > 0, NEW pkt \in TagCheck,
         inflight_tag_check' = Append(inflight_tag_check, pkt),
         quota' = quota - 1, budget' = budget - 1, UNCHANGED <<stage, scan>>
  PROVE  /\ inflight_tag_check' \in Seq(TagCheck)
         /\ quota' \in Nat /\ budget' \in Nat
         /\ SchedOK'
<1>1. /\ inflight_tag_check' \in Seq(TagCheck)
      /\ Len(inflight_tag_check') = Len(inflight_tag_check) + 1
  BY AppendFacts DEF Inv, TypeOK
<1>2. /\ quota \in Nat /\ budget \in Nat /\ quota <= budget
      /\ Len(inflight_tag_check) + budget <= PipelineDepth
      /\ Len(inflight_tag_check) \in Nat
  BY DEF Inv, TypeOK, SchedOK
<1> QED BY <1>1, <1>2, PipelineDepthType DEF SchedOK, TagPipelineBound

LEMMA InitiateTagCheckInv ==
  ASSUME Inv, InitiateTagCheck
  PROVE  Inv'
<1> DEFINE u   == Head(todo)[1]
           q   == Head(todo)[2]
           old == upper_queue[u][q]
           req == Head(old)
<1>1. u \in Upper /\ q \in Queue
  <2>1. Head(todo) \in Upper \X Queue
    BY TailProperties DEF InitiateTagCheck, Inv, TypeOK
  <2> QED BY <2>1
<1>2. /\ old # <<>>
      /\ inflight_tag_check' = Append(inflight_tag_check, TagLookup(req, ToReturn(req, u)))
      /\ upper_queue' = [upper_queue EXCEPT ![u][q] = Tail(old)]
  BY DEF InitiateTagCheck
<1>3. old \in Seq(Request) /\ Len(old) <= UpperSize[q] /\ UpperSize[q] \in Nat
  <2> HIDE DEF u, q
  <2>1. upper_queue[u] \in [Queue -> Seq(Request)] /\ Len(upper_queue[u][q]) <= UpperSize[q]
    BY <1>1 DEF Inv, TypeOK
  <2>2. UpperSize \in [Queue -> Nat]
    BY CacheAssumption
  <2> QED BY <1>1, <2>1, <2>2
<1> HIDE DEF u, q, old
<1>4. req \in Request /\ Tail(old) \in Seq(Request) /\ Len(Tail(old)) <= UpperSize[q]
  BY <1>2, <1>3, TailProperties
<1>5. /\ upper_queue' \in [Upper -> [Queue -> Seq(Request)]]
      /\ \A v \in Upper, r \in Queue : Len(upper_queue'[v][r]) <= UpperSize[r]
  BY <1>1, <1>2, <1>4, UpperQueueUpdate DEF Inv
<1>6. TagLookup(req, ToReturn(req, u)) \in TagCheck
  <2>1. ToReturn(req, u) \in SUBSET Upper
    BY <1>1 DEF ToReturn
  <2>2. Latency(HIT_LATENCY) \in Nat
    BY LatencyType, CacheAssumption DEF Inv
  <2> HIDE DEF req
  <2> QED BY <1>4, <2>1, <2>2 DEF TagLookup, TagCheck, Request
<1>7. /\ inflight_tag_check' \in Seq(TagCheck)
      /\ quota' \in Nat /\ budget' \in Nat
      /\ SchedOK'
  BY <1>2, <1>6, Initiated DEF InitiateTagCheck
<1> QED BY <1>5, <1>7 DEF InitiateTagCheck, Inv, TypeOK, lower

LEMMA NextQueueInv ==
  ASSUME Inv, NextQueue
  PROVE  Inv'
<1>1. todo' \in Seq(Upper \X Queue)
  BY TailProperties DEF NextQueue, Inv, TypeOK
<1>2. quota' \in Nat /\ quota' <= budget
  BY DEF NextQueue, Lesser, Inv, TypeOK
<1> QED BY SMTT(30), <1>1, <1>2 DEF NextQueue, Inv, TypeOK, SchedOK, TagPipelineBound,
           upper, lower, cacheVars

LEMMA InitiatePrefetchInv ==
  ASSUME Inv, InitiatePrefetch
  PROVE  Inv'
<1> DEFINE pkt == [Head(internal_PQ) EXCEPT !.wait = Latency(HIT_LATENCY)]
<1>1. /\ Head(internal_PQ) \in TagCheck
      /\ Tail(internal_PQ) \in Seq(TagCheck) /\ Len(Tail(internal_PQ)) <= PQ_SIZE
  BY CacheAssumption, TailProperties DEF InitiatePrefetch, Inv, TypeOK
<1>2. pkt \in TagCheck
  BY <1>1, LatencyType, CacheAssumption DEF Inv, TagCheck
<1>3. /\ inflight_tag_check' = Append(inflight_tag_check, pkt)
      /\ stage = "initiate" /\ quota > 0
      /\ quota' = quota - 1 /\ budget' = budget - 1 /\ UNCHANGED <<stage, scan>>
  BY DEF InitiatePrefetch
<1> HIDE DEF pkt
<1>4. /\ inflight_tag_check' \in Seq(TagCheck)
      /\ quota' \in Nat /\ budget' \in Nat
      /\ SchedOK'
  BY <1>2, <1>3, Initiated
<1> QED BY SMTT(30), <1>1, <1>4 DEF InitiatePrefetch, Inv, TypeOK, upper, lower

LEMMA FinishInitiateInv ==
  ASSUME Inv, FinishInitiate
  PROVE  Inv'
BY SMTT(30), CacheAssumption DEF FinishInitiate, Inv, TypeOK, SchedOK, TagPipelineBound,
   upper, lower, cacheVars

(* The tag check under examination, and what is left when it leaves. *)
LEMMA Scanned ==
  ASSUME Inv, TagReady \/ MissTurn
  PROVE  /\ scan \in 1 .. Len(inflight_tag_check)
         /\ inflight_tag_check[scan] \in TagCheck
         /\ Without(inflight_tag_check, scan) \in Seq(TagCheck)
         /\ Len(Without(inflight_tag_check, scan)) = Len(inflight_tag_check) - 1
         /\ budget \in Nat \ {0}
<1>1. scan \in 1 .. Len(inflight_tag_check) /\ budget \in Nat \ {0}
  <2>1. /\ scan \in Nat \ {0} /\ budget \in Nat /\ Len(inflight_tag_check) \in Nat
        /\ stage = "misses" => scan + budget - 1 <= Len(inflight_tag_check)
    BY DEF Inv, TypeOK, SchedOK
  <2> QED BY <2>1 DEF TagReady, MissTurn
<1>2. inflight_tag_check \in Seq(TagCheck)
  BY DEF Inv, TypeOK
<1> QED BY <1>1, <1>2, WithoutProperties

LEMMA TryHitInv ==
  ASSUME Inv, NEW w \in Way, NEW lines \in HookCalls, TryHit(w, lines)
  PROVE  Inv'
<1> DEFINE pkt == inflight_tag_check[scan]
           s   == SetIndex[pkt.addr]
           useful == block[s][w].prefetch /\ ~pkt.prefetch_from_this
<1>1. /\ pkt \in TagCheck
      /\ inflight_tag_check' \in Seq(TagCheck)
      /\ Len(inflight_tag_check') = Len(inflight_tag_check) - 1
      /\ scan \in 1 .. Len(inflight_tag_check)
      /\ budget' \in Nat
  <2>1. /\ TagReady
        /\ inflight_tag_check' = Without(inflight_tag_check, scan)
        /\ budget' = budget - 1
    BY DEF TryHit
  <2> QED BY <2>1, Scanned
<1>2. pkt.addr \in Block /\ pkt.to_return \in SUBSET Upper /\ s \in Set
  <2>1. pkt.addr \in Block /\ pkt.to_return \in SUBSET Upper
    <3> HIDE DEF pkt
    <3> QED BY <1>1 DEF TagCheck
  <2> QED BY <2>1, CacheAssumption
<1>3. /\ internal_PQ' \in Seq(TagCheck) /\ Len(internal_PQ') <= PQ_SIZE
      /\ Accepted(lines) \in Nat
  BY PrefetchLinesType DEF TryHit, Inv
<1>4. returned' \in [Upper -> Seq(Block)]
  <2>1. Respond(pkt.to_return, pkt.addr)
    BY DEF TryHit
  <2> QED BY <1>2, <2>1, RespondType DEF Inv
<1>5. block' \in [Set -> [Way -> ValidLine \cup {InvalidLine}]]
  <2>1. block' = [block EXCEPT ![s][w].dirty = @ \/ pkt.type = "WRITE",
                               ![s][w].prefetch = @ /\ ~useful]
    BY DEF TryHit
  <2>2. block[s][w] \in ValidLine
    <3>1. block[s][w].valid
      BY DEF TryHit, HitWay
    <3>2. block[s][w] \in ValidLine \cup {InvalidLine}
      BY <1>2 DEF Inv, TypeOK
    <3> QED BY <3>1, <3>2 DEF InvalidLine
  <2> DEFINE d == block[s][w].dirty \/ pkt.type = "WRITE"
             p == block[s][w].prefetch /\ ~useful
             line == [[block[s][w] EXCEPT !.dirty = d] EXCEPT !.prefetch = p]
  <2>3. d \in BOOLEAN /\ p \in BOOLEAN
    OBVIOUS
  <2>4. line \in ValidLine
    <3> HIDE DEF d, p
    <3> QED BY <2>2, <2>3 DEF ValidLine
  <2>5. block \in [Set -> [Way -> ValidLine \cup {InvalidLine}]]
    BY DEF Inv, TypeOK
  <2>6. block' = [block EXCEPT ![s] = [block[s] EXCEPT ![w] = line]]
    <3> HIDE DEF s, pkt
    <3> QED BY <1>2, <2>1, <2>5
  <2> HIDE DEF line, s
  <2> QED BY <1>2, <2>4, <2>5, <2>6
<1>6. sim_stats' \in [pf_issued : Nat, pf_useful : Nat, pf_useless : Nat, carried : Nat]
  <2>1. \/ sim_stats' = [Issue(sim_stats, lines) EXCEPT !.pf_useful = @ + 1]
        \/ sim_stats' = Issue(sim_stats, lines)
    <3> HIDE DEF useful
    <3> QED BY DEF TryHit, useful
  <2> QED BY <1>3, <2>1, IssueType DEF Inv
<1>7. SchedOK'
  <2>1. stage' = "hits" /\ scan' = scan
    BY DEF TryHit, TagReady
  <2>2. Len(inflight_tag_check) \in Nat
    BY DEF Inv, TypeOK
  <2> QED BY <1>1, <2>1, <2>2, PipelineDepthType DEF Inv, SchedOK, TagPipelineBound
<1> HIDE DEF pkt, s, useful
<1> QED BY <1>1, <1>3, <1>4, <1>5, <1>6, <1>7 DEF TryHit, Inv, TypeOK, upper, lower

LEMMA TryHitMissesInv ==
  ASSUME Inv, NEW lines \in HookCalls, TryHitMisses(lines)
  PROVE  Inv'
<1>1. scan \in 1 .. Len(inflight_tag_check) /\ budget \in Nat \ {0}
  BY Scanned DEF TryHitMisses
<1>2. /\ internal_PQ' \in Seq(TagCheck) /\ Len(internal_PQ') <= PQ_SIZE
      /\ Accepted(lines) \in Nat
  BY PrefetchLinesType DEF TryHitMisses, Inv
<1>3. sim_stats' \in [pf_issued : Nat, pf_useful : Nat, pf_useless : Nat, carried : Nat]
  BY <1>2, IssueType DEF TryHitMisses, Inv
<1>4. budget' \in Nat /\ scan' \in Nat \ {0} /\ SchedOK'
  <2>1. /\ stage' = "hits" /\ scan' = scan + 1 /\ budget' = budget - 1
        /\ inflight_tag_check' = inflight_tag_check
    BY DEF TryHitMisses, TagReady
  <2> QED BY <1>1, <2>1 DEF Inv, SchedOK, TagPipelineBound
<1> QED BY SMTT(90), <1>2, <1>3, <1>4 DEF TryHitMisses, Inv, TypeOK, upper, lower

LEMMA FinishHitsInv ==
  ASSUME Inv, FinishHits
  PROVE  Inv'
BY SMTT(30) DEF FinishHits, Inv, TypeOK, SchedOK, TagPipelineBound, upper, lower, cacheVars

(* What every action of handle_miss that takes the packet over preserves. *)
LEMMA DoneInv ==
  ASSUME Inv, MissTurn, Done,
         MSHR' \in Seq(Fill), Len(MSHR') <= MSHR_SIZE,
         inflight_fills' \in Seq(Fill),
         lower_queue' \in [Queue -> Seq(Request)],
         \A q \in Queue : Len(lower_queue'[q]) <= LowerSize[q],
         sim_stats' \in [pf_issued : Nat, pf_useful : Nat, pf_useless : Nat, carried : Nat]
  PROVE  Inv'
<1>1. /\ inflight_tag_check' \in Seq(TagCheck)
      /\ Len(inflight_tag_check') = Len(inflight_tag_check) - 1
      /\ budget' \in Nat /\ budget' = budget - 1
  BY Scanned DEF Done
<1>2. SchedOK'
  <2>1. stage' = "misses" /\ scan' = scan
    BY DEF Done, MissTurn
  <2>2. /\ Len(inflight_tag_check) \in Nat /\ budget \in Nat /\ scan \in Nat
        /\ scan + budget - 1 <= Len(inflight_tag_check)
        /\ Len(inflight_tag_check) <= PipelineDepth
    BY DEF Inv, TypeOK, SchedOK, TagPipelineBound, MissTurn
  <2> QED BY <1>1, <2>1, <2>2, PipelineDepthType DEF SchedOK, TagPipelineBound
<1> QED BY SMTT(90), <1>1, <1>2 DEF Done, Inv, TypeOK, upper

LEMMA HandleWriteInv ==
  ASSUME Inv, HandleWrite
  PROVE  Inv'
<1>1. inflight_tag_check[scan] \in TagCheck /\ Latency(FILL_LATENCY) \in Nat
  BY Scanned, LatencyType, CacheAssumption DEF HandleWrite, Inv
<1>2. FillType(inflight_tag_check[scan], Latency(FILL_LATENCY)) \in Fill
  BY <1>1, FillTypeType
<1>3. inflight_fills' \in Seq(Fill)
  BY <1>2, AppendFacts DEF HandleWrite, Inv, TypeOK
<1>4. /\ MSHR' \in Seq(Fill) /\ Len(MSHR') <= MSHR_SIZE
      /\ lower_queue' \in [Queue -> Seq(Request)]
      /\ \A q \in Queue : Len(lower_queue'[q]) <= LowerSize[q]
      /\ sim_stats' \in [pf_issued : Nat, pf_useful : Nat, pf_useless : Nat, carried : Nat]
  BY DEF HandleWrite, Inv, TypeOK
<1> QED BY <1>3, <1>4, DoneInv DEF HandleWrite

(* A miss merged into an entry of the MSHR, or of the fills. *)
LEMMA Merged ==
  ASSUME TypeOK, NEW s \in Seq(Fill), NEW i \in DOMAIN s, NEW pkt \in TagCheck
  PROVE  LET merged == [s EXCEPT ![i] = Merge(@, FillType(pkt, 0))]
         IN  merged \in Seq(Fill) /\ Len(merged) = Len(s)
<1>1. s[i] \in Fill /\ FillType(pkt, 0) \in Fill
  BY FillTypeType
<1>2. Merge(s[i], FillType(pkt, 0)) \in Fill
  BY <1>1, MergeType
<1> QED BY <1>2

LEMMA CountMergeType ==
  ASSUME TypeOK, NEW entry, NEW pkt, CountMerge(entry, pkt)
  PROVE  sim_stats' \in [pf_issued : Nat, pf_useful : Nat, pf_useless : Nat, carried : Nat]
<1> DEFINE counters == [pf_issued : Nat, pf_useful : Nat, pf_useless : Nat, carried : Nat]
<1>1. \/ sim_stats' = [sim_stats EXCEPT !.pf_useful = @ + 1]
      \/ sim_stats' = sim_stats
  BY DEF CountMerge
<1>2. sim_stats \in counters
  BY DEF TypeOK
<1>3. ASSUME NEW s \in counters
      PROVE  [s EXCEPT !.pf_useful = @ + 1] \in counters
  OBVIOUS
<1> HIDE DEF counters
<1>4. sim_stats' \in counters
  BY <1>1, <1>2, <1>3
<1> QED BY <1>4 DEF counters

LEMMA MergeIntoMSHRInv ==
  ASSUME Inv, MergeIntoMSHR
  PROVE  Inv'
<1> DEFINE pkt == inflight_tag_check[scan]
<1> PICK m \in DOMAIN MSHR :
      /\ MSHR' = [MSHR EXCEPT ![m] = Merge(@, FillType(pkt, 0))]
      /\ CountMerge(MSHR[m], pkt)
  BY DEF MergeIntoMSHR
<1>1. pkt \in TagCheck
  BY Scanned DEF MergeIntoMSHR
<1> HIDE DEF pkt
<1>2. MSHR' \in Seq(Fill) /\ Len(MSHR') <= MSHR_SIZE
  BY <1>1, Merged DEF Inv, TypeOK
<1>3. sim_stats' \in [pf_issued : Nat, pf_useful : Nat, pf_useless : Nat, carried : Nat]
  BY CountMergeType DEF Inv
<1>4. /\ inflight_fills' \in Seq(Fill)
      /\ lower_queue' \in [Queue -> Seq(Request)]
      /\ \A q \in Queue : Len(lower_queue'[q]) <= LowerSize[q]
  BY DEF MergeIntoMSHR, Inv, TypeOK
<1> QED BY <1>2, <1>3, <1>4, DoneInv DEF MergeIntoMSHR

LEMMA MergeIntoFillInv ==
  ASSUME Inv, MergeIntoFill
  PROVE  Inv'
<1> DEFINE pkt == inflight_tag_check[scan]
<1> PICK f \in DOMAIN inflight_fills :
      /\ inflight_fills' = [inflight_fills EXCEPT ![f] = Merge(@, FillType(pkt, 0))]
      /\ CountMerge(inflight_fills[f], pkt)
  BY DEF MergeIntoFill
<1>1. pkt \in TagCheck
  BY Scanned DEF MergeIntoFill
<1> HIDE DEF pkt
<1>2. inflight_fills' \in Seq(Fill)
  BY <1>1, Merged DEF Inv, TypeOK
<1>3. sim_stats' \in [pf_issued : Nat, pf_useful : Nat, pf_useless : Nat, carried : Nat]
  BY CountMergeType DEF Inv
<1>4. /\ MSHR' \in Seq(Fill) /\ Len(MSHR') <= MSHR_SIZE
      /\ lower_queue' \in [Queue -> Seq(Request)]
      /\ \A q \in Queue : Len(lower_queue'[q]) <= LowerSize[q]
  BY DEF MergeIntoFill, Inv, TypeOK
<1> QED BY <1>2, <1>3, <1>4, DoneInv DEF MergeIntoFill

LEMMA ForwardPacketType ==
  ASSUME NEW pkt \in TagCheck
  PROVE  /\ ForwardPacket(pkt) \in Request
         /\ ForwardPacket(pkt).addr = pkt.addr
         /\ ForwardQueue(pkt) \in {"RQ", "PQ"}
         /\ ForwardQueue(pkt) \in Queue
<1>1. (IF pkt.type = "WRITE" THEN "RFO" ELSE pkt.type) \in AccessType
  BY DEF TagCheck, AccessType
<1>2. pkt.addr \in Block
  BY DEF TagCheck
<1> QED BY <1>1, <1>2 DEF ForwardPacket, ForwardQueue, Request, Queue

(* The MSHR after a miss is forwarded stays within MSHR_SIZE. *)
LEMMA AllocatedType ==
  ASSUME TypeOK, NEW pkt \in TagCheck, NEW fwd, CanForward(pkt), MSHR' = Allocated(pkt, fwd)
  PROVE  MSHR' \in Seq(Fill) /\ Len(MSHR') <= MSHR_SIZE
<1>1. FillType(pkt, 0) \in Fill
  BY FillTypeType
<1>2. /\ Len(MSHR) \in Nat /\ MSHR_SIZE \in Nat
      /\ Len(MSHR) <= MSHR_SIZE /\ Len(MSHR) # MSHR_SIZE
  BY CacheAssumption DEF CanForward, TypeOK
<1>3. \/ MSHR' = MSHR
      \/ MSHR' = Append(MSHR, FillType(pkt, 0))
  BY DEF Allocated
<1>4. CASE MSHR' = MSHR
  BY <1>4 DEF TypeOK
<1>5. CASE MSHR' = Append(MSHR, FillType(pkt, 0))
  BY <1>1, <1>2, <1>5, AppendFacts DEF TypeOK
<1> QED BY <1>3, <1>4, <1>5

LEMMA ForwardMissInv ==
  ASSUME Inv, ForwardMiss
  PROVE  Inv'
<1> DEFINE pkt == inflight_tag_check[scan]
           fwd == ForwardPacket(pkt)
           q   == ForwardQueue(pkt)
<1>1. /\ CanForward(pkt)
      /\ lower_queue' = [lower_queue EXCEPT ![q] = Append(@, fwd)]
      /\ MSHR' = Allocated(pkt, fwd)
  BY DEF ForwardMiss
<1>2. CanAdd(lower_queue[q], LowerSize[q])
  BY <1>1 DEF CanForward
<1>3. pkt \in TagCheck
  BY Scanned DEF ForwardMiss
<1>4. fwd \in Request /\ q \in Queue
  BY <1>3, ForwardPacketType
<1> HIDE DEF pkt, fwd, q
<1>5. MSHR' \in Seq(Fill) /\ Len(MSHR') <= MSHR_SIZE
  BY <1>1, <1>3, AllocatedType DEF Inv
<1>6. /\ lower_queue' \in [Queue -> Seq(Request)]
      /\ \A r \in Queue : Len(lower_queue'[r]) <= LowerSize[r]
  BY <1>1, <1>2, <1>4, LowerAppend DEF Inv
<1>7. /\ inflight_fills' \in Seq(Fill)
      /\ sim_stats' \in [pf_issued : Nat, pf_useful : Nat, pf_useless : Nat, carried : Nat]
  BY DEF ForwardMiss, Inv, TypeOK
<1> QED BY <1>5, <1>6, <1>7, DoneInv DEF ForwardMiss

LEMMA HandleMissFailsInv ==
  ASSUME Inv, HandleMissFails
  PROVE  Inv'
<1>1. scan \in 1 .. Len(inflight_tag_check) /\ budget \in Nat \ {0}
  BY Scanned DEF HandleMissFails
<1>2. budget' \in Nat /\ scan' \in Nat \ {0} /\ SchedOK'
  <2>1. /\ stage' = "misses" /\ scan' = scan + 1 /\ budget' = budget - 1
        /\ inflight_tag_check' = inflight_tag_check
    BY DEF HandleMissFails, MissTurn, cacheVars
  <2>2. stage = "misses" /\ Len(inflight_tag_check) \in Nat
    BY DEF HandleMissFails, MissTurn, Inv, TypeOK
  <2> QED BY <1>1, <2>1, <2>2 DEF Inv, SchedOK, TagPipelineBound
<1> QED BY SMTT(30), <1>2 DEF HandleMissFails, Inv, TypeOK, upper, lower, cacheVars

LEMMA FinishOperateInv ==
  ASSUME Inv, NEW lines \in HookCalls, FinishOperate(lines)
  PROVE  Inv'
<1>1. /\ internal_PQ' \in Seq(TagCheck) /\ Len(internal_PQ') <= PQ_SIZE
      /\ Accepted(lines) \in Nat
  BY PrefetchLinesType DEF FinishOperate, Inv
<1>2. sim_stats' \in [pf_issued : Nat, pf_useful : Nat, pf_useless : Nat, carried : Nat]
  BY <1>1, IssueType DEF FinishOperate, Inv
<1>3. SchedOK'
  BY DEF FinishOperate, Inv, SchedOK, TagPipelineBound
<1> QED BY SMTT(30), <1>1, <1>2, <1>3 DEF FinishOperate, Inv, TypeOK, upper, lower

(* The number of live prefetches counts finitely many places. *)
LEMMA LivePrefetchesType ==
  ASSUME TypeOK
  PROVE  LivePrefetches \in Nat
<1>1. ASSUME NEW S, NEW s \in Seq(S), NEW T \in SUBSET DOMAIN s
      PROVE  Cardinality(T) \in Nat
  <2>1. IsFiniteSet(1 .. Len(s))
    BY FS_Interval
  <2>2. T \subseteq 1 .. Len(s)
    OBVIOUS
  <2> QED BY <2>1, <2>2, FS_Subset, FS_CardinalityType
<1> DEFINE a == {i \in DOMAIN inflight_tag_check : inflight_tag_check[i].prefetch_from_this}
           b == {i \in DOMAIN MSHR : MSHR[i].prefetch_from_this}
           c == {i \in DOMAIN inflight_fills : inflight_fills[i].prefetch_from_this}
           d == {sw \in Set \X Way : block[sw[1]][sw[2]].valid /\ block[sw[1]][sw[2]].prefetch}
<1>2. Cardinality(a) \in Nat
  <2>1. a \in SUBSET DOMAIN inflight_tag_check
    OBVIOUS
  <2> HIDE DEF a
  <2> QED BY <1>1, <2>1 DEF TypeOK
<1>3. Cardinality(b) \in Nat
  <2>1. b \in SUBSET DOMAIN MSHR
    OBVIOUS
  <2> HIDE DEF b
  <2> QED BY <1>1, <2>1 DEF TypeOK
<1>4. Cardinality(c) \in Nat
  <2>1. c \in SUBSET DOMAIN inflight_fills
    OBVIOUS
  <2> HIDE DEF c
  <2> QED BY <1>1, <2>1 DEF TypeOK
<1>5. Cardinality(d) \in Nat
  <2>1. IsFiniteSet(Set) /\ IsFiniteSet(Way)
    BY CacheAssumption, FS_Interval DEF Way
  <2>2. IsFiniteSet(Set \X Way)
    BY <2>1, FS_Product
  <2>3. d \subseteq Set \X Way
    OBVIOUS
  <2> HIDE DEF d
  <2> QED BY <2>2, <2>3, FS_Subset, FS_CardinalityType
<1>6. Len(internal_PQ) \in Nat
  BY DEF TypeOK
<1>7. LivePrefetches = Len(internal_PQ) + Cardinality(a) + Cardinality(b) + Cardinality(c)
                       + Cardinality(d)
  BY DEF LivePrefetches
<1> HIDE DEF a, b, c, d
<1> QED BY <1>2, <1>3, <1>4, <1>5, <1>6, <1>7

LEMMA BeginPhaseInv ==
  ASSUME Inv, BeginPhase
  PROVE  Inv'
<1>1. sim_stats' \in [pf_issued : Nat, pf_useful : Nat, pf_useless : Nat, carried : Nat]
  BY LivePrefetchesType DEF BeginPhase, Inv
<1> QED BY <1>1 DEF BeginPhase, Inv, TypeOK, SchedOK, TagPipelineBound, upper, lower, sched

--------------------------------------------------------------------------------
(* Every step preserves Inv. *)
LEMMA NextInv ==
  ASSUME Inv, [Next]_vars
  PROVE  Inv'
<1>1. CASE Operate
  BY <1>1, BeginOperateInv, FinishPacketInv, FinishReturnsInv, HandleFillInv,
     HandleFillFailsInv, FinishFillsInv, InitiateTagCheckInv, NextQueueInv,
     InitiatePrefetchInv, FinishInitiateInv, TryHitInv, TryHitMissesInv, FinishHitsInv,
     HandleWriteInv, MergeIntoMSHRInv, MergeIntoFillInv, ForwardMissInv,
     HandleMissFailsInv, FinishOperateInv DEF Operate
<1>2. CASE Upstream
  BY <1>2, UpperRequestInv, UpperFinishPacketInv DEF Upstream
<1>3. CASE Downstream
  BY <1>3, LowerAcceptInv, LowerRespondInv DEF Downstream
<1>4. CASE BeginPhase
  BY <1>4, BeginPhaseInv
<1>5. CASE UNCHANGED vars
  BY <1>5 DEF vars, upper, lower, sched, cacheVars, Inv, TypeOK, SchedOK, TagPipelineBound
<1> QED BY <1>1, <1>2, <1>3, <1>4, <1>5 DEF Next

(* The cache keeps the shape of its state and the sizes of its queues and   *)
(* of its MSHR, and the bookkeeping of operate() stays within bounds.       *)
THEOREM InvHolds == Spec => []Inv
BY InitInv, NextInv, PTL DEF Spec

(* cache.cc operate(), channel.cc add_*: no queue ever exceeds its size,    *)
(* nor the MSHR MSHR_SIZE.                                                  *)
THEOREM TypeCorrect == Spec => []TypeOK
<1>1. Inv => TypeOK
  BY DEF Inv
<1> QED BY <1>1, InvHolds, PTL

(* cache.cc:449-482: the bandwidth operate() shares out among its queues    *)
(* never starts more tag checks than the pipeline holds.                    *)
THEOREM TagPipelineBounded == Spec => []TagPipelineBound
<1>1. Inv => TagPipelineBound
  BY DEF Inv, SchedOK
<1> QED BY <1>1, InvHolds, PTL

--------------------------------------------------------------------------------
(* The misses and the lower level *)

(* The blocks the lower level owes an answer for, wherever the request is. *)
AwaitedOnce(s) ==
  \A i, j \in DOMAIN s :
    s[i].response_requested /\ s[j].response_requested /\ s[i].addr = s[j].addr => i = j
NoRepeat(s) == \A i, j \in DOMAIN s : s[i] = s[j] => i = j
AddressOnce(s) == \A i, j \in DOMAIN s : s[i].addr = s[j].addr => i = j

(* Each MSHR entry has exactly one request below: in a read queue of the    *)
(* lower channel, in work, or answered; and there is no other such request. *)
MissInv ==
  /\ Awaited(lower_queue["WQ"]) = {}
  /\ AwaitedOnce(lower_queue["RQ"]) /\ AwaitedOnce(lower_queue["PQ"])
  /\ Awaited(lower_queue["RQ"]) \cap Awaited(lower_queue["PQ"]) = {}
  /\ (Awaited(lower_queue["RQ"]) \cup Awaited(lower_queue["PQ"]))
       \cap (lower_taken \cup Answers(lower_returned)) = {}
  /\ lower_taken \cap Answers(lower_returned) = {}
  /\ NoRepeat(lower_returned)
  /\ AddressOnce(MSHR)
  /\ Addresses(MSHR) = Awaited(lower_queue["RQ"]) \cup Awaited(lower_queue["PQ"])
                         \cup lower_taken \cup Answers(lower_returned)

LEMMA AwaitedAppend ==
  ASSUME NEW s \in Seq(Request), NEW e \in Request
  PROVE  /\ Awaited(Append(s, e)) =
              Awaited(s) \cup (IF e.response_requested THEN {e.addr} ELSE {})
         /\ AwaitedOnce(s) /\ (e.response_requested => e.addr \notin Awaited(s))
              => AwaitedOnce(Append(s, e))
<1> DEFINE t == Append(s, e)
<1>1. /\ t \in Seq(Request) /\ Len(t) = Len(s) + 1 /\ Len(s) \in Nat
      /\ \A i \in 1 .. Len(s) : t[i] = s[i]
      /\ t[Len(s) + 1] = e
      /\ DOMAIN t = 1 .. Len(s) + 1 /\ DOMAIN s = 1 .. Len(s)
  OBVIOUS
<1> HIDE DEF t
<1>2. Awaited(t) = Awaited(s) \cup (IF e.response_requested THEN {e.addr} ELSE {})
  <2>1. ASSUME NEW b \in Awaited(t)
        PROVE  b \in Awaited(s) \cup (IF e.response_requested THEN {e.addr} ELSE {})
    <3> PICK i \in DOMAIN t : t[i].response_requested /\ t[i].addr = b
      BY DEF Awaited
    <3>1. i \in 1 .. Len(s) \/ i = Len(s) + 1
      BY <1>1
    <3> QED BY <1>1, <3>1 DEF Awaited
  <2>2. ASSUME NEW b \in Awaited(s)
        PROVE  b \in Awaited(t)
    <3> PICK i \in DOMAIN s : s[i].response_requested /\ s[i].addr = b
      BY DEF Awaited
    <3>1. i \in DOMAIN t /\ t[i] = s[i]
      BY <1>1
    <3> QED BY <3>1 DEF Awaited
  <2>3. e.response_requested => e.addr \in Awaited(t)
    <3>1. Len(s) + 1 \in DOMAIN t
      BY <1>1
    <3> QED BY <1>1, <3>1 DEF Awaited
  <2> QED BY <2>1, <2>2, <2>3
<1>3. ASSUME AwaitedOnce(s), e.response_requested => e.addr \notin Awaited(s)
      PROVE  AwaitedOnce(t)
  <2> SUFFICES ASSUME NEW i \in DOMAIN t, NEW j \in DOMAIN t,
                      t[i].response_requested, t[j].response_requested,
                      t[i].addr = t[j].addr
               PROVE  i = j
    BY DEF AwaitedOnce
  <2>1. (i \in DOMAIN s \/ i = Len(s) + 1) /\ (j \in DOMAIN s \/ j = Len(s) + 1)
    BY <1>1
  <2> QED BY <1>1, <1>3, <2>1 DEF AwaitedOnce, Awaited
<1> QED BY <1>2, <1>3 DEF t

(* The elements of a tail, both ways. *)
LEMMA TailElements ==
  ASSUME NEW S, NEW s \in Seq(S), s # <<>>
  PROVE  /\ Len(s) \in Nat \ {0} /\ DOMAIN s = 1 .. Len(s)
         /\ DOMAIN Tail(s) = 1 .. Len(s) - 1
         /\ \A i \in DOMAIN Tail(s) : i + 1 \in DOMAIN s /\ Tail(s)[i] = s[i + 1]
         /\ Head(s) = s[1] /\ 1 \in DOMAIN s
         /\ \A i \in DOMAIN s : i # 1 => i - 1 \in DOMAIN Tail(s) /\ Tail(s)[i - 1] = s[i]
<1>1. /\ Len(s) \in Nat \ {0} /\ DOMAIN s = 1 .. Len(s)
      /\ DOMAIN Tail(s) = 1 .. Len(s) - 1
      /\ Head(s) = s[1]
  OBVIOUS
<1>2. ASSUME NEW i \in 1 .. Len(s) - 1
      PROVE  i + 1 \in 1 .. Len(s) /\ Tail(s)[i] = s[i + 1]
  OBVIOUS
<1>3. ASSUME NEW i \in 1 .. Len(s), i # 1
      PROVE  i - 1 \in 1 .. Len(s) - 1 /\ Tail(s)[i - 1] = s[i]
  <2>1. i - 1 \in 1 .. Len(s) - 1 /\ (i - 1) + 1 = i
    BY <1>1, <1>3
  <2> QED BY <1>2, <2>1
<1>4. \A i \in DOMAIN Tail(s) : i + 1 \in DOMAIN s /\ Tail(s)[i] = s[i + 1]
  BY <1>1, <1>2, Zenon
<1>5. ASSUME NEW i \in DOMAIN s, i # 1
      PROVE  i - 1 \in DOMAIN Tail(s) /\ Tail(s)[i - 1] = s[i]
  <2>1. i \in 1 .. Len(s)
    BY <1>1, Zenon
  <2>2. i - 1 \in 1 .. Len(s) - 1 /\ Tail(s)[i - 1] = s[i]
    BY <1>3, <1>5, <2>1, Zenon
  <2> QED BY <1>1, <2>2, Zenon
<1>6. 1 \in DOMAIN s
  BY <1>1
<1> QED BY <1>1, <1>4, <1>5, <1>6, Zenon

LEMMA AwaitedTail ==
  ASSUME NEW s \in Seq(Request), s # <<>>
  PROVE  /\ AwaitedOnce(s) => AwaitedOnce(Tail(s))
         /\ Head(s).response_requested /\ AwaitedOnce(s)
              => /\ Head(s).addr \in Awaited(s)
                 /\ Awaited(Tail(s)) = Awaited(s) \ {Head(s).addr}
         /\ ~Head(s).response_requested => Awaited(Tail(s)) = Awaited(s)
         /\ Awaited(Tail(s)) \subseteq Awaited(s)
<1> DEFINE t == Tail(s)
<1>1. /\ Len(s) \in Nat \ {0} /\ DOMAIN s = 1 .. Len(s)
      /\ DOMAIN t = 1 .. Len(s) - 1
      /\ \A i \in DOMAIN t : i + 1 \in DOMAIN s /\ t[i] = s[i + 1]
      /\ Head(s) = s[1] /\ 1 \in DOMAIN s
      /\ \A i \in DOMAIN s : i # 1 => i - 1 \in DOMAIN t /\ t[i - 1] = s[i]
  BY TailElements
<1> HIDE DEF t
<1>2. AwaitedOnce(s) => AwaitedOnce(t)
  BY <1>1 DEF AwaitedOnce
<1>3. Awaited(t) \subseteq Awaited(s)
  BY <1>1 DEF Awaited
<1>4. \A b \in Awaited(s) : b \in Awaited(t) \/ (s[1].response_requested /\ b = s[1].addr)
  BY <1>1 DEF Awaited
<1>5. ASSUME s[1].response_requested, AwaitedOnce(s)
      PROVE  s[1].addr \in Awaited(s) /\ s[1].addr \notin Awaited(t)
  <2>1. s[1].addr \in Awaited(s)
    BY <1>1, <1>5 DEF Awaited
  <2>2. ASSUME NEW i \in DOMAIN t, t[i].response_requested, t[i].addr = s[1].addr
        PROVE  FALSE
    <3>1. i + 1 = 1
      BY <1>1, <1>5, <2>2 DEF AwaitedOnce
    <3> QED BY <1>1, <3>1
  <2> QED BY <2>1, <2>2 DEF Awaited
<1>6. s[1].response_requested /\ AwaitedOnce(s)
        => s[1].addr \in Awaited(s) /\ Awaited(t) = Awaited(s) \ {s[1].addr}
  BY <1>3, <1>4, <1>5
<1>7. ~s[1].response_requested => Awaited(t) = Awaited(s)
  BY <1>3, <1>4
<1>8. Head(s) = s[1]
  BY <1>1
<1> QED BY <1>2, <1>3, <1>6, <1>7, <1>8 DEF t

(* The responses on their way back, read from the front. *)
LEMMA AnswersAppend ==
  ASSUME NEW s \in Seq(Block), NEW b \in Block
  PROVE  /\ Answers(Append(s, b)) = Answers(s) \cup {b}
         /\ NoRepeat(s) /\ b \notin Answers(s) => NoRepeat(Append(s, b))
<1> DEFINE t == Append(s, b)
<1>1. /\ Len(s) \in Nat /\ DOMAIN s = 1 .. Len(s) /\ DOMAIN t = 1 .. Len(s) + 1
      /\ \A i \in DOMAIN s : i \in DOMAIN t /\ t[i] = s[i]
      /\ \A i \in DOMAIN t : i \in DOMAIN s \/ i = Len(s) + 1
      /\ Len(s) + 1 \in DOMAIN t /\ t[Len(s) + 1] = b
  OBVIOUS
<1> HIDE DEF t
<1>2. Answers(t) = Answers(s) \cup {b}
  BY <1>1 DEF Answers
<1>3. NoRepeat(s) /\ b \notin Answers(s) => NoRepeat(t)
  BY <1>1 DEF NoRepeat, Answers
<1> QED BY <1>2, <1>3 DEF t

LEMMA AnswersTail ==
  ASSUME NEW s \in Seq(Block), s # <<>>, NoRepeat(s)
  PROVE  /\ Head(s) \in Answers(s)
         /\ Answers(Tail(s)) = Answers(s) \ {Head(s)}
         /\ NoRepeat(Tail(s))
<1> DEFINE t == Tail(s)
<1>1. /\ Len(s) \in Nat \ {0} /\ DOMAIN s = 1 .. Len(s)
      /\ DOMAIN t = 1 .. Len(s) - 1
      /\ \A i \in DOMAIN t : i + 1 \in DOMAIN s /\ t[i] = s[i + 1]
      /\ Head(s) = s[1] /\ 1 \in DOMAIN s
      /\ \A i \in DOMAIN s : i # 1 => i - 1 \in DOMAIN t /\ t[i - 1] = s[i]
  BY TailElements
<1> HIDE DEF t
<1>2. s[1] \notin Answers(t)
  <2>1. ASSUME NEW i \in DOMAIN t, t[i] = s[1]
        PROVE  FALSE
    <3>1. i + 1 = 1
      BY <1>1, <2>1 DEF NoRepeat
    <3> QED BY <1>1, <3>1
  <2> QED BY <2>1 DEF Answers
<1>3. Answers(t) = Answers(s) \ {s[1]}
  BY <1>1, <1>2 DEF Answers
<1>4. NoRepeat(t)
  BY <1>1 DEF NoRepeat
<1> QED BY <1>1, <1>3, <1>4 DEF t, Answers

(* The MSHR loses the entry swapped to the front, and only that address. *)
LEMMA AddressesSwapPop ==
  ASSUME NEW s \in Seq(Fill), NEW m \in 1 .. Len(s), AddressOnce(s)
  PROVE  /\ Addresses(SwapPop(s, m)) = Addresses(s) \ {s[m].addr}
         /\ AddressOnce(SwapPop(s, m))
<1> DEFINE t == SwapPop(s, m)
<1>1. /\ Len(s) \in Nat \ {0} /\ DOMAIN s = 1 .. Len(s) /\ DOMAIN t = 1 .. Len(s) - 1
      /\ \A j \in DOMAIN t : t[j] = IF j + 1 = m THEN s[1] ELSE s[j + 1]
  BY DEF SwapPop
<1> DEFINE from(j) == IF j + 1 = m THEN 1 ELSE j + 1
<1>2. /\ \A j \in DOMAIN t : from(j) \in DOMAIN s /\ from(j) # m /\ t[j] = s[from(j)]
      /\ \A i, j \in DOMAIN t : from(i) = from(j) => i = j
  BY <1>1
<1>3. ASSUME NEW i \in DOMAIN s, i # m
      PROVE  \E j \in DOMAIN t : t[j] = s[i]
  <2>1. CASE i = 1
    <3>1. m - 1 \in DOMAIN t /\ t[m - 1] = s[1]
      BY <1>1, <1>3, <2>1
    <3> QED BY <2>1, <3>1
  <2>2. CASE i # 1
    <3>1. i - 1 \in DOMAIN t /\ t[i - 1] = s[i]
      BY <1>1, <1>3, <2>2
    <3> QED BY <3>1
  <2> QED BY <2>1, <2>2
<1> HIDE DEF t, from
<1>4. Addresses(t) = Addresses(s) \ {s[m].addr}
  <2>1. m \in DOMAIN s
    BY <1>1
  <2>2. \A j \in DOMAIN t : t[j].addr # s[m].addr
    BY <1>2, <2>1 DEF AddressOnce
  <2> QED BY <1>2, <1>3, <2>1, <2>2 DEF Addresses
<1>5. AddressOnce(t)
  BY <1>2 DEF AddressOnce
<1> QED BY <1>4, <1>5 DEF t

LEMMA AddressesAppend ==
  ASSUME NEW s \in Seq(Fill), NEW e \in Fill
  PROVE  /\ Addresses(Append(s, e)) = Addresses(s) \cup {e.addr}
         /\ AddressOnce(s) /\ e.addr \notin Addresses(s) => AddressOnce(Append(s, e))
<1> DEFINE t == Append(s, e)
<1>1. /\ Len(s) \in Nat /\ DOMAIN s = 1 .. Len(s) /\ DOMAIN t = 1 .. Len(s) + 1
      /\ \A i \in DOMAIN s : i \in DOMAIN t /\ t[i] = s[i]
      /\ \A i \in DOMAIN t : i \in DOMAIN s \/ i = Len(s) + 1
      /\ Len(s) + 1 \in DOMAIN t /\ t[Len(s) + 1] = e
  OBVIOUS
<1> HIDE DEF t
<1>2. Addresses(t) = Addresses(s) \cup {e.addr}
  BY <1>1 DEF Addresses
<1>3. AddressOnce(s) /\ e.addr \notin Addresses(s) => AddressOnce(t)
  BY <1>1 DEF AddressOnce, Addresses
<1> QED BY <1>2, <1>3 DEF t

(* What MissInv depends on. *)
missVars == <<lower_queue, lower_taken, lower_returned>>

LEMMA MissStutter ==
  ASSUME MissInv, UNCHANGED missVars,
         Addresses(MSHR)' = Addresses(MSHR), AddressOnce(MSHR)'
  PROVE  MissInv'
<1>1. lower_queue' = lower_queue /\ lower_taken' = lower_taken
      /\ lower_returned' = lower_returned
  BY DEF missVars
<1>2. Addresses(MSHR') = Addresses(MSHR) /\ AddressOnce(MSHR')
  BY DEF Addresses, AddressOnce
<1> QED BY <1>1, <1>2 DEF MissInv

LEMMA LowerAcceptMiss ==
  ASSUME TypeOK, MissInv, NEW q \in Queue, LowerAccept(q)
  PROVE  MissInv'
<1> DEFINE old == lower_queue[q]
<1>1. /\ old \in Seq(Request) /\ old # <<>>
      /\ lower_queue' = [lower_queue EXCEPT ![q] = Tail(old)]
      /\ lower_taken' = IF Head(old).response_requested THEN lower_taken \cup {Head(old).addr}
                                                      ELSE lower_taken
      /\ lower_returned' = lower_returned /\ MSHR' = MSHR
  BY DEF LowerAccept, TypeOK, cacheVars
<1>2. lower_queue'[q] = Tail(old) /\ \A r \in Queue \ {q} : lower_queue'[r] = lower_queue[r]
  BY <1>1 DEF TypeOK
<1>3. /\ AwaitedOnce(old) => AwaitedOnce(Tail(old))
      /\ Head(old).response_requested /\ AwaitedOnce(old)
           => Head(old).addr \in Awaited(old) /\ Awaited(Tail(old)) = Awaited(old) \ {Head(old).addr}
      /\ ~Head(old).response_requested => Awaited(Tail(old)) = Awaited(old)
      /\ Awaited(Tail(old)) \subseteq Awaited(old)
  BY <1>1, AwaitedTail
<1>4. Head(old).response_requested => Head(old).addr \in Awaited(old)
  <2>1. 1 \in DOMAIN old /\ Head(old) = old[1]
    BY <1>1, TailElements
  <2> QED BY <2>1 DEF Awaited
<1>5. /\ Addresses(MSHR') = Addresses(MSHR) /\ AddressOnce(MSHR')
      /\ Answers(lower_returned') = Answers(lower_returned) /\ NoRepeat(lower_returned')
  BY <1>1 DEF MissInv
<1>6. CASE q = "WQ"
  <2>1. ~Head(old).response_requested
    BY <1>4, <1>6 DEF MissInv
  <2>2. lower_queue'["RQ"] = lower_queue["RQ"] /\ lower_queue'["PQ"] = lower_queue["PQ"]
    BY <1>2, <1>6 DEF Queue
  <2>3. Awaited(lower_queue'["WQ"]) = {}
    BY <1>2, <1>3, <1>6 DEF MissInv
  <2>4. lower_taken' = lower_taken
    BY <1>1, <2>1
  <2> HIDE DEF old
  <2> QED BY <1>5, <2>2, <2>3, <2>4 DEF MissInv
<1>7. CASE q = "RQ"
  <2>1. lower_queue'["WQ"] = lower_queue["WQ"] /\ lower_queue'["PQ"] = lower_queue["PQ"]
    BY <1>2, <1>7 DEF Queue
  <2>2. old = lower_queue["RQ"] /\ lower_queue'["RQ"] = Tail(old) /\ AwaitedOnce(old)
    BY <1>2, <1>7 DEF MissInv
  <2> HIDE DEF old
  <2> QED BY <1>1, <1>3, <1>5, <2>1, <2>2 DEF MissInv
<1>8. CASE q = "PQ"
  <2>1. lower_queue'["WQ"] = lower_queue["WQ"] /\ lower_queue'["RQ"] = lower_queue["RQ"]
    BY <1>2, <1>8 DEF Queue
  <2>2. old = lower_queue["PQ"] /\ lower_queue'["PQ"] = Tail(old) /\ AwaitedOnce(old)
    BY <1>2, <1>8 DEF MissInv
  <2> HIDE DEF old
  <2> QED BY SMTT(30), ZenonT(30), <1>1, <1>3, <1>5, <2>1, <2>2 DEF MissInv
<1> QED BY <1>6, <1>7, <1>8 DEF Queue

LEMMA LowerRespondMiss ==
  ASSUME TypeOK, MissInv, NEW b \in Block, LowerRespond(b)
  PROVE  MissInv'
<1>1. /\ lower_queue' = lower_queue /\ MSHR' = MSHR
      /\ b \in lower_taken /\ lower_taken' = lower_taken \ {b}
      /\ lower_returned' = Append(lower_returned, b)
  BY DEF LowerRespond, cacheVars
<1>2. b \notin Answers(lower_returned)
  BY <1>1 DEF MissInv
<1>3. /\ Answers(lower_returned') = Answers(lower_returned) \cup {b}
      /\ NoRepeat(lower_returned')
  BY <1>1, <1>2, AnswersAppend DEF MissInv, TypeOK
<1> QED BY <1>1, <1>3 DEF MissInv

LEMMA FinishPacketMiss ==
  ASSUME TypeOK, MissInv, FinishPacket
  PROVE  MissInv'
<1> PICK m \in DOMAIN MSHR :
      /\ FirstMatch(MSHR, Head(lower_returned), m)
      /\ MSHR' = SwapPop(MSHR, m)
  BY DEF FinishPacket
<1>1. /\ lower_queue' = lower_queue /\ lower_taken' = lower_taken
      /\ lower_returned # <<>> /\ lower_returned' = Tail(lower_returned)
  BY DEF FinishPacket
<1>2. /\ Head(lower_returned) \in Answers(lower_returned)
      /\ Answers(lower_returned') = Answers(lower_returned) \ {Head(lower_returned)}
      /\ NoRepeat(lower_returned')
  BY <1>1, AnswersTail DEF MissInv, TypeOK
<1>3. /\ Addresses(MSHR') = Addresses(MSHR) \ {MSHR[m].addr}
      /\ AddressOnce(MSHR')
  <2>1. m \in 1 .. Len(MSHR) /\ MSHR \in Seq(Fill)
    BY DEF TypeOK
  <2> QED BY <2>1, AddressesSwapPop DEF MissInv
<1>4. MSHR[m].addr = Head(lower_returned)
  BY DEF FirstMatch
<1> QED BY <1>1, <1>2, <1>3, <1>4 DEF MissInv

LEMMA HandleFillMiss ==
  ASSUME TypeOK, MissInv, NEW w, NEW lines, HandleFill(w, lines)
  PROVE  MissInv'
<1> DEFINE fill == Head(inflight_fills)
           s    == SetIndex[fill.addr]
           wb   == WritebackPacket(block[s][w], fill)
<1>1. MSHR' = MSHR /\ lower_taken' = lower_taken /\ lower_returned' = lower_returned
  BY DEF HandleFill
<1>2. CASE NeedsWriteback(s, w)
  <2>1. lower_queue' = [lower_queue EXCEPT !["WQ"] = Append(@, wb)]
    BY <1>2 DEF HandleFill
  <2>2. wb \in Request
    <3>1. fill \in Fill
      BY TailProperties DEF HandleFill, FillReady, TypeOK
    <3>2. s \in Set
      <4>1. fill.addr \in Block
        <5> HIDE DEF fill
        <5> QED BY <3>1 DEF Fill
      <4> QED BY <4>1, CacheAssumption
    <3> QED BY <1>2, <3>2, WritebackType
  <2>3. ~wb.response_requested
    BY DEF WritebackPacket
  <2> HIDE DEF wb
  <2>4. /\ lower_queue'["WQ"] = Append(lower_queue["WQ"], wb)
        /\ lower_queue["WQ"] \in Seq(Request)
        /\ lower_queue'["RQ"] = lower_queue["RQ"] /\ lower_queue'["PQ"] = lower_queue["PQ"]
    BY <2>1 DEF TypeOK, Queue
  <2>5. Awaited(lower_queue'["WQ"]) = {}
    BY <2>2, <2>3, <2>4, AwaitedAppend DEF MissInv
  <2> QED BY <1>1, <2>4, <2>5 DEF MissInv
<1>3. CASE ~NeedsWriteback(s, w)
  <2>1. lower_queue' = lower_queue
    BY <1>3 DEF HandleFill
  <2> QED BY <1>1, <2>1 DEF MissInv
<1> QED BY <1>2, <1>3

LEMMA MergeKeepsAddresses ==
  ASSUME Inv, MissInv, MergeIntoMSHR
  PROVE  Addresses(MSHR)' = Addresses(MSHR) /\ AddressOnce(MSHR)'
<1> DEFINE pkt == inflight_tag_check[scan]
<1> PICK m \in DOMAIN MSHR :
      /\ FirstMatch(MSHR, pkt.addr, m)
      /\ MSHR' = [MSHR EXCEPT ![m] = Merge(@, FillType(pkt, 0))]
  BY DEF MergeIntoMSHR
<1>1. pkt \in TagCheck
  BY Scanned DEF MergeIntoMSHR
<1> HIDE DEF pkt
<1>2. MSHR[m] \in Fill /\ FillType(pkt, 0) \in Fill /\ FillType(pkt, 0).addr = MSHR[m].addr
  <2>1. MSHR[m] \in Fill /\ MSHR[m].addr = pkt.addr
    BY DEF Inv, TypeOK, FirstMatch
  <2>2. FillType(pkt, 0) \in Fill /\ FillType(pkt, 0).addr = pkt.addr
    BY <1>1, FillTypeType
  <2> QED BY <2>1, <2>2
<1>3. Merge(MSHR[m], FillType(pkt, 0)).addr = MSHR[m].addr
  BY <1>2, MergeType
<1>4. DOMAIN MSHR' = DOMAIN MSHR /\ \A i \in DOMAIN MSHR : MSHR'[i].addr = MSHR[i].addr
  BY <1>3 DEF Inv, TypeOK
<1> QED BY <1>4 DEF Addresses, AddressOnce, MissInv

LEMMA MergeIntoMSHRMiss ==
  ASSUME Inv, MissInv, MergeIntoMSHR
  PROVE  MissInv'
<1>1. UNCHANGED missVars
  BY DEF MergeIntoMSHR, Done, missVars
<1> QED BY <1>1, MergeKeepsAddresses, MissStutter

LEMMA ForwardMissMiss ==
  ASSUME Inv, MissInv, ForwardMiss
  PROVE  MissInv'
<1> DEFINE pkt == inflight_tag_check[scan]
           fwd == ForwardPacket(pkt)
           q   == ForwardQueue(pkt)
<1>1. /\ lower_queue' = [lower_queue EXCEPT ![q] = Append(@, fwd)]
      /\ MSHR' = Allocated(pkt, fwd)
      /\ NoMatch(MSHR, pkt.addr)
      /\ lower_taken' = lower_taken /\ lower_returned' = lower_returned
  BY DEF ForwardMiss, NewMiss, Done
<1>2. pkt \in TagCheck
  BY Scanned DEF ForwardMiss
<1>3. fwd \in Request /\ fwd.addr = pkt.addr /\ q \in {"RQ", "PQ"} /\ q \in Queue
  BY <1>2, ForwardPacketType
<1> HIDE DEF pkt, fwd, q
<1>4. /\ lower_queue'[q] = Append(lower_queue[q], fwd)
      /\ lower_queue[q] \in Seq(Request)
      /\ \A r \in Queue \ {q} : lower_queue'[r] = lower_queue[r]
  BY <1>1, <1>3 DEF Inv, TypeOK
<1>5. fwd.addr \notin Addresses(MSHR)
  BY <1>1, <1>3 DEF NoMatch, Addresses
<1>6. fwd.addr \notin Awaited(lower_queue["RQ"]) \cup Awaited(lower_queue["PQ"])
                        \cup lower_taken \cup Answers(lower_returned)
  BY <1>5 DEF MissInv
<1> DEFINE new == IF fwd.response_requested THEN {fwd.addr} ELSE {}
<1>7. /\ Awaited(lower_queue'[q]) = Awaited(lower_queue[q]) \cup new
      /\ AwaitedOnce(lower_queue'[q])
  BY <1>3, <1>4, <1>6, AwaitedAppend DEF MissInv
<1>8. /\ Addresses(MSHR') = Addresses(MSHR) \cup new
      /\ AddressOnce(MSHR')
  <2>1. CASE fwd.response_requested
    <3>1. MSHR' = Append(MSHR, FillType(pkt, 0))
      BY <1>1, <2>1 DEF Allocated
    <3>2. FillType(pkt, 0) \in Fill /\ FillType(pkt, 0).addr = fwd.addr
      BY <1>2, <1>3, FillTypeType
    <3> QED BY <1>5, <2>1, <3>1, <3>2, AddressesAppend DEF Inv, TypeOK, MissInv
  <2>2. CASE ~fwd.response_requested
    BY <1>1, <2>2 DEF Allocated, MissInv
  <2> QED BY <2>1, <2>2
<1>9. new \cap (Awaited(lower_queue["RQ"]) \cup Awaited(lower_queue["PQ"])
                \cup lower_taken \cup Answers(lower_returned)) = {}
  BY <1>6
<1> HIDE DEF new
<1>10. lower_queue'["WQ"] = lower_queue["WQ"]
  BY <1>3, <1>4 DEF Queue
<1>11. CASE q = "RQ"
  <2>1. lower_queue'["PQ"] = lower_queue["PQ"]
    BY <1>4, <1>11 DEF Queue
  <2> QED BY <1>1, <1>7, <1>8, <1>9, <1>10, <1>11, <2>1 DEF MissInv
<1>12. CASE q = "PQ"
  <2>1. lower_queue'["RQ"] = lower_queue["RQ"]
    BY <1>4, <1>12 DEF Queue
  <2> QED BY <1>1, <1>7, <1>8, <1>9, <1>10, <1>12, <2>1 DEF MissInv
<1> QED BY <1>3, <1>11, <1>12

(* The other actions of operate() leave the MSHR and the lower channel alone. *)
LEMMA OtherMiss ==
  ASSUME MissInv, UNCHANGED <<lower, MSHR>>
  PROVE  MissInv'
BY MissStutter DEF lower, missVars, MissInv

LEMMA InitMiss == Init => MissInv
<1> SUFFICES ASSUME Init PROVE MissInv
  OBVIOUS
<1>1. \A q \in Queue : lower_queue[q] = <<>>
  BY DEF Init
<1>2. lower_queue["WQ"] = <<>> /\ lower_queue["RQ"] = <<>> /\ lower_queue["PQ"] = <<>>
  BY <1>1 DEF Queue
<1> QED BY <1>2 DEF Init, MissInv, Awaited, Answers, Addresses, AwaitedOnce, NoRepeat,
           AddressOnce

LEMMA NextMiss ==
  ASSUME Inv, MissInv, [Next]_vars
  PROVE  MissInv'
<1>1. TypeOK
  BY DEF Inv
<1>2. CASE FinishPacket
  BY <1>1, <1>2, FinishPacketMiss
<1>3. CASE \E w \in Way \cup {NUM_WAY + 1}, lines \in HookCalls : HandleFill(w, lines)
  BY <1>1, <1>3, HandleFillMiss
<1>4. CASE MergeIntoMSHR
  BY <1>4, MergeIntoMSHRMiss
<1>5. CASE ForwardMiss
  BY <1>5, ForwardMissMiss
<1>6. CASE Downstream
  BY <1>1, <1>6, LowerAcceptMiss, LowerRespondMiss DEF Downstream
<1>7. CASE \/ BeginOperate \/ FinishReturns \/ FinishFills
           \/ InitiateTagCheck \/ NextQueue \/ InitiatePrefetch \/ FinishInitiate
           \/ FinishHits \/ HandleWrite \/ MergeIntoFill \/ HandleMissFails
           \/ \E w \in Way : HandleFillFails(w)
           \/ \E w \in Way, lines \in HookCalls : TryHit(w, lines)
           \/ \E lines \in HookCalls : TryHitMisses(lines)
           \/ \E lines \in HookCalls : FinishOperate(lines)
           \/ Upstream \/ BeginPhase \/ UNCHANGED vars
  <2>1. UNCHANGED <<lower, MSHR>>
    BY <1>7 DEF BeginOperate, FinishReturns, FinishFills, InitiateTagCheck, NextQueue,
       InitiatePrefetch, FinishInitiate, FinishHits, HandleWrite, MergeIntoFill,
       HandleMissFails, HandleFillFails, TryHit, TryHitMisses, FinishOperate, Upstream,
       UpperRequest, UpperFinishPacket, BeginPhase, Done, vars, cacheVars, lower
  <2> QED BY <2>1, OtherMiss
<1> QED BY <1>2, <1>3, <1>4, <1>5, <1>6, <1>7 DEF Next, Operate

(* Every MSHR entry has exactly one request below, and conversely. *)
THEOREM MissInvHolds == Spec => [](Inv /\ MissInv)
<1>1. Init => Inv /\ MissInv
  BY InitInv, InitMiss
<1>2. (Inv /\ MissInv) /\ [Next]_vars => (Inv /\ MissInv)'
  BY NextInv, NextMiss
<1> QED BY <1>1, <1>2, PTL DEF Spec

(* cache.cc:612: the assertion of finish_packet never fails, every response *)
(* finds its MSHR entry.                                                    *)
THEOREM NoOrphan == Spec => []NoOrphanResponse
<1>1. MissInv => NoOrphanResponse
  BY DEF MissInv, NoOrphanResponse
<1> QED BY <1>1, MissInvHolds, PTL

(* cache.cc:317-374: what handle_miss puts in the MSHR is asked for below,  *)
(* until its answer comes.                                                  *)
THEOREM NoMissForgotten == Spec => []NoForgottenMiss
<1>1. MissInv => NoForgottenMiss
  BY DEF MissInv, NoForgottenMiss
<1> QED BY <1>1, MissInvHolds, PTL

--------------------------------------------------------------------------------
(* Refinement: towards the lower level the cache is a client of MemoryPort. *)

(* What a step means for the port, by what it does to the MSHR and responses. *)
LEMMA PortAsk ==
  ASSUME NEW b \in Block, b \notin Addresses(MSHR),
         Addresses(MSHR)' = Addresses(MSHR) \cup {b},
         UNCHANGED lower_returned
  PROVE  LowerPort!Next
<1>1. LowerPort!Ask(Lower, b)
  BY DEF LowerPort!Ask
<1> QED BY <1>1 DEF LowerPort!Next

LEMMA PortAnswer ==
  ASSUME NEW b \in Block, b \in Addresses(MSHR), b \notin Answers(lower_returned),
         Addresses(MSHR)' = Addresses(MSHR),
         lower_returned' = Append(lower_returned, b)
  PROVE  LowerPort!Next
<1>1. ~LowerPort!IsAnswered(Lower, b)
  BY DEF LowerPort!IsAnswered, Answers
<1>2. LowerPort!Answer({Lower}, b)
  BY <1>1 DEF LowerPort!Answer
<1> QED BY <1>2 DEF LowerPort!Next

LEMMA PortRead ==
  ASSUME lower_returned # <<>>,
         Addresses(MSHR)' = Addresses(MSHR) \ {Head(lower_returned)},
         lower_returned' = Tail(lower_returned)
  PROVE  LowerPort!Next
<1>1. LowerPort!Read(Lower)
  BY DEF LowerPort!Read
<1> QED BY <1>1 DEF LowerPort!Next

LEMMA PortStutter ==
  ASSUME Addresses(MSHR)' = Addresses(MSHR), UNCHANGED lower_returned
  PROVE  UNCHANGED LowerPort!vars
BY DEF LowerPort!vars

LEMMA PortStep ==
  ASSUME Inv, MissInv, [Next]_vars
  PROVE  [LowerPort!Next]_(LowerPort!vars)
<1>1. CASE FinishPacket
  <2> PICK m \in DOMAIN MSHR :
        /\ FirstMatch(MSHR, Head(lower_returned), m)
        /\ MSHR' = SwapPop(MSHR, m)
    BY <1>1 DEF FinishPacket
  <2>1. m \in 1 .. Len(MSHR) /\ MSHR \in Seq(Fill) /\ MSHR[m].addr = Head(lower_returned)
    BY DEF Inv, TypeOK, FirstMatch
  <2>2. Addresses(MSHR') = Addresses(MSHR) \ {Head(lower_returned)}
    BY <2>1, AddressesSwapPop DEF MissInv
  <2>3. lower_returned # <<>> /\ lower_returned' = Tail(lower_returned)
    BY <1>1 DEF FinishPacket
  <2> QED BY <2>2, <2>3, PortRead DEF Addresses
<1>2. CASE MergeIntoMSHR
  <2>1. Addresses(MSHR)' = Addresses(MSHR) /\ lower_returned' = lower_returned
    BY <1>2, MergeKeepsAddresses DEF MergeIntoMSHR, Done
  <2> QED BY <2>1, PortStutter
<1>3. CASE ForwardMiss
  <2> DEFINE pkt == inflight_tag_check[scan]
             fwd == ForwardPacket(pkt)
  <2>1. pkt \in TagCheck
    BY <1>3, Scanned DEF ForwardMiss
  <2>2. /\ MSHR' = Allocated(pkt, fwd) /\ NoMatch(MSHR, pkt.addr)
        /\ lower_returned' = lower_returned
    BY <1>3 DEF ForwardMiss, NewMiss, Done
  <2>3. pkt.addr \in Block /\ pkt.addr \notin Addresses(MSHR)
    <3> HIDE DEF pkt
    <3> QED BY <2>1, <2>2 DEF TagCheck, NoMatch, Addresses
  <2>4. CASE fwd.response_requested
    <3>1. MSHR' = Append(MSHR, FillType(pkt, 0))
      BY <2>2, <2>4 DEF Allocated
    <3>2. FillType(pkt, 0) \in Fill /\ FillType(pkt, 0).addr = pkt.addr
      BY <2>1, FillTypeType
    <3> HIDE DEF pkt, fwd
    <3>3. Addresses(MSHR') = Addresses(MSHR) \cup {pkt.addr}
      BY <3>1, <3>2, AddressesAppend DEF Inv, TypeOK
    <3>4. Addresses(MSHR)' = Addresses(MSHR) \cup {pkt.addr}
      BY <3>3 DEF Addresses
    <3> QED BY <2>2, <2>3, <3>4, PortAsk
  <2>5. CASE ~fwd.response_requested
    <3>1. MSHR' = MSHR
      BY <2>2, <2>5 DEF Allocated
    <3> QED BY <2>2, <3>1, PortStutter DEF Addresses
  <2> QED BY <2>4, <2>5
<1>4. CASE \E b \in Block : LowerRespond(b)
  <2> PICK b \in Block : LowerRespond(b)
    BY <1>4
  <2>1. /\ MSHR' = MSHR /\ b \in lower_taken
        /\ lower_returned' = Append(lower_returned, b)
    BY DEF LowerRespond, cacheVars
  <2>2. b \in Addresses(MSHR) /\ b \notin Answers(lower_returned)
    BY <2>1 DEF MissInv
  <2>3. Addresses(MSHR)' = Addresses(MSHR)
    BY <2>1 DEF Addresses
  <2> QED BY <2>1, <2>2, <2>3, PortAnswer
<1>5. CASE \/ BeginOperate \/ FinishReturns \/ FinishFills
           \/ InitiateTagCheck \/ NextQueue \/ InitiatePrefetch \/ FinishInitiate
           \/ FinishHits \/ HandleWrite \/ MergeIntoFill \/ HandleMissFails
           \/ \E w \in Way \cup {NUM_WAY + 1}, lines \in HookCalls : HandleFill(w, lines)
           \/ \E w \in Way : HandleFillFails(w)
           \/ \E w \in Way, lines \in HookCalls : TryHit(w, lines)
           \/ \E lines \in HookCalls : TryHitMisses(lines)
           \/ \E lines \in HookCalls : FinishOperate(lines)
           \/ \E q \in Queue : LowerAccept(q)
           \/ Upstream \/ BeginPhase \/ UNCHANGED vars
  <2>1. UNCHANGED <<lower_returned, MSHR>>
    BY <1>5 DEF BeginOperate, FinishReturns, FinishFills, InitiateTagCheck, NextQueue,
       InitiatePrefetch, FinishInitiate, FinishHits, HandleWrite, MergeIntoFill,
       HandleMissFails, HandleFill, HandleFillFails, TryHit, TryHitMisses, FinishOperate,
       LowerAccept, Upstream, UpperRequest, UpperFinishPacket, BeginPhase, Done, vars,
       cacheVars, lower
  <2> QED BY <2>1, PortStutter DEF Addresses
<1> QED BY <1>1, <1>2, <1>3, <1>4, <1>5 DEF Next, Operate, Downstream

(* cache.cc:317-374 and 606-628 keep the contract of the lower channel: no   *)
(* block is asked for twice, every answer is to an outstanding request.     *)
THEOREM LowerPortRefined == Spec => AsksOnce
<1>1. Init => LowerPort!Init
  BY DEF Init, LowerPort!Init, Addresses
<1>2. Inv /\ MissInv /\ [Next]_vars => [LowerPort!Next]_(LowerPort!vars)
  BY PortStep
<1> QED BY <1>1, <1>2, MissInvHolds, PTL DEF Spec, AsksOnce, LowerPort!Spec

--------------------------------------------------------------------------------
(* What the containers of the cache hold, entry by entry *)

(* t has the entries of s but the i-th, in some order. *)
Drops(s, i, t) ==
  \E from \in [DOMAIN t -> DOMAIN s \ {i}] :
    /\ \A j, k \in DOMAIN t : from[j] = from[k] => j = k
    /\ \A k \in DOMAIN s \ {i} : \E j \in DOMAIN t : from[j] = k
    /\ \A j \in DOMAIN t : t[j] = s[from[j]]

LEMMA WithoutDrops ==
  ASSUME NEW S, NEW s \in Seq(S), NEW i \in 1 .. Len(s)
  PROVE  Drops(s, i, Without(s, i))
<1> DEFINE t    == Without(s, i)
           from == [j \in 1 .. Len(s) - 1 |-> IF j < i THEN j ELSE j + 1]
<1>1. /\ Len(s) \in Nat \ {0} /\ DOMAIN s = 1 .. Len(s) /\ DOMAIN t = 1 .. Len(s) - 1
      /\ \A j \in DOMAIN t : t[j] = IF j < i THEN s[j] ELSE s[j + 1]
  BY DEF Without
<1>2. /\ from \in [DOMAIN t -> DOMAIN s \ {i}]
      /\ \A j, k \in DOMAIN t : from[j] = from[k] => j = k
      /\ \A j \in DOMAIN t : t[j] = s[from[j]]
  BY <1>1
<1>3. ASSUME NEW k \in DOMAIN s \ {i}
      PROVE  \E j \in DOMAIN t : from[j] = k
  <2>1. CASE k < i
    <3>1. k \in DOMAIN t /\ from[k] = k
      BY <1>1, <2>1
    <3> QED BY <3>1
  <2>2. CASE k > i
    <3>1. k - 1 \in DOMAIN t /\ from[k - 1] = k
      BY <1>1, <2>2
    <3> QED BY <3>1
  <2> QED BY <1>1, <2>1, <2>2
<1> HIDE DEF t, from
<1>4. Drops(s, i, t)
  BY <1>2, <1>3 DEF Drops
<1> QED BY <1>4 DEF t

LEMMA SwapPopDrops ==
  ASSUME NEW S, NEW s \in Seq(S), NEW i \in 1 .. Len(s)
  PROVE  Drops(s, i, SwapPop(s, i))
<1> DEFINE t    == SwapPop(s, i)
           from == [j \in 1 .. Len(s) - 1 |-> IF j + 1 = i THEN 1 ELSE j + 1]
<1>1. /\ Len(s) \in Nat \ {0} /\ DOMAIN s = 1 .. Len(s) /\ DOMAIN t = 1 .. Len(s) - 1
      /\ \A j \in DOMAIN t : t[j] = IF j + 1 = i THEN s[1] ELSE s[j + 1]
  BY DEF SwapPop
<1>2. /\ from \in [DOMAIN t -> DOMAIN s \ {i}]
      /\ \A j, k \in DOMAIN t : from[j] = from[k] => j = k
      /\ \A j \in DOMAIN t : t[j] = s[from[j]]
  BY <1>1
<1>3. ASSUME NEW k \in DOMAIN s \ {i}
      PROVE  \E j \in DOMAIN t : from[j] = k
  <2>1. CASE k = 1
    <3>1. i - 1 \in DOMAIN t /\ from[i - 1] = k
      BY <1>1, <2>1
    <3> QED BY <3>1
  <2>2. CASE k # 1
    <3>1. k - 1 \in DOMAIN t /\ from[k - 1] = k
      BY <1>1, <2>2
    <3> QED BY <3>1
  <2> QED BY <2>1, <2>2
<1> HIDE DEF t, from
<1>4. Drops(s, i, t)
  BY <1>2, <1>3 DEF Drops
<1> QED BY <1>4 DEF t

LEMMA TailDrops ==
  ASSUME NEW S, NEW s \in Seq(S), s # <<>>
  PROVE  Drops(s, 1, Tail(s)) /\ 1 \in DOMAIN s /\ Head(s) = s[1]
<1> DEFINE t    == Tail(s)
           from == [j \in DOMAIN t |-> j + 1]
<1>1. /\ Len(s) \in Nat \ {0} /\ DOMAIN s = 1 .. Len(s)
      /\ DOMAIN t = 1 .. Len(s) - 1
      /\ \A i \in DOMAIN t : i + 1 \in DOMAIN s /\ t[i] = s[i + 1]
      /\ Head(s) = s[1] /\ 1 \in DOMAIN s
      /\ \A i \in DOMAIN s : i # 1 => i - 1 \in DOMAIN t /\ t[i - 1] = s[i]
  BY TailElements
<1> HIDE DEF t
<1>2. /\ from \in [DOMAIN t -> DOMAIN s \ {1}]
      /\ \A j, k \in DOMAIN t : from[j] = from[k] => j = k
      /\ \A j \in DOMAIN t : t[j] = s[from[j]]
  BY <1>1
<1>3. ASSUME NEW k \in DOMAIN s \ {1}
      PROVE  \E j \in DOMAIN t : from[j] = k
  <2>1. k - 1 \in DOMAIN t /\ from[k - 1] = k
    BY <1>1
  <2> QED BY <2>1
<1> HIDE DEF from
<1>4. Drops(s, 1, t)
  BY <1>2, <1>3 DEF Drops
<1> QED BY <1>1, <1>4 DEF t

(* The blocks the entries of s hold for upper channel u, each held once. *)
HeldFor(s, u) == {s[i].addr : i \in {j \in DOMAIN s : u \in s[j].to_return}}
HeldOnce(s, u) ==
  \A i, j \in DOMAIN s :
    u \in s[i].to_return /\ u \in s[j].to_return /\ s[i].addr = s[j].addr => i = j
HeldBy(e, u) == IF u \in e.to_return THEN {e.addr} ELSE {}

LEMMA HeldAppend ==
  ASSUME NEW S, NEW s \in Seq(S), NEW e \in S, NEW u
  PROVE  /\ HeldFor(Append(s, e), u) = HeldFor(s, u) \cup HeldBy(e, u)
         /\ HeldOnce(s, u) /\ HeldBy(e, u) \cap HeldFor(s, u) = {}
              => HeldOnce(Append(s, e), u)
<1> DEFINE t == Append(s, e)
<1>1. /\ Len(s) \in Nat /\ DOMAIN s = 1 .. Len(s) /\ DOMAIN t = 1 .. Len(s) + 1
      /\ \A i \in DOMAIN s : i \in DOMAIN t /\ t[i] = s[i]
      /\ \A i \in DOMAIN t : i \in DOMAIN s \/ i = Len(s) + 1
      /\ Len(s) + 1 \in DOMAIN t /\ t[Len(s) + 1] = e
  OBVIOUS
<1> HIDE DEF t
<1>2. HeldFor(t, u) = HeldFor(s, u) \cup HeldBy(e, u)
  BY <1>1 DEF HeldFor, HeldBy
<1>3. HeldOnce(s, u) /\ HeldBy(e, u) \cap HeldFor(s, u) = {} => HeldOnce(t, u)
  BY <1>1 DEF HeldOnce, HeldFor, HeldBy
<1> QED BY <1>2, <1>3 DEF t

LEMMA HeldDrops ==
  ASSUME NEW s, NEW i \in DOMAIN s, NEW t, Drops(s, i, t), NEW u, HeldOnce(s, u)
  PROVE  /\ HeldFor(t, u) = HeldFor(s, u) \ HeldBy(s[i], u)
         /\ HeldBy(s[i], u) \subseteq HeldFor(s, u)
         /\ HeldOnce(t, u)
<1> PICK from \in [DOMAIN t -> DOMAIN s \ {i}] :
      /\ \A j, k \in DOMAIN t : from[j] = from[k] => j = k
      /\ \A k \in DOMAIN s \ {i} : \E j \in DOMAIN t : from[j] = k
      /\ \A j \in DOMAIN t : t[j] = s[from[j]]
  BY DEF Drops
<1>1. \A j \in DOMAIN t : from[j] \in DOMAIN s /\ from[j] # i /\ t[j] = s[from[j]]
  OBVIOUS
<1>2. HeldBy(s[i], u) \subseteq HeldFor(s, u)
  BY DEF HeldBy, HeldFor
<1>3. HeldOnce(t, u)
  BY <1>1 DEF HeldOnce
<1>4. ASSUME NEW b \in HeldFor(t, u)
      PROVE  b \in HeldFor(s, u) /\ b \notin HeldBy(s[i], u)
  BY <1>1 DEF HeldFor, HeldOnce, HeldBy
<1>5. ASSUME NEW b \in HeldFor(s, u), b \notin HeldBy(s[i], u)
      PROVE  b \in HeldFor(t, u)
  <2> PICK k \in DOMAIN s : u \in s[k].to_return /\ s[k].addr = b
    BY DEF HeldFor
  <2>1. k # i
    BY <1>5 DEF HeldBy
  <2> PICK j \in DOMAIN t : from[j] = k
    BY <2>1
  <2> QED BY DEF HeldFor
<1> QED BY <1>2, <1>3, <1>4, <1>5

(* What HeldFor looks at: the addresses and the waiting channels. *)
SameWaits(s, t) ==
  /\ DOMAIN t = DOMAIN s
  /\ \A i \in DOMAIN s : t[i].addr = s[i].addr /\ t[i].to_return = s[i].to_return

LEMMA HeldSame ==
  ASSUME NEW s, NEW t, SameWaits(s, t), NEW u
  PROVE  HeldFor(t, u) = HeldFor(s, u) /\ (HeldOnce(s, u) => HeldOnce(t, u))
BY DEF SameWaits, HeldFor, HeldOnce

(* Entry m takes over the channels that wait in e for the same block. *)
Joins(s, m, e, t) ==
  /\ DOMAIN t = DOMAIN s
  /\ \A i \in DOMAIN s : t[i].addr = s[i].addr
  /\ \A i \in DOMAIN s : i # m => t[i].to_return = s[i].to_return
  /\ t[m].to_return = s[m].to_return \cup e.to_return
  /\ e.addr = s[m].addr

LEMMA HeldJoins ==
  ASSUME NEW s, NEW m \in DOMAIN s, NEW e, NEW t, Joins(s, m, e, t), NEW u
  PROVE  /\ HeldFor(t, u) = HeldFor(s, u) \cup HeldBy(e, u)
         /\ HeldOnce(s, u) /\ HeldBy(e, u) \cap HeldFor(s, u) = {} => HeldOnce(t, u)
<1>1. \A b \in HeldFor(t, u) : b \in HeldFor(s, u) \cup HeldBy(e, u)
  BY DEF Joins, HeldFor, HeldBy
<1>2. \A b \in HeldFor(s, u) : b \in HeldFor(t, u)
  BY DEF Joins, HeldFor
<1>3. \A b \in HeldBy(e, u) : b \in HeldFor(t, u)
  BY DEF Joins, HeldFor, HeldBy
<1>4. HeldOnce(s, u) /\ HeldBy(e, u) \cap HeldFor(s, u) = {} => HeldOnce(t, u)
  BY DEF Joins, HeldOnce, HeldFor, HeldBy
<1> QED BY <1>1, <1>2, <1>3, <1>4

--------------------------------------------------------------------------------
(* Where the request of an upper channel is *)

Place == Queue \cup {"returned", "tags", "MSHR", "fills"}

(* The blocks of channel u in each place its request passes through. *)
Places(qs, ret, tags, mshr, fills, u) ==
  [k \in Place |-> IF k = "returned" THEN Answers(ret)
                   ELSE IF k = "tags" THEN HeldFor(tags, u)
                   ELSE IF k = "MSHR" THEN HeldFor(mshr, u)
                   ELSE IF k = "fills" THEN HeldFor(fills, u)
                   ELSE Awaited(qs[k])]

Partition(A, f) ==
  /\ A = UNION {f[k] : k \in Place}
  /\ \A k, l \in Place : k # l => f[k] \cap f[l] = {}

(* Each block u waits for is in exactly one place, and there only once. *)
WaitsOnce(A, qs, ret, tags, mshr, fills, u) ==
  /\ Partition(A, Places(qs, ret, tags, mshr, fills, u))
  /\ \A q \in Queue : AwaitedOnce(qs[q])
  /\ NoRepeat(ret)
  /\ HeldOnce(tags, u) /\ HeldOnce(mshr, u) /\ HeldOnce(fills, u)

LEMMA PlacesAt ==
  ASSUME NEW qs, NEW ret, NEW tags, NEW mshr, NEW fills, NEW u
  PROVE  LET f == Places(qs, ret, tags, mshr, fills, u)
         IN  /\ \A q \in Queue : f[q] = Awaited(qs[q])
             /\ f["returned"] = Answers(ret)
             /\ f["tags"] = HeldFor(tags, u)
             /\ f["MSHR"] = HeldFor(mshr, u)
             /\ f["fills"] = HeldFor(fills, u)
BY DEF Places, Place, Queue

(* D moves from place k to place l. *)
Moving(f, g, k, l, D) ==
  /\ k # l /\ D \subseteq f[k]
  /\ g[k] = f[k] \ D /\ g[l] = f[l] \cup D
  /\ \A m \in Place \ {k, l} : g[m] = f[m]

LEMMA Moves ==
  ASSUME NEW A, NEW f, NEW g, NEW k \in Place, NEW l \in Place, NEW D,
         Partition(A, f), Moving(f, g, k, l, D)
  PROVE  Partition(A, g)
<1> USE DEF Moving
<1>1. \A m \in Place : \A b : b \in g[m] => b \in A
  BY DEF Partition
<1>2. ASSUME NEW b \in A
      PROVE  \E m \in Place : b \in g[m]
  <2> PICK m \in Place : b \in f[m]
    BY DEF Partition
  <2>1. CASE b \in D
    BY <2>1
  <2>2. CASE b \notin D /\ m \in {k, l}
    BY <2>2
  <2>3. CASE m \notin {k, l}
    BY <2>3
  <2> QED BY <2>1, <2>2, <2>3
<1>3. A = UNION {g[m] : m \in Place}
  BY <1>1, <1>2
<1>4. \A m \in Place : m # k => D \cap f[m] = {}
  BY DEF Partition
<1>5. ASSUME NEW m \in Place, NEW n \in Place, m # n
      PROVE  g[m] \cap g[n] = {}
  <2>0. f[m] \cap f[n] = {}
    BY <1>5 DEF Partition
  <2>1. CASE m = k /\ n = l
    BY <2>0, <2>1
  <2>2. CASE m = l /\ n = k
    BY <2>0, <2>2
  <2>3. CASE m \notin {k, l} /\ n \notin {k, l}
    BY <2>0, <2>3
  <2>4. CASE m \notin {k, l} /\ n \in {k, l}
    BY <1>4, <2>0, <2>4
  <2>5. CASE m \in {k, l} /\ n \notin {k, l}
    BY <1>4, <2>0, <2>5
  <2> QED BY <1>5, <2>1, <2>2, <2>3, <2>4, <2>5
<1> QED BY <1>3, <1>5 DEF Partition

(* D is new, and enters place l. *)
Entering(A, f, g, l, D) ==
  /\ Partition(A, f) /\ \A b \in D : b \notin A
  /\ g[l] = f[l] \cup D /\ \A m \in Place \ {l} : g[m] = f[m]

LEMMA Enters ==
  ASSUME NEW A, NEW f, NEW g, NEW l \in Place, NEW D, Entering(A, f, g, l, D)
  PROVE  Partition(A \cup D, g)
<1> USE DEF Entering
<1>1. \A m \in Place : f[m] \subseteq A
  BY DEF Partition
<1>2. A \cup D = UNION {g[m] : m \in Place}
  <2>1. \A m \in Place : g[m] \subseteq A \cup D
    BY <1>1
  <2>2. ASSUME NEW b \in A PROVE \E m \in Place : b \in g[m]
    BY DEF Partition
  <2>3. ASSUME NEW b \in D PROVE \E m \in Place : b \in g[m]
    OBVIOUS
  <2> QED BY <2>1, <2>2, <2>3
<1>3. ASSUME NEW m \in Place, NEW n \in Place, m # n
      PROVE  g[m] \cap g[n] = {}
  <2>0. f[m] \cap f[n] = {} /\ f[m] \cap D = {} /\ f[n] \cap D = {}
    BY <1>1, <1>3 DEF Partition
  <2>1. CASE m = l
    BY <1>3, <2>0, <2>1
  <2>2. CASE n = l
    BY <1>3, <2>0, <2>2
  <2>3. CASE m # l /\ n # l
    BY <2>0, <2>3
  <2> QED BY <2>1, <2>2, <2>3
<1> QED BY <1>2, <1>3 DEF Partition

LEMMA Leaves ==
  ASSUME NEW A, NEW f, NEW g, NEW k \in Place, NEW D, Partition(A, f), D \subseteq f[k],
         g[k] = f[k] \ D, \A m \in Place \ {k} : g[m] = f[m]
  PROVE  Partition(A \ D, g)
<1>1. \A m \in Place : f[m] \subseteq A /\ (m # k => f[m] \cap D = {})
  BY DEF Partition
<1>2. A \ D = UNION {g[m] : m \in Place}
  <2>1. \A m \in Place : g[m] \subseteq A \ D
    BY <1>1
  <2>2. ASSUME NEW b \in A \ D PROVE \E m \in Place : b \in g[m]
    <3> PICK m \in Place : b \in f[m]
      BY DEF Partition
    <3> QED BY <1>1
  <2> QED BY <2>1, <2>2
<1>3. ASSUME NEW m \in Place, NEW n \in Place, m # n
      PROVE  g[m] \cap g[n] = {}
  <2>0. f[m] \cap f[n] = {} /\ g[m] \subseteq f[m] /\ g[n] \subseteq f[n]
    BY <1>3 DEF Partition
  <2> QED BY <2>0
<1> QED BY <1>2, <1>3 DEF Partition

(* What is in one place of a partition is in no other. *)
LEMMA Apart ==
  ASSUME NEW A, NEW f, NEW k \in Place, NEW l \in Place, k # l, Partition(A, f)
  PROVE  f[k] \cap f[l] = {} /\ f[k] \subseteq A
BY DEF Partition

(* From an upper queue to the tag checks, for the channel of the queue. *)
LEMMA TokenLookedUp ==
  ASSUME NEW A, NEW qs \in [Queue -> Seq(Request)], NEW ret, NEW tags \in Seq(TagCheck),
         NEW mshr, NEW fills, NEW u, WaitsOnce(A, qs, ret, tags, mshr, fills, u),
         NEW q \in Queue, qs[q] # <<>>, NEW e \in TagCheck,
         e.addr = Head(qs[q]).addr, u \in e.to_return <=> Head(qs[q]).response_requested
  PROVE  WaitsOnce(A, [qs EXCEPT ![q] = Tail(@)], ret, Append(tags, e), mshr, fills, u)
<1> DEFINE s  == qs[q]
           rs == [qs EXCEPT ![q] = Tail(@)]
           ts == Append(tags, e)
           f  == Places(qs, ret, tags, mshr, fills, u)
           g  == Places(rs, ret, ts, mshr, fills, u)
           D  == HeldBy(e, u)
<1>1. s \in Seq(Request) /\ s # <<>> /\ AwaitedOnce(s)
  BY DEF WaitsOnce
<1>2. D = IF Head(s).response_requested THEN {Head(s).addr} ELSE {}
  BY DEF HeldBy
<1>3. rs[q] = Tail(s) /\ \A r \in Queue \ {q} : rs[r] = qs[r]
  OBVIOUS
<1>4. /\ \A r \in Queue : f[r] = Awaited(qs[r]) /\ g[r] = Awaited(rs[r])
      /\ f["tags"] = HeldFor(tags, u) /\ g["tags"] = HeldFor(ts, u)
      /\ \A k \in {"returned", "MSHR", "fills"} : g[k] = f[k]
  BY DEF Places, Place, Queue
<1>5. Partition(A, f) /\ HeldOnce(tags, u) /\ \A r \in Queue : AwaitedOnce(qs[r])
  BY DEF WaitsOnce
<1>6. /\ HeldFor(ts, u) = HeldFor(tags, u) \cup D
      /\ D \cap HeldFor(tags, u) = {} => HeldOnce(ts, u)
  BY <1>5, HeldAppend
<1> HIDE DEF s, rs, ts, f, g, D
<1>7. /\ AwaitedOnce(Tail(s)) /\ Awaited(Tail(s)) = Awaited(s) \ D
      /\ D \subseteq Awaited(s)
  BY <1>1, <1>2, AwaitedTail
<1>8. Awaited(s) = f[q]
  BY <1>4 DEF s
<1>9. q \in Place /\ "tags" \in Place /\ q # "tags"
  BY DEF Place, Queue
<1>10. D \cap f["tags"] = {}
  <2>1. f[q] \cap f["tags"] = {}
    BY <1>5, <1>9, Apart
  <2> QED BY <1>7, <1>8, <2>1
<1>11. \A m \in Place \ {q, "tags"} : g[m] = f[m]
  BY <1>3, <1>4 DEF Place
<1>12. Partition(A, g)
  <2>1. g[q] = f[q] \ D /\ g["tags"] = f["tags"] \cup D /\ D \subseteq f[q]
    BY <1>3, <1>4, <1>6, <1>7, <1>8
  <2>2. Moving(f, g, q, "tags", D)
    BY <1>9, <1>11, <2>1 DEF Moving
  <2> QED BY <1>5, <1>9, <2>2, Moves
<1>13. HeldOnce(ts, u) /\ \A r \in Queue : AwaitedOnce(rs[r])
  BY <1>3, <1>4, <1>5, <1>6, <1>7, <1>10
<1> QED BY <1>12, <1>13 DEF WaitsOnce, g, rs, ts

(* A place whose content does not change for u. *)
LEMMA TokenStays ==
  ASSUME NEW A, NEW qs, NEW ret, NEW tags, NEW mshr, NEW fills, NEW u,
         WaitsOnce(A, qs, ret, tags, mshr, fills, u),
         NEW ts, HeldFor(ts, u) = HeldFor(tags, u), HeldOnce(ts, u),
         NEW ms, HeldFor(ms, u) = HeldFor(mshr, u), HeldOnce(ms, u),
         NEW fs, HeldFor(fs, u) = HeldFor(fills, u), HeldOnce(fs, u)
  PROVE  WaitsOnce(A, qs, ret, ts, ms, fs, u)
<1>1. Places(qs, ret, ts, ms, fs, u) = Places(qs, ret, tags, mshr, fills, u)
  BY DEF Places
<1> QED BY <1>1 DEF WaitsOnce

(* A new request in an upper queue of u. *)
LEMMA TokenEnters ==
  ASSUME NEW A, NEW qs \in [Queue -> Seq(Request)], NEW ret, NEW tags,
         NEW mshr, NEW fills, NEW u, WaitsOnce(A, qs, ret, tags, mshr, fills, u),
         NEW q \in Queue, NEW req \in Request, req.response_requested => req.addr \notin A
  PROVE  WaitsOnce(A \cup (IF req.response_requested THEN {req.addr} ELSE {}),
                   [qs EXCEPT ![q] = Append(@, req)], ret, tags, mshr, fills, u)
<1> DEFINE s  == qs[q]
           rs == [qs EXCEPT ![q] = Append(@, req)]
           f  == Places(qs, ret, tags, mshr, fills, u)
           g  == Places(rs, ret, tags, mshr, fills, u)
           D  == IF req.response_requested THEN {req.addr} ELSE {}
<1>1. s \in Seq(Request) /\ AwaitedOnce(s)
  BY DEF WaitsOnce
<1>2. rs[q] = Append(s, req) /\ \A r \in Queue \ {q} : rs[r] = qs[r]
  OBVIOUS
<1>3. /\ \A r \in Queue : f[r] = Awaited(qs[r]) /\ g[r] = Awaited(rs[r])
      /\ \A k \in {"returned", "tags", "MSHR", "fills"} : g[k] = f[k]
  BY SMTT(30) DEF Places, Place, Queue
<1>4. Partition(A, f) /\ \A r \in Queue : AwaitedOnce(qs[r])
  BY DEF WaitsOnce
<1>5. D \cap A = {} /\ q \in Place /\ f[q] = Awaited(s)
  BY <1>3 DEF Place
<1>6. f[q] \subseteq A
  <2>1. "tags" \in Place /\ q # "tags"
    BY DEF Place, Queue
  <2> HIDE DEF f
  <2> QED BY <1>4, <1>5, <2>1, Apart
<1>7. Awaited(Append(s, req)) = Awaited(s) \cup D /\ AwaitedOnce(Append(s, req))
  <2>1. req.response_requested => req.addr \notin Awaited(s)
    BY <1>5, <1>6
  <2> HIDE DEF s
  <2> QED BY <1>1, <2>1, AwaitedAppend
<1> HIDE DEF s, rs, f, g, D
<1>8. g[q] = f[q] \cup D /\ \A m \in Place \ {q} : g[m] = f[m]
  <2>1. g[q] = f[q] \cup D
    BY <1>2, <1>3, <1>5, <1>7
  <2>2. ASSUME NEW m \in Place \ {q}
        PROVE  g[m] = f[m]
    <3>1. CASE m \in Queue
      BY <1>2, <1>3, <3>1
    <3>2. CASE m \in {"returned", "tags", "MSHR", "fills"}
      BY <1>3, <3>2
    <3> QED BY <3>1, <3>2 DEF Place
  <2> QED BY <2>1, <2>2
<1>9. Partition(A \cup D, g)
  <2>1. Partition(A, f) /\ q \in Place
    BY <1>4, <1>5
  <2>2. \A b \in D : b \notin A
    BY <1>5
  <2>3. g[q] = f[q] \cup D
    BY <1>8
  <2>4. \A m \in Place \ {q} : g[m] = f[m]
    BY <1>8
  <2>5. Entering(A, f, g, q, D)
    BY <2>1, <2>2, <2>3, <2>4 DEF Entering
  <2> QED BY <2>1, <2>5, Enters
<1>10. \A r \in Queue : AwaitedOnce(rs[r])
  BY <1>2, <1>4, <1>7
<1> QED BY <1>9, <1>10 DEF WaitsOnce, g, rs, D

(* The oldest answer is read. *)
LEMMA TokenRead ==
  ASSUME NEW A, NEW qs, NEW ret \in Seq(Block), ret # <<>>, NEW tags,
         NEW mshr, NEW fills, NEW u, WaitsOnce(A, qs, ret, tags, mshr, fills, u)
  PROVE  WaitsOnce(A \ {Head(ret)}, qs, Tail(ret), tags, mshr, fills, u)
<1> DEFINE f  == Places(qs, ret, tags, mshr, fills, u)
           g  == Places(qs, Tail(ret), tags, mshr, fills, u)
<1>1. /\ Head(ret) \in Answers(ret)
      /\ Answers(Tail(ret)) = Answers(ret) \ {Head(ret)}
      /\ NoRepeat(Tail(ret))
  BY AnswersTail DEF WaitsOnce
<1>2. f["returned"] = Answers(ret) /\ g["returned"] = Answers(Tail(ret))
      /\ \A k \in Queue \cup {"tags", "MSHR", "fills"} : g[k] = f[k]
  BY SMTT(30) DEF Places, Place, Queue
<1>3. Partition(A, f) /\ "returned" \in Place
  BY DEF WaitsOnce, Place
<1>4. \A m \in Place \ {"returned"} : g[m] = f[m]
  BY <1>2 DEF Place
<1> HIDE DEF f, g
<1>5. Partition(A \ {Head(ret)}, g)
  <2> DEFINE D == {Head(ret)}
  <2>1. D \subseteq f["returned"] /\ g["returned"] = f["returned"] \ D
    BY <1>1, <1>2
  <2>2. Partition(A, f) /\ "returned" \in Place
    BY <1>3
  <2> HIDE DEF D
  <2>3. Partition(A \ D, g)
    BY <1>4, <2>1, <2>2, Leaves
  <2> QED BY <2>3 DEF D
<1> QED BY <1>1, <1>5 DEF WaitsOnce, g

Inner == {"returned", "tags", "MSHR", "fills"}

(* D moves between two places inside the cache. *)
Shifting(f, g, k, l, D) ==
  /\ k \in Inner /\ l \in Inner /\ k # l /\ D \subseteq f[k]
  /\ g[k] = f[k] \ D /\ g[l] = f[l] \cup D
  /\ \A m \in Inner \ {k, l} : g[m] = f[m]

(* The upper queues do not change then. *)
LEMMA TokenMoves ==
  ASSUME NEW A, NEW qs, NEW ret, NEW tags, NEW mshr, NEW fills, NEW u,
         WaitsOnce(A, qs, ret, tags, mshr, fills, u),
         NEW rt, NEW ts, NEW ms, NEW fs, NEW f, NEW g,
         f = Places(qs, ret, tags, mshr, fills, u), g = Places(qs, rt, ts, ms, fs, u),
         NEW k, NEW l, NEW D, Shifting(f, g, k, l, D),
         NoRepeat(rt), HeldOnce(ts, u), HeldOnce(ms, u), HeldOnce(fs, u)
  PROVE  WaitsOnce(A, qs, rt, ts, ms, fs, u)
<1>1. \A q \in Queue : g[q] = f[q]
  BY SMTT(30) DEF Places, Place, Queue
<1>2. Place = Queue \cup Inner
  BY DEF Place, Inner
<1>3. Moving(f, g, k, l, D)
  BY <1>1, <1>2 DEF Moving, Shifting
<1>4. Partition(A, f) /\ k \in Place /\ l \in Place
  BY <1>2 DEF WaitsOnce, Shifting
<1>5. Partition(A, g)
  BY <1>3, <1>4, Moves
<1>6. Partition(A, Places(qs, rt, ts, ms, fs, u))
  BY <1>5, Zenon
<1> QED BY <1>6 DEF WaitsOnce

(* t is s with the waiting of e for u added. *)
Receives(s, e, t, u) ==
  /\ HeldFor(t, u) = HeldFor(s, u) \cup HeldBy(e, u)
  /\ HeldOnce(s, u) /\ HeldBy(e, u) \cap HeldFor(s, u) = {} => HeldOnce(t, u)

LEMMA AppendReceives ==
  ASSUME NEW S, NEW s \in Seq(S), NEW x \in S, NEW e, NEW u,
         x.addr = e.addr, x.to_return = e.to_return
  PROVE  Receives(s, e, Append(s, x), u)
<1>1. HeldBy(x, u) = HeldBy(e, u)
  BY DEF HeldBy
<1> QED BY <1>1, HeldAppend DEF Receives

LEMMA JoinReceives ==
  ASSUME NEW s, NEW m \in DOMAIN s, NEW e, NEW t, Joins(s, m, e, t), NEW u
  PROVE  Receives(s, e, t, u)
BY HeldJoins DEF Receives

LEMMA TagsToMSHR ==
  ASSUME NEW A, NEW qs, NEW ret, NEW tags, NEW mshr, NEW fills, NEW u,
         WaitsOnce(A, qs, ret, tags, mshr, fills, u),
         NEW i \in DOMAIN tags, NEW ts, Drops(tags, i, ts),
         NEW ms, Receives(mshr, tags[i], ms, u)
  PROVE  WaitsOnce(A, qs, ret, ts, ms, fills, u)
<1> DEFINE f == Places(qs, ret, tags, mshr, fills, u)
           g == Places(qs, ret, ts, ms, fills, u)
           D == HeldBy(tags[i], u)
<1>1. /\ HeldFor(ts, u) = HeldFor(tags, u) \ D
      /\ D \subseteq HeldFor(tags, u)
      /\ HeldOnce(ts, u)
  BY HeldDrops DEF WaitsOnce
<1>2. /\ f["tags"] = HeldFor(tags, u) /\ g["tags"] = HeldFor(ts, u)
      /\ f["MSHR"] = HeldFor(mshr, u) /\ g["MSHR"] = HeldFor(ms, u)
      /\ g["returned"] = f["returned"] /\ g["fills"] = f["fills"]
  BY SMTT(30) DEF Places, Place, Queue
<1>3. HeldFor(tags, u) \cap HeldFor(mshr, u) = {}
  <2>1. Partition(A, f) /\ "tags" \in Place /\ "MSHR" \in Place
    BY DEF WaitsOnce, Place
  <2> HIDE DEF f
  <2>2. f["tags"] \cap f["MSHR"] = {} /\ f["tags"] \subseteq A
    BY <2>1, Apart
  <2> QED BY <1>2, <2>2
<1>4. HeldFor(ms, u) = HeldFor(mshr, u) \cup D /\ HeldOnce(ms, u)
  BY <1>1, <1>3 DEF Receives, WaitsOnce
<1>5. NoRepeat(ret) /\ HeldOnce(fills, u)
  BY DEF WaitsOnce
<1>6. f = Places(qs, ret, tags, mshr, fills, u) /\ g = Places(qs, ret, ts, ms, fills, u)
  OBVIOUS
<1> HIDE DEF f, g, D
<1>7. Shifting(f, g, "tags", "MSHR", D)
  BY <1>1, <1>2, <1>4 DEF Inner, Shifting
<1> QED BY <1>1, <1>4, <1>5, <1>6, <1>7, TokenMoves

LEMMA TagsToFills ==
  ASSUME NEW A, NEW qs, NEW ret, NEW tags, NEW mshr, NEW fills, NEW u,
         WaitsOnce(A, qs, ret, tags, mshr, fills, u),
         NEW i \in DOMAIN tags, NEW ts, Drops(tags, i, ts),
         NEW fs, Receives(fills, tags[i], fs, u)
  PROVE  WaitsOnce(A, qs, ret, ts, mshr, fs, u)
<1> DEFINE f == Places(qs, ret, tags, mshr, fills, u)
           g == Places(qs, ret, ts, mshr, fs, u)
           D == HeldBy(tags[i], u)
<1>1. /\ HeldFor(ts, u) = HeldFor(tags, u) \ D
      /\ D \subseteq HeldFor(tags, u)
      /\ HeldOnce(ts, u)
  BY HeldDrops DEF WaitsOnce
<1>2. /\ f["tags"] = HeldFor(tags, u) /\ g["tags"] = HeldFor(ts, u)
      /\ f["fills"] = HeldFor(fills, u) /\ g["fills"] = HeldFor(fs, u)
      /\ g["returned"] = f["returned"] /\ g["MSHR"] = f["MSHR"]
  BY SMTT(30) DEF Places, Place, Queue
<1>3. HeldFor(tags, u) \cap HeldFor(fills, u) = {}
  <2>1. Partition(A, f) /\ "tags" \in Place /\ "fills" \in Place
    BY DEF WaitsOnce, Place
  <2> HIDE DEF f
  <2>2. f["tags"] \cap f["fills"] = {} /\ f["tags"] \subseteq A
    BY <2>1, Apart
  <2> QED BY <1>2, <2>2
<1>4. HeldFor(fs, u) = HeldFor(fills, u) \cup D /\ HeldOnce(fs, u)
  BY <1>1, <1>3 DEF Receives, WaitsOnce
<1>5. NoRepeat(ret) /\ HeldOnce(mshr, u)
  BY DEF WaitsOnce
<1>6. f = Places(qs, ret, tags, mshr, fills, u) /\ g = Places(qs, ret, ts, mshr, fs, u)
  OBVIOUS
<1> HIDE DEF f, g, D
<1>7. Shifting(f, g, "tags", "fills", D)
  BY <1>1, <1>2, <1>4 DEF Inner, Shifting
<1> QED BY <1>1, <1>4, <1>5, <1>6, <1>7, TokenMoves

LEMMA MSHRToFills ==
  ASSUME NEW A, NEW qs, NEW ret, NEW tags, NEW mshr, NEW fills, NEW u,
         WaitsOnce(A, qs, ret, tags, mshr, fills, u),
         NEW i \in DOMAIN mshr, NEW ms, Drops(mshr, i, ms),
         NEW fs, Receives(fills, mshr[i], fs, u)
  PROVE  WaitsOnce(A, qs, ret, tags, ms, fs, u)
<1> DEFINE f == Places(qs, ret, tags, mshr, fills, u)
           g == Places(qs, ret, tags, ms, fs, u)
           D == HeldBy(mshr[i], u)
<1>1. /\ HeldFor(ms, u) = HeldFor(mshr, u) \ D
      /\ D \subseteq HeldFor(mshr, u)
      /\ HeldOnce(ms, u)
  BY HeldDrops DEF WaitsOnce
<1>2. /\ f["MSHR"] = HeldFor(mshr, u) /\ g["MSHR"] = HeldFor(ms, u)
      /\ f["fills"] = HeldFor(fills, u) /\ g["fills"] = HeldFor(fs, u)
      /\ g["returned"] = f["returned"] /\ g["tags"] = f["tags"]
  BY SMTT(30) DEF Places, Place, Queue
<1>3. HeldFor(mshr, u) \cap HeldFor(fills, u) = {}
  <2>1. Partition(A, f) /\ "MSHR" \in Place /\ "fills" \in Place
    BY DEF WaitsOnce, Place
  <2> HIDE DEF f
  <2>2. f["MSHR"] \cap f["fills"] = {} /\ f["MSHR"] \subseteq A
    BY <2>1, Apart
  <2> QED BY <1>2, <2>2
<1>4. HeldFor(fs, u) = HeldFor(fills, u) \cup D /\ HeldOnce(fs, u)
  BY <1>1, <1>3 DEF Receives, WaitsOnce
<1>5. NoRepeat(ret) /\ HeldOnce(tags, u)
  BY DEF WaitsOnce
<1>6. f = Places(qs, ret, tags, mshr, fills, u) /\ g = Places(qs, ret, tags, ms, fs, u)
  OBVIOUS
<1> HIDE DEF f, g, D
<1>7. Shifting(f, g, "MSHR", "fills", D)
  BY <1>1, <1>2, <1>4 DEF Inner, Shifting
<1> QED BY <1>1, <1>4, <1>5, <1>6, <1>7, TokenMoves

(* The answer pushed to u if u waits in e. *)
Answered(ret, e, u) == IF u \in e.to_return THEN Append(ret, e.addr) ELSE ret

LEMMA AnsweredFacts ==
  ASSUME NEW ret \in Seq(Block), NEW e, e.addr \in Block, NEW u
  PROVE  /\ Answers(Answered(ret, e, u)) = Answers(ret) \cup HeldBy(e, u)
         /\ NoRepeat(ret) /\ HeldBy(e, u) \cap Answers(ret) = {} => NoRepeat(Answered(ret, e, u))
BY AnswersAppend DEF Answered, HeldBy

LEMMA TagsToReturned ==
  ASSUME NEW A, NEW qs, NEW ret \in Seq(Block), NEW tags, NEW mshr, NEW fills, NEW u,
         WaitsOnce(A, qs, ret, tags, mshr, fills, u),
         NEW i \in DOMAIN tags, NEW ts, Drops(tags, i, ts), tags[i].addr \in Block
  PROVE  WaitsOnce(A, qs, Answered(ret, tags[i], u), ts, mshr, fills, u)
<1> DEFINE rt == Answered(ret, tags[i], u)
           f == Places(qs, ret, tags, mshr, fills, u)
           g == Places(qs, rt, ts, mshr, fills, u)
           D == HeldBy(tags[i], u)
<1>1. /\ HeldFor(ts, u) = HeldFor(tags, u) \ D
      /\ D \subseteq HeldFor(tags, u)
      /\ HeldOnce(ts, u)
  BY HeldDrops DEF WaitsOnce
<1>2. /\ f["tags"] = HeldFor(tags, u) /\ g["tags"] = HeldFor(ts, u)
      /\ f["returned"] = Answers(ret) /\ g["returned"] = Answers(rt)
      /\ g["fills"] = f["fills"] /\ g["MSHR"] = f["MSHR"]
  BY SMTT(30) DEF Places, Place, Queue
<1>3. HeldFor(tags, u) \cap Answers(ret) = {}
  <2>1. Partition(A, f) /\ "tags" \in Place /\ "returned" \in Place
    BY DEF WaitsOnce, Place
  <2> HIDE DEF f
  <2>2. f["tags"] \cap f["returned"] = {} /\ f["tags"] \subseteq A
    BY <2>1, Apart
  <2> QED BY <1>2, <2>2
<1>4. Answers(rt) = Answers(ret) \cup D /\ NoRepeat(rt)
  BY <1>1, <1>3, AnsweredFacts DEF WaitsOnce
<1>5. HeldOnce(fills, u) /\ HeldOnce(mshr, u)
  BY DEF WaitsOnce
<1>6. f = Places(qs, ret, tags, mshr, fills, u) /\ g = Places(qs, rt, ts, mshr, fills, u)
  OBVIOUS
<1> HIDE DEF rt, f, g, D
<1>7. Shifting(f, g, "tags", "returned", D)
  BY <1>1, <1>2, <1>4 DEF Inner, Shifting
<1>8. WaitsOnce(A, qs, rt, ts, mshr, fills, u)
  BY <1>1, <1>4, <1>5, <1>6, <1>7, TokenMoves
<1> QED BY <1>8 DEF rt

LEMMA FillsToReturned ==
  ASSUME NEW A, NEW qs, NEW ret \in Seq(Block), NEW tags, NEW mshr, NEW fills, NEW u,
         WaitsOnce(A, qs, ret, tags, mshr, fills, u),
         NEW i \in DOMAIN fills, NEW fs, Drops(fills, i, fs), fills[i].addr \in Block
  PROVE  /\ WaitsOnce(A, qs, Answered(ret, fills[i], u), tags, mshr, fs, u)
         /\ HeldBy(fills[i], u) \cap Answers(ret) = {}
         /\ HeldBy(fills[i], u) \subseteq A
<1> DEFINE rt == Answered(ret, fills[i], u)
           f == Places(qs, ret, tags, mshr, fills, u)
           g == Places(qs, rt, tags, mshr, fs, u)
           D == HeldBy(fills[i], u)
<1>1. /\ HeldFor(fs, u) = HeldFor(fills, u) \ D
      /\ D \subseteq HeldFor(fills, u)
      /\ HeldOnce(fs, u)
  BY HeldDrops DEF WaitsOnce
<1>2. /\ f["fills"] = HeldFor(fills, u) /\ g["fills"] = HeldFor(fs, u)
      /\ f["returned"] = Answers(ret) /\ g["returned"] = Answers(rt)
      /\ g["tags"] = f["tags"] /\ g["MSHR"] = f["MSHR"]
  BY SMTT(30) DEF Places, Place, Queue
<1>3. HeldFor(fills, u) \cap Answers(ret) = {} /\ HeldFor(fills, u) \subseteq A
  <2>1. Partition(A, f) /\ "fills" \in Place /\ "returned" \in Place
    BY DEF WaitsOnce, Place
  <2> HIDE DEF f
  <2>2. f["fills"] \cap f["returned"] = {} /\ f["fills"] \subseteq A
    BY <2>1, Apart
  <2> QED BY <1>2, <2>2
<1>4. Answers(rt) = Answers(ret) \cup D /\ NoRepeat(rt)
  BY <1>1, <1>3, AnsweredFacts DEF WaitsOnce
<1>5. HeldOnce(tags, u) /\ HeldOnce(mshr, u)
  BY DEF WaitsOnce
<1>6. f = Places(qs, ret, tags, mshr, fills, u) /\ g = Places(qs, rt, tags, mshr, fs, u)
  OBVIOUS
<1> HIDE DEF rt, f, g
<1>8. D \cap Answers(ret) = {} /\ D \subseteq A
  BY <1>1, <1>3
<1> HIDE DEF D
<1>7. Shifting(f, g, "fills", "returned", D)
  BY <1>1, <1>2, <1>4 DEF Inner, Shifting
<1>9. WaitsOnce(A, qs, rt, tags, mshr, fs, u)
  BY <1>1, <1>4, <1>5, <1>6, <1>7, TokenMoves
<1> QED BY <1>8, <1>9 DEF D, rt

--------------------------------------------------------------------------------
(* Every block a cache above waits for is in exactly one place of this cache *)

AskedOnce(u) ==
  WaitsOnce(asked[u], upper_queue[u], returned[u], inflight_tag_check, MSHR,
            inflight_fills, u)

(* A prefetch of this cache answers nobody. *)
IsLocal(e) == e.prefetch_from_this = TRUE /\ e.type = "PREFETCH" /\ e.to_return = {}
LocalOnly(s) == \A i \in DOMAIN s : IsLocal(s[i])
LocalKnown(s) == \A i \in DOMAIN s : s[i].prefetch_from_this = TRUE => IsLocal(s[i])

AskInv ==
  /\ \A u \in Upper : AskedOnce(u)
  /\ LocalOnly(internal_PQ)
  /\ LocalKnown(inflight_tag_check)

LEMMA LocalPQ ==
  ASSUME Inv, LocalOnly(internal_PQ), NEW lines \in HookCalls, PrefetchLines(lines)
  PROVE  LocalOnly(internal_PQ')
<1> DEFINE added == [i \in 1 .. Accepted(lines) |-> LocalPrefetch(lines[i])]
<1>1. internal_PQ' = internal_PQ \o added
  BY DEF PrefetchLines
<1>2. Accepted(lines) \in Nat
  BY PrefetchLinesType DEF Inv
<1>3. \A i \in DOMAIN added : IsLocal(added[i])
  BY DEF IsLocal, LocalPrefetch
<1>4. added \in Seq({added[i] : i \in 1 .. Accepted(lines)})
  BY <1>2
<1>5. internal_PQ \in Seq(TagCheck) /\ Len(internal_PQ) \in Nat /\ Len(added) \in Nat
      /\ DOMAIN internal_PQ = 1 .. Len(internal_PQ) /\ DOMAIN added = 1 .. Len(added)
  BY <1>2 DEF Inv, TypeOK
<1> HIDE DEF added
<1>6. /\ DOMAIN internal_PQ' = 1 .. Len(internal_PQ) + Len(added)
      /\ \A i \in DOMAIN internal_PQ' :
           \/ i \in DOMAIN internal_PQ /\ internal_PQ'[i] = internal_PQ[i]
           \/ i - Len(internal_PQ) \in DOMAIN added
              /\ internal_PQ'[i] = added[i - Len(internal_PQ)]
  BY <1>1, <1>5
<1> QED BY <1>3, <1>6 DEF LocalOnly

LEMMA LocalTail ==
  ASSUME Inv, LocalOnly(internal_PQ), internal_PQ # <<>>
  PROVE  LocalOnly(Tail(internal_PQ)) /\ IsLocal(Head(internal_PQ))
<1>1. internal_PQ \in Seq(TagCheck)
  BY DEF Inv, TypeOK
<1> QED BY <1>1, TailElements DEF LocalOnly

LEMMA LocalAppend ==
  ASSUME NEW s \in Seq(TagCheck), LocalKnown(s), NEW e \in TagCheck,
         e.prefetch_from_this = TRUE => IsLocal(e)
  PROVE  LocalKnown(Append(s, e))
<1> DEFINE t == Append(s, e)
<1>1. \A i \in DOMAIN t : (i \in DOMAIN s /\ t[i] = s[i]) \/ t[i] = e
  OBVIOUS
<1> HIDE DEF t
<1>2. LocalKnown(t)
  BY <1>1 DEF LocalKnown
<1> QED BY <1>2 DEF t

LEMMA LocalDrops ==
  ASSUME NEW s, NEW i, NEW t, Drops(s, i, t), LocalKnown(s)
  PROVE  LocalKnown(t)
BY DEF Drops, LocalKnown

(* What AskInv depends on. *)
askVars == <<upper_queue, asked, returned, internal_PQ, inflight_tag_check, MSHR,
             inflight_fills>>

LEMMA AskStutter ==
  ASSUME AskInv, UNCHANGED askVars
  PROVE  AskInv'
BY DEF AskInv, AskedOnce, askVars

LEMMA InitAsk == Init => AskInv
<1> SUFFICES ASSUME Init PROVE AskInv
  OBVIOUS
<1>1. ASSUME NEW u \in Upper PROVE AskedOnce(u)
  <2> DEFINE f == Places(upper_queue[u], returned[u], inflight_tag_check, MSHR,
                         inflight_fills, u)
  <2>1. /\ \A q \in Queue : Awaited(upper_queue[u][q]) = {} /\ AwaitedOnce(upper_queue[u][q])
        /\ Answers(returned[u]) = {} /\ NoRepeat(returned[u])
        /\ HeldFor(inflight_tag_check, u) = {} /\ HeldOnce(inflight_tag_check, u)
        /\ HeldFor(MSHR, u) = {} /\ HeldOnce(MSHR, u)
        /\ HeldFor(inflight_fills, u) = {} /\ HeldOnce(inflight_fills, u)
        /\ asked[u] = {}
    BY DEF Init, Awaited, AwaitedOnce, Answers, NoRepeat, HeldFor, HeldOnce
  <2>2. \A k \in Place : f[k] = {}
    BY <2>1 DEF Places, Place
  <2> HIDE DEF f
  <2>3. Partition(asked[u], f)
    BY <2>1, <2>2 DEF Partition
  <2> QED BY <2>1, <2>3 DEF AskedOnce, WaitsOnce, f
<1>2. LocalOnly(internal_PQ) /\ LocalKnown(inflight_tag_check)
  BY DEF Init, LocalOnly, LocalKnown
<1> QED BY <1>1, <1>2 DEF AskInv

LEMMA UpperRequestAsk ==
  ASSUME Inv, AskInv, NEW v \in Upper, NEW kind \in RequestKinds, NEW b \in Block,
         UpperRequest(v, kind, b)
  PROVE  AskInv'
<1> DEFINE req == [addr |-> b, type |-> kind.type,
                   response_requested |-> kind.response_requested]
           q   == kind.queue
           D   == IF req.response_requested THEN {req.addr} ELSE {}
<1>1. req \in Request /\ q \in Queue
  BY CacheAssumption DEF Request
<1>2. /\ upper_queue' = [upper_queue EXCEPT ![v][q] = Append(@, req)]
      /\ UNCHANGED <<returned, internal_PQ, inflight_tag_check, MSHR, inflight_fills>>
  BY DEF UpperRequest, cacheVars
<1>3. asked'[v] = asked[v] \cup D /\ \A u \in Upper : u # v => asked'[u] = asked[u]
  BY DEF UpperRequest, Inv, TypeOK
<1>4. req.response_requested => req.addr \notin asked[v]
  BY DEF UpperRequest
<1>5. upper_queue \in [Upper -> [Queue -> Seq(Request)]]
  BY DEF Inv, TypeOK
<1> HIDE DEF req, q
<1>6. /\ upper_queue[v] \in [Queue -> Seq(Request)]
      /\ upper_queue'[v] = [upper_queue[v] EXCEPT ![q] = Append(@, req)]
      /\ \A u \in Upper : u # v => upper_queue'[u] = upper_queue[u]
  BY <1>1, <1>2, <1>5
<1>7. AskedOnce(v)'
  <2>1. WaitsOnce(asked[v], upper_queue[v], returned[v], inflight_tag_check, MSHR,
                  inflight_fills, v)
    BY DEF AskInv, AskedOnce
  <2>2. WaitsOnce(asked[v] \cup D, [upper_queue[v] EXCEPT ![q] = Append(@, req)],
                  returned[v], inflight_tag_check, MSHR, inflight_fills, v)
    BY <1>1, <1>4, <1>6, <2>1, TokenEnters
  <2> HIDE DEF D
  <2> QED BY <1>2, <1>3, <1>6, <2>2 DEF AskedOnce
<1>8. ASSUME NEW u \in Upper, u # v PROVE AskedOnce(u)'
  BY <1>2, <1>3, <1>6, <1>8 DEF AskInv, AskedOnce
<1> QED BY <1>2, <1>7, <1>8 DEF AskInv

LEMMA UpperFinishPacketAsk ==
  ASSUME Inv, AskInv, NEW v \in Upper, UpperFinishPacket(v)
  PROVE  AskInv'
<1>1. /\ returned[v] \in Seq(Block) /\ returned[v] # <<>>
      /\ returned'[v] = Tail(returned[v])
      /\ asked'[v] = asked[v] \ {Head(returned[v])}
      /\ \A u \in Upper : u # v => asked'[u] = asked[u] /\ returned'[u] = returned[u]
      /\ UNCHANGED <<upper_queue, internal_PQ, inflight_tag_check, MSHR, inflight_fills>>
  BY DEF UpperFinishPacket, cacheVars, Inv, TypeOK
<1>2. AskedOnce(v)'
  <2>1. WaitsOnce(asked[v], upper_queue[v], returned[v], inflight_tag_check, MSHR,
                  inflight_fills, v)
    BY DEF AskInv, AskedOnce
  <2>2. WaitsOnce(asked[v] \ {Head(returned[v])}, upper_queue[v], Tail(returned[v]),
                  inflight_tag_check, MSHR, inflight_fills, v)
    BY <1>1, <2>1, TokenRead
  <2> QED BY <1>1, <2>2 DEF AskedOnce
<1>3. ASSUME NEW u \in Upper, u # v PROVE AskedOnce(u)'
  BY <1>1, <1>3 DEF AskInv, AskedOnce
<1> QED BY <1>1, <1>2, <1>3 DEF AskInv

LEMMA BeginOperateAsk ==
  ASSUME Inv, AskInv, BeginOperate
  PROVE  AskInv'
<1>1. /\ inflight_tag_check' = Tick(inflight_tag_check)
      /\ inflight_fills' = Tick(inflight_fills)
      /\ UNCHANGED <<upper_queue, asked, returned, internal_PQ, MSHR>>
  BY DEF BeginOperate, upper
<1>2. ASSUME NEW S, NEW s \in Seq(S), S \in {TagCheck, Fill}
      PROVE  /\ SameWaits(s, Tick(s))
             /\ \A i \in DOMAIN s : Tick(s)[i].prefetch_from_this = s[i].prefetch_from_this
                                    /\ Tick(s)[i].type = s[i].type
  <2>1. \A e \in S : /\ TickEntry(e).addr = e.addr /\ TickEntry(e).to_return = e.to_return
                     /\ TickEntry(e).prefetch_from_this = e.prefetch_from_this
                     /\ TickEntry(e).type = e.type
    BY <1>2 DEF TickEntry, TagCheck, Fill
  <2>2. \A i \in DOMAIN s : s[i] \in S
    OBVIOUS
  <2> QED BY <2>1, <2>2 DEF SameWaits, Tick
<1>3. /\ SameWaits(inflight_tag_check, inflight_tag_check')
      /\ \A i \in DOMAIN inflight_tag_check :
           /\ inflight_tag_check'[i].prefetch_from_this = inflight_tag_check[i].prefetch_from_this
           /\ inflight_tag_check'[i].type = inflight_tag_check[i].type
      /\ SameWaits(inflight_fills, inflight_fills')
  BY <1>1, <1>2 DEF Inv, TypeOK
<1>4. ASSUME NEW u \in Upper PROVE AskedOnce(u)'
  <2>1. WaitsOnce(asked[u], upper_queue[u], returned[u], inflight_tag_check, MSHR,
                  inflight_fills, u)
    BY DEF AskInv, AskedOnce
  <2>2. /\ HeldFor(inflight_tag_check', u) = HeldFor(inflight_tag_check, u)
        /\ HeldOnce(inflight_tag_check', u)
        /\ HeldFor(inflight_fills', u) = HeldFor(inflight_fills, u)
        /\ HeldOnce(inflight_fills', u) /\ HeldOnce(MSHR, u)
    BY <1>3, <2>1, HeldSame DEF WaitsOnce
  <2>3. WaitsOnce(asked[u], upper_queue[u], returned[u], inflight_tag_check', MSHR,
                  inflight_fills', u)
    BY <2>1, <2>2, TokenStays
  <2> QED BY <1>1, <2>3 DEF AskedOnce
<1>5. LocalKnown(inflight_tag_check')
  BY <1>3 DEF AskInv, LocalKnown, IsLocal, SameWaits
<1> QED BY <1>1, <1>4, <1>5 DEF AskInv

LEMMA FinishPacketAsk ==
  ASSUME Inv, AskInv, FinishPacket
  PROVE  AskInv'
<1> PICK m \in DOMAIN MSHR :
      /\ inflight_fills' =
           Append(inflight_fills, [MSHR[m] EXCEPT !.wait = Latency(FILL_LATENCY)])
      /\ MSHR' = SwapPop(MSHR, m)
  BY DEF FinishPacket
<1> DEFINE x == [MSHR[m] EXCEPT !.wait = Latency(FILL_LATENCY)]
<1>1. /\ m \in 1 .. Len(MSHR) /\ MSHR \in Seq(Fill) /\ MSHR[m] \in Fill
      /\ inflight_fills \in Seq(Fill)
  BY DEF Inv, TypeOK
<1>2. x \in Fill /\ x.addr = MSHR[m].addr /\ x.to_return = MSHR[m].to_return
  BY <1>1, LatencyType, CacheAssumption DEF Inv, Fill
<1>3. UNCHANGED <<upper_queue, asked, returned, internal_PQ, inflight_tag_check>>
  BY DEF FinishPacket, upper
<1>4. inflight_fills' = Append(inflight_fills, x)
  OBVIOUS
<1> HIDE DEF x
<1>5. Drops(MSHR, m, MSHR')
  BY <1>1, SwapPopDrops
<1>6. ASSUME NEW u \in Upper PROVE AskedOnce(u)'
  <2>1. WaitsOnce(asked[u], upper_queue[u], returned[u], inflight_tag_check, MSHR,
                  inflight_fills, u)
    BY DEF AskInv, AskedOnce
  <2>2. Receives(inflight_fills, MSHR[m], inflight_fills', u)
    BY <1>1, <1>2, <1>4, AppendReceives
  <2>3. WaitsOnce(asked[u], upper_queue[u], returned[u], inflight_tag_check, MSHR',
                  inflight_fills', u)
    BY <1>5, <2>1, <2>2, MSHRToFills
  <2> QED BY <1>3, <2>3 DEF AskedOnce
<1> QED BY <1>3, <1>6 DEF AskInv

(* What the answers of one step look like to one upper channel. *)
LEMMA RespondAt ==
  ASSUME TypeOK, NEW e, Respond(e.to_return, e.addr), NEW u \in Upper
  PROVE  returned'[u] = Answered(returned[u], e, u)
BY DEF Respond, Answered

LEMMA HandleFillAsk ==
  ASSUME Inv, AskInv, NEW w, NEW lines \in HookCalls, HandleFill(w, lines)
  PROVE  AskInv'
<1> DEFINE fill == Head(inflight_fills)
<1>1. /\ fill \in Fill /\ fill.addr \in Block /\ inflight_fills \in Seq(Fill)
      /\ inflight_fills # <<>> /\ inflight_fills' = Tail(inflight_fills)
      /\ PrefetchLines(lines) /\ Respond(fill.to_return, fill.addr)
      /\ UNCHANGED <<upper_queue, asked, inflight_tag_check, MSHR>>
  BY HeadFill DEF HandleFill, FillReady, upper, Inv, TypeOK
<1>2. /\ Drops(inflight_fills, 1, inflight_fills')
      /\ 1 \in DOMAIN inflight_fills /\ fill = inflight_fills[1]
  BY <1>1, TailDrops
<1> HIDE DEF fill
<1>3. ASSUME NEW u \in Upper PROVE AskedOnce(u)'
  <2>1. WaitsOnce(asked[u], upper_queue[u], returned[u], inflight_tag_check, MSHR,
                  inflight_fills, u)
    BY DEF AskInv, AskedOnce
  <2>2. returned[u] \in Seq(Block) /\ returned'[u] = Answered(returned[u], fill, u)
    BY <1>1, RespondAt DEF Inv, TypeOK
  <2>3. WaitsOnce(asked[u], upper_queue[u], Answered(returned[u], fill, u),
                  inflight_tag_check, MSHR, inflight_fills', u)
    BY <1>1, <1>2, <2>1, <2>2, FillsToReturned
  <2> QED BY <1>1, <2>2, <2>3 DEF AskedOnce
<1>4. LocalOnly(internal_PQ')
  BY <1>1, LocalPQ DEF AskInv
<1> QED BY <1>1, <1>3, <1>4 DEF AskInv

LEMMA InitiateTagCheckAsk ==
  ASSUME Inv, AskInv, InitiateTagCheck
  PROVE  AskInv'
<1>0. Head(todo)[1] \in Upper /\ Head(todo)[2] \in Queue
  <2>1. Head(todo) \in Upper \X Queue
    BY TailProperties DEF InitiateTagCheck, Inv, TypeOK
  <2> QED BY <2>1
<1> PICK v \in Upper, q \in Queue : v = Head(todo)[1] /\ q = Head(todo)[2]
  BY <1>0
<1> DEFINE req == Head(upper_queue[v][q])
           e   == TagLookup(req, ToReturn(req, v))
<1>1. v \in Upper /\ q \in Queue
  OBVIOUS
<1>2. /\ upper_queue[v][q] # <<>>
      /\ inflight_tag_check' = Append(inflight_tag_check, e)
      /\ upper_queue' = [upper_queue EXCEPT ![v][q] = Tail(@)]
      /\ UNCHANGED <<asked, returned, internal_PQ, MSHR, inflight_fills>>
  BY DEF InitiateTagCheck
<1>3. upper_queue[v] \in [Queue -> Seq(Request)] /\ inflight_tag_check \in Seq(TagCheck)
  BY <1>1 DEF Inv, TypeOK
<1>4. req \in Request
  <2>1. upper_queue[v][q] \in Seq(Request)
    BY <1>1, <1>3
  <2> QED BY <1>2, <2>1, TailProperties
<1>5. /\ e \in TagCheck /\ e.addr = req.addr /\ e.prefetch_from_this = FALSE
      /\ e.to_return = IF req.response_requested THEN {v} ELSE {}
  <2>1. ToReturn(req, v) \in SUBSET Upper
    BY <1>1 DEF ToReturn
  <2>2. Latency(HIT_LATENCY) \in Nat
    BY LatencyType, CacheAssumption DEF Inv
  <2> HIDE DEF req
  <2> QED BY <1>4, <2>1, <2>2 DEF TagLookup, TagCheck, Request, ToReturn
<1>6. /\ upper_queue'[v] = [upper_queue[v] EXCEPT ![q] = Tail(@)]
      /\ \A u \in Upper : u # v => upper_queue'[u] = upper_queue[u]
  BY <1>1, <1>2 DEF Inv, TypeOK
<1> HIDE DEF e
<1>7. AskedOnce(v)'
  <2>1. WaitsOnce(asked[v], upper_queue[v], returned[v], inflight_tag_check, MSHR,
                  inflight_fills, v)
    BY <1>1 DEF AskInv, AskedOnce
  <2>2. v \in e.to_return <=> Head(upper_queue[v][q]).response_requested
    BY <1>5
  <2>3. e.addr = Head(upper_queue[v][q]).addr
    BY <1>5
  <2>4. WaitsOnce(asked[v], [upper_queue[v] EXCEPT ![q] = Tail(@)], returned[v],
                  Append(inflight_tag_check, e), MSHR, inflight_fills, v)
    BY <1>1, <1>2, <1>3, <1>5, <2>1, <2>2, <2>3, TokenLookedUp
  <2> QED BY <1>2, <1>6, <2>4 DEF AskedOnce
<1>8. ASSUME NEW u \in Upper, u # v PROVE AskedOnce(u)'
  <2>1. WaitsOnce(asked[u], upper_queue[u], returned[u], inflight_tag_check, MSHR,
                  inflight_fills, u)
    BY DEF AskInv, AskedOnce
  <2>2. HeldBy(e, u) = {}
    BY <1>5, <1>8 DEF HeldBy
  <2>3. /\ HeldFor(inflight_tag_check', u) = HeldFor(inflight_tag_check, u)
        /\ HeldOnce(inflight_tag_check', u)
        /\ HeldOnce(MSHR, u) /\ HeldOnce(inflight_fills, u)
    <3>1. HeldOnce(inflight_tag_check, u) /\ HeldOnce(MSHR, u) /\ HeldOnce(inflight_fills, u)
      BY <2>1 DEF WaitsOnce
    <3>2. /\ HeldFor(inflight_tag_check', u) = HeldFor(inflight_tag_check, u) \cup HeldBy(e, u)
          /\ HeldOnce(inflight_tag_check, u)
               /\ HeldBy(e, u) \cap HeldFor(inflight_tag_check, u) = {}
                 => HeldOnce(inflight_tag_check', u)
      BY <1>2, <1>3, <1>5, HeldAppend
    <3> QED BY <2>2, <3>1, <3>2
  <2>4. WaitsOnce(asked[u], upper_queue[u], returned[u], inflight_tag_check', MSHR,
                  inflight_fills, u)
    BY <2>1, <2>3, TokenStays
  <2> QED BY <1>2, <1>6, <1>8, <2>4 DEF AskedOnce
<1>9. LocalKnown(inflight_tag_check')
  BY <1>2, <1>3, <1>5, LocalAppend DEF AskInv
<1> QED BY <1>2, <1>7, <1>8, <1>9 DEF AskInv

LEMMA InitiatePrefetchAsk ==
  ASSUME Inv, AskInv, InitiatePrefetch
  PROVE  AskInv'
<1> DEFINE e == [Head(internal_PQ) EXCEPT !.wait = Latency(HIT_LATENCY)]
<1>1. /\ inflight_tag_check' = Append(inflight_tag_check, e)
      /\ internal_PQ # <<>> /\ internal_PQ' = Tail(internal_PQ)
      /\ UNCHANGED <<upper_queue, asked, returned, MSHR, inflight_fills>>
  BY DEF InitiatePrefetch, upper
<1>2. /\ Head(internal_PQ) \in TagCheck /\ inflight_tag_check \in Seq(TagCheck)
      /\ LocalOnly(Tail(internal_PQ)) /\ IsLocal(Head(internal_PQ))
  BY <1>1, TailProperties, LocalTail DEF AskInv, Inv, TypeOK
<1>3. e \in TagCheck /\ IsLocal(e)
  <2>1. Latency(HIT_LATENCY) \in Nat
    BY LatencyType, CacheAssumption DEF Inv
  <2> QED BY <1>2, <2>1 DEF TagCheck, IsLocal
<1> HIDE DEF e
<1>4. ASSUME NEW u \in Upper PROVE AskedOnce(u)'
  <2>1. WaitsOnce(asked[u], upper_queue[u], returned[u], inflight_tag_check, MSHR,
                  inflight_fills, u)
    BY DEF AskInv, AskedOnce
  <2>2. HeldBy(e, u) = {}
    BY <1>3 DEF HeldBy, IsLocal
  <2>3. /\ HeldFor(inflight_tag_check', u) = HeldFor(inflight_tag_check, u)
        /\ HeldOnce(inflight_tag_check', u)
        /\ HeldOnce(MSHR, u) /\ HeldOnce(inflight_fills, u)
    <3>1. HeldOnce(inflight_tag_check, u) /\ HeldOnce(MSHR, u) /\ HeldOnce(inflight_fills, u)
      BY <2>1 DEF WaitsOnce
    <3>2. /\ HeldFor(inflight_tag_check', u) = HeldFor(inflight_tag_check, u) \cup HeldBy(e, u)
          /\ HeldOnce(inflight_tag_check, u)
               /\ HeldBy(e, u) \cap HeldFor(inflight_tag_check, u) = {}
                 => HeldOnce(inflight_tag_check', u)
      BY <1>1, <1>2, <1>3, HeldAppend
    <3> QED BY <2>2, <3>1, <3>2
  <2>4. WaitsOnce(asked[u], upper_queue[u], returned[u], inflight_tag_check', MSHR,
                  inflight_fills, u)
    BY <2>1, <2>3, TokenStays
  <2> QED BY <1>1, <2>4 DEF AskedOnce
<1>5. LocalKnown(inflight_tag_check')
  BY <1>1, <1>2, <1>3, LocalAppend DEF AskInv
<1> QED BY <1>1, <1>2, <1>4, <1>5 DEF AskInv

(* The tag check under examination leaves inflight_tag_check. *)
LEMMA ScannedDrops ==
  ASSUME Inv, TagReady \/ MissTurn
  PROVE  /\ scan \in DOMAIN inflight_tag_check
         /\ inflight_tag_check[scan] \in TagCheck /\ inflight_tag_check[scan].addr \in Block
         /\ Drops(inflight_tag_check, scan, Without(inflight_tag_check, scan))
<1>1. /\ scan \in 1 .. Len(inflight_tag_check) /\ inflight_tag_check[scan] \in TagCheck
      /\ inflight_tag_check \in Seq(TagCheck)
  BY Scanned DEF Inv, TypeOK
<1> QED BY <1>1, WithoutDrops DEF TagCheck

LEMMA TryHitAsk ==
  ASSUME Inv, AskInv, NEW w \in Way, NEW lines \in HookCalls, TryHit(w, lines)
  PROVE  AskInv'
<1> DEFINE pkt == inflight_tag_check[scan]
<1>1. /\ inflight_tag_check' = Without(inflight_tag_check, scan)
      /\ PrefetchLines(lines) /\ Respond(pkt.to_return, pkt.addr)
      /\ UNCHANGED <<upper_queue, asked, MSHR, inflight_fills>>
  BY DEF TryHit, upper
<1>2. /\ scan \in DOMAIN inflight_tag_check /\ pkt.addr \in Block
      /\ Drops(inflight_tag_check, scan, inflight_tag_check')
  BY <1>1, ScannedDrops DEF TryHit
<1>3. ASSUME NEW u \in Upper PROVE AskedOnce(u)'
  <2>1. WaitsOnce(asked[u], upper_queue[u], returned[u], inflight_tag_check, MSHR,
                  inflight_fills, u)
    BY DEF AskInv, AskedOnce
  <2>2. returned[u] \in Seq(Block) /\ returned'[u] = Answered(returned[u], pkt, u)
    BY <1>1, RespondAt DEF Inv, TypeOK
  <2>3. WaitsOnce(asked[u], upper_queue[u], Answered(returned[u], pkt, u),
                  inflight_tag_check', MSHR, inflight_fills, u)
    BY <1>2, <2>1, <2>2, TagsToReturned
  <2> QED BY <1>1, <2>2, <2>3 DEF AskedOnce
<1>4. LocalOnly(internal_PQ')
  BY <1>1, LocalPQ DEF AskInv
<1>5. LocalKnown(inflight_tag_check')
  BY <1>2, LocalDrops DEF AskInv
<1> QED BY <1>3, <1>4, <1>5 DEF AskInv

LEMMA HookAsk ==
  ASSUME Inv, AskInv, NEW lines \in HookCalls, PrefetchLines(lines),
         UNCHANGED <<upper_queue, asked, returned, inflight_tag_check, MSHR, inflight_fills>>
  PROVE  AskInv'
<1>1. LocalOnly(internal_PQ')
  BY LocalPQ DEF AskInv
<1> QED BY <1>1 DEF AskInv, AskedOnce

LEMMA HandleWriteAsk ==
  ASSUME Inv, AskInv, HandleWrite
  PROVE  AskInv'
<1> DEFINE pkt == inflight_tag_check[scan]
           x   == FillType(pkt, Latency(FILL_LATENCY))
<1>1. /\ inflight_tag_check' = Without(inflight_tag_check, scan)
      /\ inflight_fills' = Append(inflight_fills, x)
      /\ UNCHANGED <<upper_queue, asked, returned, internal_PQ, MSHR>>
  BY DEF HandleWrite, Done, upper
<1>2. /\ scan \in DOMAIN inflight_tag_check /\ pkt \in TagCheck
      /\ Drops(inflight_tag_check, scan, inflight_tag_check')
      /\ inflight_fills \in Seq(Fill)
  BY <1>1, ScannedDrops DEF HandleWrite, Inv, TypeOK
<1>3. x \in Fill /\ x.addr = pkt.addr /\ x.to_return = pkt.to_return
  <2>1. Latency(FILL_LATENCY) \in Nat
    BY LatencyType, CacheAssumption DEF Inv
  <2> HIDE DEF pkt
  <2> QED BY <1>2, <2>1, FillTypeType DEF FillType
<1> HIDE DEF x
<1>4. ASSUME NEW u \in Upper PROVE AskedOnce(u)'
  <2>1. WaitsOnce(asked[u], upper_queue[u], returned[u], inflight_tag_check, MSHR,
                  inflight_fills, u)
    BY DEF AskInv, AskedOnce
  <2>2. Receives(inflight_fills, pkt, inflight_fills', u)
    BY <1>1, <1>2, <1>3, AppendReceives
  <2>3. WaitsOnce(asked[u], upper_queue[u], returned[u], inflight_tag_check', MSHR,
                  inflight_fills', u)
    BY <1>2, <2>1, <2>2, TagsToFills
  <2> QED BY <1>1, <2>3 DEF AskedOnce
<1>5. LocalKnown(inflight_tag_check')
  BY <1>2, LocalDrops DEF AskInv
<1> QED BY <1>1, <1>4, <1>5 DEF AskInv

(* A merge adds the waiting channels of the miss to those of the entry. *)
LEMMA MergeJoins ==
  ASSUME NEW s \in Seq(Fill), NEW m \in DOMAIN s, NEW pkt \in TagCheck,
         s[m].addr = pkt.addr
  PROVE  Joins(s, m, pkt, [s EXCEPT ![m] = Merge(@, FillType(pkt, 0))])
<1>1. s[m] \in Fill /\ FillType(pkt, 0) \in Fill /\ FillType(pkt, 0).addr = pkt.addr
      /\ FillType(pkt, 0).to_return = pkt.to_return
  BY FillTypeType DEF FillType
<1> DEFINE x == Merge(s[m], FillType(pkt, 0))
<1>2. x.addr = s[m].addr
  BY <1>1, MergeType
<1>3. x.to_return = s[m].to_return \cup pkt.to_return
  BY <1>1 DEF Merge, Fill
<1> HIDE DEF x
<1>4. Joins(s, m, pkt, [s EXCEPT ![m] = x])
  BY <1>2, <1>3 DEF Joins
<1> QED BY <1>4 DEF x

LEMMA MergeIntoMSHRAsk ==
  ASSUME Inv, AskInv, MergeIntoMSHR
  PROVE  AskInv'
<1> DEFINE pkt == inflight_tag_check[scan]
<1> PICK m \in DOMAIN MSHR :
      /\ FirstMatch(MSHR, pkt.addr, m)
      /\ MSHR' = [MSHR EXCEPT ![m] = Merge(@, FillType(pkt, 0))]
  BY DEF MergeIntoMSHR
<1>1. /\ inflight_tag_check' = Without(inflight_tag_check, scan)
      /\ UNCHANGED <<upper_queue, asked, returned, internal_PQ, inflight_fills>>
  BY DEF MergeIntoMSHR, Done, upper
<1>2. /\ scan \in DOMAIN inflight_tag_check /\ pkt \in TagCheck
      /\ Drops(inflight_tag_check, scan, inflight_tag_check')
      /\ MSHR \in Seq(Fill) /\ MSHR[m].addr = pkt.addr
  BY <1>1, ScannedDrops DEF MergeIntoMSHR, Inv, TypeOK, FirstMatch
<1>3. Joins(MSHR, m, pkt, MSHR')
  BY <1>2, MergeJoins
<1>4. ASSUME NEW u \in Upper PROVE AskedOnce(u)'
  <2>1. WaitsOnce(asked[u], upper_queue[u], returned[u], inflight_tag_check, MSHR,
                  inflight_fills, u)
    BY DEF AskInv, AskedOnce
  <2>2. Receives(MSHR, pkt, MSHR', u)
    BY <1>3, JoinReceives
  <2>3. WaitsOnce(asked[u], upper_queue[u], returned[u], inflight_tag_check', MSHR',
                  inflight_fills, u)
    BY <1>2, <2>1, <2>2, TagsToMSHR
  <2> QED BY <1>1, <2>3 DEF AskedOnce
<1>5. LocalKnown(inflight_tag_check')
  BY <1>2, LocalDrops DEF AskInv
<1> QED BY <1>1, <1>4, <1>5 DEF AskInv

LEMMA MergeIntoFillAsk ==
  ASSUME Inv, AskInv, MergeIntoFill
  PROVE  AskInv'
<1> DEFINE pkt == inflight_tag_check[scan]
<1> PICK f \in DOMAIN inflight_fills :
      /\ FirstMatch(inflight_fills, pkt.addr, f)
      /\ inflight_fills' = [inflight_fills EXCEPT ![f] = Merge(@, FillType(pkt, 0))]
  BY DEF MergeIntoFill
<1>1. /\ inflight_tag_check' = Without(inflight_tag_check, scan)
      /\ UNCHANGED <<upper_queue, asked, returned, internal_PQ, MSHR>>
  BY DEF MergeIntoFill, Done, upper
<1>2. /\ scan \in DOMAIN inflight_tag_check /\ pkt \in TagCheck
      /\ Drops(inflight_tag_check, scan, inflight_tag_check')
      /\ inflight_fills \in Seq(Fill) /\ inflight_fills[f].addr = pkt.addr
  BY <1>1, ScannedDrops DEF MergeIntoFill, Inv, TypeOK, FirstMatch
<1>3. Joins(inflight_fills, f, pkt, inflight_fills')
  BY <1>2, MergeJoins
<1>4. ASSUME NEW u \in Upper PROVE AskedOnce(u)'
  <2>1. WaitsOnce(asked[u], upper_queue[u], returned[u], inflight_tag_check, MSHR,
                  inflight_fills, u)
    BY DEF AskInv, AskedOnce
  <2>2. Receives(inflight_fills, pkt, inflight_fills', u)
    BY <1>3, JoinReceives
  <2>3. WaitsOnce(asked[u], upper_queue[u], returned[u], inflight_tag_check', MSHR,
                  inflight_fills', u)
    BY <1>2, <2>1, <2>2, TagsToFills
  <2> QED BY <1>1, <2>3 DEF AskedOnce
<1>5. LocalKnown(inflight_tag_check')
  BY <1>2, LocalDrops DEF AskInv
<1> QED BY <1>1, <1>4, <1>5 DEF AskInv

(* A miss that asks for no answer is a local prefetch: nobody waits in it. *)
LEMMA ForwardMissAsk ==
  ASSUME Inv, AskInv, ForwardMiss
  PROVE  AskInv'
<1> DEFINE pkt == inflight_tag_check[scan]
           fwd == ForwardPacket(pkt)
           x   == FillType(pkt, 0)
<1>1. /\ inflight_tag_check' = Without(inflight_tag_check, scan)
      /\ MSHR' = IF fwd.response_requested THEN Append(MSHR, x) ELSE MSHR
      /\ UNCHANGED <<upper_queue, asked, returned, internal_PQ, inflight_fills>>
  BY DEF ForwardMiss, Done, upper, Allocated
<1>2. /\ scan \in DOMAIN inflight_tag_check /\ pkt \in TagCheck
      /\ Drops(inflight_tag_check, scan, inflight_tag_check')
      /\ MSHR \in Seq(Fill)
  BY <1>1, ScannedDrops DEF ForwardMiss, Inv, TypeOK
<1>3. x \in Fill /\ x.addr = pkt.addr /\ x.to_return = pkt.to_return
  BY <1>2, FillTypeType DEF FillType
<1>4. ~fwd.response_requested => pkt.to_return = {}
  <2>1. ~fwd.response_requested => pkt.prefetch_from_this = TRUE
    BY <1>2 DEF ForwardPacket, TagCheck
  <2> QED BY <1>2, <2>1 DEF AskInv, LocalKnown, IsLocal
<1> HIDE DEF x, fwd
<1>5. ASSUME NEW u \in Upper PROVE Receives(MSHR, pkt, MSHR', u)
  <2>1. CASE fwd.response_requested
    BY <1>1, <1>2, <1>3, <2>1, AppendReceives
  <2>2. CASE ~fwd.response_requested
    <3>1. HeldBy(pkt, u) = {} /\ MSHR' = MSHR
      BY <1>1, <1>4, <2>2 DEF HeldBy
    <3> QED BY <3>1 DEF Receives
  <2> QED BY <2>1, <2>2
<1>6. ASSUME NEW u \in Upper PROVE AskedOnce(u)'
  <2>1. WaitsOnce(asked[u], upper_queue[u], returned[u], inflight_tag_check, MSHR,
                  inflight_fills, u)
    BY DEF AskInv, AskedOnce
  <2>2. WaitsOnce(asked[u], upper_queue[u], returned[u], inflight_tag_check', MSHR',
                  inflight_fills, u)
    BY <1>2, <1>5, <2>1, TagsToMSHR
  <2> QED BY <1>1, <2>2 DEF AskedOnce
<1>7. LocalKnown(inflight_tag_check')
  BY <1>2, LocalDrops DEF AskInv
<1> QED BY <1>1, <1>6, <1>7 DEF AskInv

LEMMA NextAsk ==
  ASSUME Inv, AskInv, [Next]_vars
  PROVE  AskInv'
<1>1. CASE BeginOperate
  BY <1>1, BeginOperateAsk
<1>2. CASE FinishPacket
  BY <1>2, FinishPacketAsk
<1>3. CASE \E w \in Way \cup {NUM_WAY + 1}, lines \in HookCalls : HandleFill(w, lines)
  BY <1>3, HandleFillAsk
<1>4. CASE InitiateTagCheck
  BY <1>4, InitiateTagCheckAsk
<1>5. CASE InitiatePrefetch
  BY <1>5, InitiatePrefetchAsk
<1>6. CASE \E w \in Way, lines \in HookCalls : TryHit(w, lines)
  BY <1>6, TryHitAsk
<1>7. CASE \E lines \in HookCalls : TryHitMisses(lines) \/ FinishOperate(lines)
  <2> PICK lines \in HookCalls : TryHitMisses(lines) \/ FinishOperate(lines)
    BY <1>7
  <2>1. /\ PrefetchLines(lines)
        /\ UNCHANGED <<upper_queue, asked, returned, inflight_tag_check, MSHR, inflight_fills>>
    BY DEF TryHitMisses, FinishOperate, upper
  <2> QED BY <2>1, HookAsk
<1>8. CASE HandleWrite
  BY <1>8, HandleWriteAsk
<1>9. CASE MergeIntoMSHR
  BY <1>9, MergeIntoMSHRAsk
<1>10. CASE MergeIntoFill
  BY <1>10, MergeIntoFillAsk
<1>11. CASE ForwardMiss
  BY <1>11, ForwardMissAsk
<1>12. CASE Upstream
  BY <1>12, UpperRequestAsk, UpperFinishPacketAsk DEF Upstream
<1>13. CASE \/ FinishReturns \/ FinishFills \/ NextQueue \/ FinishInitiate \/ FinishHits
            \/ HandleMissFails \/ \E w \in Way : HandleFillFails(w)
            \/ Downstream \/ BeginPhase \/ UNCHANGED vars
  <2>1. UNCHANGED askVars
    BY <1>13 DEF FinishReturns, FinishFills, NextQueue, FinishInitiate, FinishHits,
       HandleMissFails, HandleFillFails, Downstream, LowerAccept, LowerRespond, BeginPhase,
       vars, upper, cacheVars, askVars
  <2> QED BY <2>1, AskStutter
<1> QED BY <1>1, <1>2, <1>3, <1>4, <1>5, <1>6, <1>7, <1>8, <1>9, <1>10, <1>11, <1>12, <1>13
        DEF Next, Operate

(* Every block a cache above waits for is in exactly one place of this one. *)
THEOREM AskInvHolds == Spec => [](Inv /\ AskInv)
<1>1. Init => Inv /\ AskInv
  BY InitInv, InitAsk
<1>2. (Inv /\ AskInv) /\ [Next]_vars => (Inv /\ AskInv)'
  BY NextInv, NextAsk
<1> QED BY <1>1, <1>2, PTL DEF Spec

(* cache.cc:92-374, 606-628: a request for a block is never lost, through a *)
(* stalled miss, a merge into the MSHR or into a fill, or a blocked fill.   *)
THEOREM NoRequestForgotten == Spec => []NoForgottenRequest
<1>1. ASSUME AskInv PROVE NoForgottenRequest
  <2> SUFFICES ASSUME NEW u \in Upper, NEW b \in asked[u]
               PROVE  \/ \E q \in Queue : b \in Awaited(upper_queue[u][q])
                      \/ b \in Answers(returned[u])
                      \/ \E s \in {inflight_tag_check, MSHR, inflight_fills} :
                           \E i \in DOMAIN s : s[i].addr = b /\ u \in s[i].to_return
    BY DEF NoForgottenRequest
  <2> DEFINE f == Places(upper_queue[u], returned[u], inflight_tag_check, MSHR,
                         inflight_fills, u)
  <2>1. Partition(asked[u], f)
    BY <1>1 DEF AskInv, AskedOnce, WaitsOnce
  <2>2. /\ \A q \in Queue : f[q] = Awaited(upper_queue[u][q])
        /\ f["returned"] = Answers(returned[u])
        /\ f["tags"] = HeldFor(inflight_tag_check, u)
        /\ f["MSHR"] = HeldFor(MSHR, u)
        /\ f["fills"] = HeldFor(inflight_fills, u)
    BY PlacesAt
  <2> HIDE DEF f
  <2> PICK k \in Place : b \in f[k]
    BY <2>1 DEF Partition
  <2>3. CASE k \in Queue
    BY <2>2, <2>3
  <2>4. CASE k = "returned"
    BY <2>2, <2>4
  <2>5. CASE k \in {"tags", "MSHR", "fills"}
    <3>1. \E s \in {inflight_tag_check, MSHR, inflight_fills} : b \in HeldFor(s, u)
      BY <2>2, <2>5
    <3>2. \E s \in {inflight_tag_check, MSHR, inflight_fills} :
            \E i \in DOMAIN s : s[i].addr = b /\ u \in s[i].to_return
      BY <3>1 DEF HeldFor
    <3> QED BY <3>2
  <2> QED BY <2>3, <2>4, <2>5 DEF Place
<1>2. Inv /\ AskInv => NoForgottenRequest
  BY <1>1
<1> QED BY <1>2, AskInvHolds, PTL

--------------------------------------------------------------------------------
(* Refinement: towards the caches above this one is the server of MemoryPort. *)

(* Answering the channels of to_return is one Answer, or nothing. *)
LEMMA RespondStep ==
  ASSUME NEW b \in Block, NEW cs \in SUBSET Upper, Respond(cs, b), UNCHANGED asked,
         \A u \in cs : b \in asked[u] /\ b \notin Answers(returned[u]), TypeOK
  PROVE  [UpperPort!Next]_(UpperPort!vars)
<1>1. CASE cs = {}
  <2>1. returned' = returned
    BY <1>1 DEF Respond, TypeOK
  <2> QED BY <2>1 DEF UpperPort!vars
<1>2. CASE cs # {}
  <2>1. \A u \in cs : ~UpperPort!IsAnswered(u, b)
    BY DEF UpperPort!IsAnswered, Answers
  <2>2. UpperPort!Answer(cs, b)
    BY <1>2, <2>1 DEF UpperPort!Answer, Respond
  <2> QED BY <2>2 DEF UpperPort!Next
<1> QED BY <1>1, <1>2

(* What waits in a tag check or a fill is asked and not answered. *)
LEMMA WaitingUnanswered ==
  ASSUME AskInv, NEW s \in {inflight_tag_check, inflight_fills}, NEW i \in DOMAIN s,
         NEW u \in Upper, u \in s[i].to_return
  PROVE  s[i].addr \in asked[u] /\ s[i].addr \notin Answers(returned[u])
<1> DEFINE f == Places(upper_queue[u], returned[u], inflight_tag_check, MSHR,
                       inflight_fills, u)
<1>1. Partition(asked[u], f)
  BY DEF AskInv, AskedOnce, WaitsOnce
<1>2. /\ f["returned"] = Answers(returned[u])
      /\ f["tags"] = HeldFor(inflight_tag_check, u)
      /\ f["fills"] = HeldFor(inflight_fills, u)
  BY PlacesAt
<1>3. s[i].addr \in HeldFor(s, u)
  BY DEF HeldFor
<1> HIDE DEF f
<1>4. "returned" \in Place /\ "tags" \in Place /\ "fills" \in Place
  BY DEF Place
<1>5. PICK k \in {"tags", "fills"} : s[i].addr \in f[k]
  BY <1>2, <1>3
<1>6. f[k] \cap f["returned"] = {} /\ f[k] \subseteq asked[u]
  <2>1. k \in Place /\ k # "returned"
    BY <1>4
  <2> QED BY <1>1, <1>4, <2>1, Apart
<1> QED BY <1>2, <1>5, <1>6

LEMMA UpperPortStep ==
  ASSUME Inv, AskInv, [Next]_vars
  PROVE  [UpperPort!Next]_(UpperPort!vars)
<1>1. CASE \E u \in Upper, kind \in RequestKinds, b \in Block : UpperRequest(u, kind, b)
  <2> PICK u \in Upper, kind \in RequestKinds, b \in Block : UpperRequest(u, kind, b)
    BY <1>1
  <2>1. CASE kind.response_requested
    <3>1. UpperPort!Ask(u, b)
      BY <2>1 DEF UpperRequest, UpperPort!Ask
    <3> QED BY <3>1 DEF UpperPort!Next
  <2>2. CASE ~kind.response_requested
    BY <2>2 DEF UpperRequest, UpperPort!vars
  <2> QED BY <2>1, <2>2
<1>2. CASE \E u \in Upper : UpperFinishPacket(u)
  <2> PICK u \in Upper : UpperFinishPacket(u)
    BY <1>2
  <2>1. UpperPort!Read(u)
    BY DEF UpperFinishPacket, UpperPort!Read
  <2> QED BY <2>1 DEF UpperPort!Next
<1>3. CASE \E w \in Way \cup {NUM_WAY + 1}, lines \in HookCalls : HandleFill(w, lines)
  <2> PICK w \in Way \cup {NUM_WAY + 1}, lines \in HookCalls : HandleFill(w, lines)
    BY <1>3
  <2> DEFINE fill == Head(inflight_fills)
  <2>1. /\ fill \in Fill /\ fill.addr \in Block /\ fill.to_return \in SUBSET Upper
        /\ Respond(fill.to_return, fill.addr) /\ UNCHANGED asked
    <3>1. fill \in Fill
      BY HeadFill DEF HandleFill
    <3>2. Respond(fill.to_return, fill.addr) /\ UNCHANGED asked
      BY DEF HandleFill, upper
    <3> HIDE DEF fill
    <3> QED BY <3>1, <3>2 DEF Fill
  <2>2. 1 \in DOMAIN inflight_fills /\ fill = inflight_fills[1]
    BY TailDrops DEF HandleFill, FillReady, Inv, TypeOK
  <2>3. \A u \in fill.to_return : fill.addr \in asked[u] /\ fill.addr \notin Answers(returned[u])
    BY <2>1, <2>2, WaitingUnanswered
  <2> HIDE DEF fill
  <2> QED BY <2>1, <2>3, RespondStep DEF Inv
<1>4. CASE \E w \in Way, lines \in HookCalls : TryHit(w, lines)
  <2> PICK w \in Way, lines \in HookCalls : TryHit(w, lines)
    BY <1>4
  <2> DEFINE pkt == inflight_tag_check[scan]
  <2>1. /\ scan \in DOMAIN inflight_tag_check /\ pkt \in TagCheck /\ pkt.addr \in Block
    BY ScannedDrops DEF TryHit
  <2>2. Respond(pkt.to_return, pkt.addr) /\ UNCHANGED asked
    BY DEF TryHit, upper
  <2>3. \A u \in pkt.to_return : u \in Upper
    BY <2>1 DEF TagCheck
  <2>4. \A u \in pkt.to_return : pkt.addr \in asked[u] /\ pkt.addr \notin Answers(returned[u])
    BY <2>1, <2>3, WaitingUnanswered
  <2> HIDE DEF pkt
  <2>5. pkt.to_return \in SUBSET Upper
    BY <2>1 DEF TagCheck
  <2> QED BY <2>1, <2>2, <2>4, <2>5, RespondStep DEF Inv
<1>5. CASE \/ BeginOperate \/ FinishPacket \/ FinishReturns \/ FinishFills
           \/ InitiateTagCheck \/ NextQueue \/ InitiatePrefetch \/ FinishInitiate
           \/ FinishHits \/ HandleWrite \/ MergeIntoMSHR \/ MergeIntoFill \/ ForwardMiss
           \/ HandleMissFails \/ \E w \in Way : HandleFillFails(w)
           \/ \E lines \in HookCalls : TryHitMisses(lines)
           \/ \E lines \in HookCalls : FinishOperate(lines)
           \/ Downstream \/ BeginPhase \/ UNCHANGED vars
  <2>1. UNCHANGED <<asked, returned>>
    BY <1>5 DEF BeginOperate, FinishPacket, FinishReturns, FinishFills, InitiateTagCheck,
       NextQueue, InitiatePrefetch, FinishInitiate, FinishHits, HandleWrite, MergeIntoMSHR,
       MergeIntoFill, ForwardMiss, HandleMissFails, HandleFillFails, TryHitMisses,
       FinishOperate, Downstream, LowerAccept, LowerRespond, BeginPhase, Done, vars, upper,
       cacheVars
  <2> QED BY <2>1 DEF UpperPort!vars
<1> QED BY <1>1, <1>2, <1>3, <1>4, <1>5 DEF Next, Operate, Upstream

(* cache.cc:92-374: each request of a cache above for a block is answered   *)
(* at most once, and only those are, however misses merge.                  *)
THEOREM UpperPortRefined == Spec => AnswersOnce
<1>1. Init => UpperPort!Init
  BY DEF Init, UpperPort!Init
<1>2. Inv /\ AskInv /\ [Next]_vars => [UpperPort!Next]_(UpperPort!vars)
  BY UpperPortStep
<1> QED BY <1>1, <1>2, AskInvHolds, PTL DEF Spec, AnswersOnce, UpperPort!Spec

--------------------------------------------------------------------------------
(* One copy of a block, where stores are misses *)

LineOnce ==
  \A s \in Set : \A v, w \in Way :
    /\ block[s][v].valid /\ block[s][w].valid
    /\ block[s][v].addr = block[s][w].addr
    => v = w

(* What is awaited or waits to be filled is absent; so is each miss that     *)
(* try_hit has found and handle_miss has not yet seen, since nothing is      *)
(* filled between the two.                                                   *)
CopyInv ==
  /\ LineOnce
  /\ AddressOnce(MSHR) /\ AddressOnce(inflight_fills)
  /\ Addresses(MSHR) \cap Addresses(inflight_fills) = {}
  /\ \A b \in Addresses(MSHR) \cup Addresses(inflight_fills) : Misses(b)
  /\ stage = "hits" => \A i \in 1 .. scan - 1 : Misses(inflight_tag_check[i].addr)
  /\ stage = "misses" =>
       \A i \in scan .. scan + budget - 1 : Misses(inflight_tag_check[i].addr)

(* The same lines, but for their dirty and prefetch bits. *)
SameLines(b, c) ==
  \A s \in Set, w \in Way : c[s][w].valid = b[s][w].valid
                            /\ (b[s][w].valid => c[s][w].addr = b[s][w].addr)

LEMMA MissesKept ==
  ASSUME SameLines(block, block'), NEW b \in Block
  PROVE  Misses(b)' <=> Misses(b)
<1>1. SetIndex[b] \in Set
  BY CacheAssumption
<1> QED BY <1>1 DEF SameLines, Misses

LEMMA LineOnceKept ==
  ASSUME SameLines(block, block'), LineOnce
  PROVE  LineOnce'
BY DEF SameLines, LineOnce

LEMMA AddressesKnown ==
  ASSUME TypeOK
  PROVE  /\ Addresses(MSHR) \subseteq Block /\ Addresses(inflight_fills) \subseteq Block
         /\ \A i \in DOMAIN inflight_tag_check : inflight_tag_check[i].addr \in Block
<1>1. /\ \A i \in DOMAIN MSHR : MSHR[i] \in Fill
      /\ \A i \in DOMAIN inflight_fills : inflight_fills[i] \in Fill
      /\ \A i \in DOMAIN inflight_tag_check : inflight_tag_check[i] \in TagCheck
  BY DEF TypeOK
<1> QED BY <1>1 DEF Addresses, Fill, TagCheck

(* An address leaves with the entry dropped. *)
LEMMA AddressesDrop ==
  ASSUME NEW s, NEW i \in DOMAIN s, NEW t, Drops(s, i, t), AddressOnce(s)
  PROVE  Addresses(t) = Addresses(s) \ {s[i].addr} /\ AddressOnce(t)
         /\ s[i].addr \in Addresses(s)
<1> PICK from \in [DOMAIN t -> DOMAIN s \ {i}] :
      /\ \A j, k \in DOMAIN t : from[j] = from[k] => j = k
      /\ \A k \in DOMAIN s \ {i} : \E j \in DOMAIN t : from[j] = k
      /\ \A j \in DOMAIN t : t[j] = s[from[j]]
  BY DEF Drops
<1>1. \A j \in DOMAIN t : from[j] \in DOMAIN s /\ from[j] # i /\ t[j] = s[from[j]]
  OBVIOUS
<1>2. AddressOnce(t)
  BY <1>1 DEF AddressOnce
<1>3. \A a \in Addresses(t) : a \in Addresses(s) /\ a # s[i].addr
  BY <1>1 DEF Addresses, AddressOnce
<1>4. ASSUME NEW a \in Addresses(s), a # s[i].addr
      PROVE  a \in Addresses(t)
  <2> PICK k \in DOMAIN s : s[k].addr = a
    BY DEF Addresses
  <2> PICK j \in DOMAIN t : from[j] = k
    BY <1>4
  <2> QED BY DEF Addresses
<1> QED BY <1>2, <1>3, <1>4 DEF Addresses

(* The steps between the hits and the misses that keep the lines. *)
copyVars == <<block, MSHR, inflight_fills>>

LEMMA FinishPacketCopy ==
  ASSUME Inv, CopyInv, FinishPacket
  PROVE  CopyInv'
<1> PICK m \in DOMAIN MSHR :
      /\ inflight_fills' =
           Append(inflight_fills, [MSHR[m] EXCEPT !.wait = Latency(FILL_LATENCY)])
      /\ MSHR' = SwapPop(MSHR, m)
  BY DEF FinishPacket
<1> DEFINE x == [MSHR[m] EXCEPT !.wait = Latency(FILL_LATENCY)]
<1>1. /\ m \in 1 .. Len(MSHR) /\ MSHR \in Seq(Fill) /\ MSHR[m] \in Fill
      /\ inflight_fills \in Seq(Fill)
  BY DEF Inv, TypeOK
<1>2. x \in Fill /\ x.addr = MSHR[m].addr
  BY <1>1, LatencyType, CacheAssumption DEF Inv, Fill
<1>3. inflight_fills' = Append(inflight_fills, x) /\ block' = block /\ stage' = "returns"
  BY DEF FinishPacket, sched
<1> HIDE DEF x
<1>4. /\ Addresses(MSHR') = Addresses(MSHR) \ {MSHR[m].addr} /\ AddressOnce(MSHR')
      /\ MSHR[m].addr \in Addresses(MSHR)
  BY <1>1, SwapPopDrops, AddressesDrop DEF CopyInv
<1>5. /\ Addresses(inflight_fills') = Addresses(inflight_fills) \cup {MSHR[m].addr}
      /\ AddressOnce(inflight_fills')
  <2>1. x.addr \notin Addresses(inflight_fills)
    BY <1>2, <1>4 DEF CopyInv
  <2> QED BY <1>1, <1>2, <1>3, <2>1, AddressesAppend DEF CopyInv
<1>6. Addresses(MSHR') \cap Addresses(inflight_fills') = {}
  BY <1>4, <1>5 DEF CopyInv
<1>7. \A b \in Addresses(MSHR') \cup Addresses(inflight_fills') : Misses(b)'
  BY <1>3, <1>4, <1>5 DEF CopyInv, Misses
<1>8. LineOnce'
  BY <1>3 DEF CopyInv, LineOnce
<1> QED BY <1>3, <1>4, <1>5, <1>6, <1>7, <1>8 DEF CopyInv

LEMMA HandleFillCopy ==
  ASSUME Inv, CopyInv, NEW w \in Way \cup {NUM_WAY + 1}, NEW lines \in HookCalls,
         HandleFill(w, lines)
  PROVE  CopyInv'
<1> PICK fill \in Fill, s \in Set : fill = Head(inflight_fills) /\ s = SetIndex[fill.addr]
  BY HeadFill DEF HandleFill
<1>1. /\ inflight_fills \in Seq(Fill) /\ inflight_fills # <<>>
      /\ inflight_fills' = Tail(inflight_fills)
      /\ MSHR' = MSHR /\ stage' = "fills"
  BY DEF HandleFill, FillReady, Inv, TypeOK
<1>2. /\ Addresses(inflight_fills') = Addresses(inflight_fills) \ {fill.addr}
      /\ AddressOnce(inflight_fills')
      /\ fill.addr \in Addresses(inflight_fills)
  BY <1>1, TailDrops, AddressesDrop DEF CopyInv
<1>3. Misses(fill.addr)
  BY <1>2 DEF CopyInv
<1>4. CASE w \notin Way
  <2>1. block' = block
    BY <1>4 DEF HandleFill
  <2> QED BY <1>1, <1>2, <2>1 DEF CopyInv, LineOnce, Misses
<1>5. CASE w \in Way
  <2>1. block' = [block EXCEPT ![s][w] = FillBlock(fill)]
    BY <1>5 DEF HandleFill
  <2>2. /\ block'[s][w].valid = TRUE /\ block'[s][w].addr = fill.addr
        /\ \A r \in Set, v \in Way : r # s \/ v # w => block'[r][v] = block[r][v]
    BY <1>5, <2>1 DEF FillBlock, Inv, TypeOK
  <2>3. \A v \in Way : ~(block[s][v].valid /\ block[s][v].addr = fill.addr)
    BY <1>3 DEF Misses
  <2>4. LineOnce'
    <3> SUFFICES ASSUME NEW r \in Set, NEW v \in Way, NEW x \in Way,
                        block'[r][v].valid, block'[r][x].valid,
                        block'[r][v].addr = block'[r][x].addr
                 PROVE  v = x
      BY DEF LineOnce
    <3>1. CASE r # s \/ (v # w /\ x # w)
      BY <2>2, <3>1 DEF CopyInv, LineOnce
    <3>2. CASE r = s /\ v = w /\ x # w
      BY <2>2, <2>3, <3>2
    <3>3. CASE r = s /\ x = w /\ v # w
      BY <2>2, <2>3, <3>3
    <3> QED BY <3>1, <3>2, <3>3
  <2>5. ASSUME NEW b \in Addresses(MSHR') \cup Addresses(inflight_fills')
        PROVE  Misses(b)'
    <3>1. b # fill.addr /\ b \in Addresses(MSHR) \cup Addresses(inflight_fills)
      BY <1>1, <1>2, <2>5 DEF CopyInv
    <3>2. SetIndex[b] \in Set
      BY <3>1, AddressesKnown, CacheAssumption DEF Inv
    <3>3. Misses(b)
      BY <3>1 DEF CopyInv
    <3> QED BY <2>2, <3>1, <3>2, <3>3 DEF Misses
  <2> QED BY <1>1, <1>2, <2>4, <2>5 DEF CopyInv
<1> QED BY <1>4, <1>5

(* What a hit does to its line. *)
LEMMA TryHitLines ==
  ASSUME Inv, NEW w \in Way, NEW lines, TryHit(w, lines)
  PROVE  /\ SameLines(block, block')
         /\ \A s \in Set, v \in Way : NeedsWriteback(s, v) => NeedsWriteback(s, v)'
<1> PICK s : s = SetIndex[inflight_tag_check[scan].addr]
  OBVIOUS
<1>1. s \in Set
  BY ScannedDrops, CacheAssumption DEF TryHit
<1>2. block[s][w] \in ValidLine
  <2>1. block[s][w].valid
    BY DEF TryHit, HitWay
  <2>2. block[s][w] \in ValidLine \cup {InvalidLine}
    BY <1>1 DEF Inv, TypeOK
  <2> QED BY <2>1, <2>2 DEF InvalidLine
<1> PICK d \in BOOLEAN, p \in BOOLEAN :
      /\ block' = [block EXCEPT ![s][w].dirty = d, ![s][w].prefetch = p]
      /\ block[s][w].dirty => d
  <2> DEFINE pkt == inflight_tag_check[scan]
             useful == block[s][w].prefetch /\ ~pkt.prefetch_from_this
             d == block[s][w].dirty \/ pkt.type = "WRITE"
             p == block[s][w].prefetch /\ ~useful
  <2>1. block' = [block EXCEPT ![s][w].dirty = @ \/ pkt.type = "WRITE",
                               ![s][w].prefetch = @ /\ ~useful]
    BY DEF TryHit
  <2>2. block[s][w].dirty \in BOOLEAN /\ block[s][w].prefetch \in BOOLEAN
    BY <1>2 DEF ValidLine
  <2>3. pkt.prefetch_from_this \in BOOLEAN
    BY ScannedDrops DEF TryHit, TagCheck
  <2>4. d \in BOOLEAN /\ p \in BOOLEAN /\ (block[s][w].dirty => d)
    BY <2>2, <2>3
  <2>5. block' = [block EXCEPT ![s][w].dirty = d, ![s][w].prefetch = p]
    BY <1>1, <1>2, <2>1 DEF Inv, TypeOK, ValidLine
  <2> QED BY <2>4, <2>5
<1>3. /\ block'[s][w].valid = block[s][w].valid /\ block'[s][w].addr = block[s][w].addr
      /\ block[s][w].dirty => block'[s][w].dirty
      /\ \A r \in Set, v \in Way : r # s \/ v # w => block'[r][v] = block[r][v]
  BY <1>1, <1>2 DEF Inv, TypeOK, ValidLine
<1>4. SameLines(block, block')
  BY <1>3 DEF SameLines
<1>5. \A r \in Set, v \in Way : NeedsWriteback(r, v) => NeedsWriteback(r, v)'
  BY <1>3 DEF NeedsWriteback
<1> QED BY <1>4, <1>5

LEMMA TryHitCopy ==
  ASSUME Inv, CopyInv, NEW w \in Way, NEW lines \in HookCalls, TryHit(w, lines)
  PROVE  CopyInv'
<1>1. SameLines(block, block')
  BY TryHitLines
<1>2. /\ inflight_tag_check' = Without(inflight_tag_check, scan)
      /\ UNCHANGED <<MSHR, inflight_fills, stage, scan>> /\ stage = "hits"
  BY DEF TryHit, TagReady
<1>3. /\ scan \in 1 .. Len(inflight_tag_check) /\ Len(inflight_tag_check) \in Nat
      /\ DOMAIN inflight_tag_check = 1 .. Len(inflight_tag_check)
  <2>1. inflight_tag_check \in Seq(TagCheck)
    BY DEF Inv, TypeOK
  <2>2. scan \in DOMAIN inflight_tag_check
    BY ScannedDrops DEF TryHit
  <2> QED BY <2>1, <2>2
<1>4. \A i \in 1 .. scan - 1 :
        i \in DOMAIN inflight_tag_check /\ inflight_tag_check'[i] = inflight_tag_check[i]
  BY <1>2, <1>3 DEF Without
<1>5. ASSUME NEW i \in 1 .. scan' - 1 PROVE Misses(inflight_tag_check[i].addr)'
  <2>1. /\ i \in 1 .. scan - 1 /\ inflight_tag_check'[i] = inflight_tag_check[i]
        /\ Misses(inflight_tag_check[i].addr) /\ inflight_tag_check[i].addr \in Block
    BY <1>2, <1>4, AddressesKnown DEF CopyInv, Inv
  <2> PICK b \in Block : b = inflight_tag_check[i].addr
    BY <2>1
  <2>2. Misses(b)'
    BY <1>1, <2>1, MissesKept
  <2>3. inflight_tag_check'[i].addr = b
    BY <2>1
  <2> QED BY <2>2, <2>3 DEF Misses
<1>6. \A b \in Addresses(MSHR) \cup Addresses(inflight_fills) : Misses(b)'
  BY <1>1, MissesKept, AddressesKnown DEF CopyInv, Inv
<1>7. LineOnce'
  BY <1>1, LineOnceKept DEF CopyInv
<1>8. stage' # "misses"
  BY <1>2
<1> QED BY <1>2, <1>5, <1>6, <1>7, <1>8 DEF CopyInv

(* The packet handle_miss has taken over leaves the scan. *)
LEMMA DoneCopy ==
  ASSUME Inv, CopyInv, MissTurn, Done, AddressOnce(MSHR'), AddressOnce(inflight_fills'),
         Addresses(MSHR') \cap Addresses(inflight_fills') = {},
         \A b \in Addresses(MSHR') \cup Addresses(inflight_fills') : Misses(b)
  PROVE  CopyInv'
<1>1. /\ block' = block /\ stage' = "misses" /\ scan' = scan /\ budget' = budget - 1
      /\ inflight_tag_check' = Without(inflight_tag_check, scan)
  BY DEF Done, MissTurn
<1>2. /\ inflight_tag_check \in Seq(TagCheck) /\ scan \in Nat \ {0} /\ budget \in Nat \ {0}
      /\ scan + budget - 1 <= Len(inflight_tag_check)
  BY DEF Inv, TypeOK, SchedOK, MissTurn
<1>3. ASSUME NEW i \in scan' .. scan' + budget' - 1
      PROVE  Misses(inflight_tag_check[i].addr)'
  <2>1. i \in 1 .. Len(inflight_tag_check) - 1 /\ i + 1 \in scan .. scan + budget - 1
        /\ ~(i < scan)
    BY <1>1, <1>2
  <2>2. inflight_tag_check'[i] = inflight_tag_check[i + 1]
    BY <1>1, <2>1 DEF Without
  <2>3. Misses(inflight_tag_check[i + 1].addr)
    BY <2>1 DEF CopyInv, MissTurn
  <2> QED BY <1>1, <2>2, <2>3 DEF Misses
<1>4. LineOnce' /\ \A b \in Addresses(MSHR') \cup Addresses(inflight_fills') : Misses(b)'
  BY <1>1 DEF CopyInv, LineOnce, Misses
<1> QED BY <1>1, <1>3, <1>4 DEF CopyInv

(* What a merge does to the addresses: nothing. *)
LEMMA JoinsAddresses ==
  ASSUME NEW s, NEW m \in DOMAIN s, NEW e, NEW t, Joins(s, m, e, t)
  PROVE  Addresses(t) = Addresses(s) /\ (AddressOnce(s) => AddressOnce(t))
BY DEF Joins, Addresses, AddressOnce

LEMMA MergeIntoMSHRCopy ==
  ASSUME Inv, CopyInv, MergeIntoMSHR
  PROVE  CopyInv'
<1> PICK m \in DOMAIN MSHR :
      /\ FirstMatch(MSHR, inflight_tag_check[scan].addr, m)
      /\ MSHR' = [MSHR EXCEPT ![m] = Merge(@, FillType(inflight_tag_check[scan], 0))]
  BY DEF MergeIntoMSHR
<1>1. /\ MSHR \in Seq(Fill) /\ inflight_tag_check[scan] \in TagCheck
      /\ MSHR[m].addr = inflight_tag_check[scan].addr
  BY ScannedDrops DEF MergeIntoMSHR, Inv, TypeOK, FirstMatch
<1>2. Joins(MSHR, m, inflight_tag_check[scan], MSHR')
  BY <1>1, MergeJoins
<1>3. Addresses(MSHR') = Addresses(MSHR) /\ AddressOnce(MSHR')
  BY <1>2, JoinsAddresses DEF CopyInv
<1>4. /\ inflight_fills' = inflight_fills /\ MissTurn /\ Done
  BY DEF MergeIntoMSHR
<1>5. Addresses(MSHR') = Addresses(MSHR) /\ AddressOnce(MSHR')
      /\ Addresses(inflight_fills') = Addresses(inflight_fills)
      /\ AddressOnce(inflight_fills')
  BY <1>3, <1>4 DEF CopyInv
<1>6. /\ Addresses(MSHR') \cap Addresses(inflight_fills') = {}
      /\ \A b \in Addresses(MSHR') \cup Addresses(inflight_fills') : Misses(b)
  BY <1>5 DEF CopyInv
<1> QED BY <1>4, <1>5, <1>6, DoneCopy

LEMMA MergeIntoFillCopy ==
  ASSUME Inv, CopyInv, MergeIntoFill
  PROVE  CopyInv'
<1> PICK f \in DOMAIN inflight_fills :
      /\ FirstMatch(inflight_fills, inflight_tag_check[scan].addr, f)
      /\ inflight_fills' =
           [inflight_fills EXCEPT ![f] = Merge(@, FillType(inflight_tag_check[scan], 0))]
  BY DEF MergeIntoFill
<1>1. /\ inflight_fills \in Seq(Fill) /\ inflight_tag_check[scan] \in TagCheck
      /\ inflight_fills[f].addr = inflight_tag_check[scan].addr
  BY ScannedDrops DEF MergeIntoFill, Inv, TypeOK, FirstMatch
<1>2. Joins(inflight_fills, f, inflight_tag_check[scan], inflight_fills')
  BY <1>1, MergeJoins
<1>3. Addresses(inflight_fills') = Addresses(inflight_fills) /\ AddressOnce(inflight_fills')
  BY <1>2, JoinsAddresses DEF CopyInv
<1>4. /\ MSHR' = MSHR /\ MissTurn /\ Done
  BY DEF MergeIntoFill
<1>5. Addresses(MSHR') = Addresses(MSHR) /\ AddressOnce(MSHR')
      /\ Addresses(inflight_fills') = Addresses(inflight_fills)
      /\ AddressOnce(inflight_fills')
  BY <1>3, <1>4 DEF CopyInv
<1>6. /\ Addresses(MSHR') \cap Addresses(inflight_fills') = {}
      /\ \A b \in Addresses(MSHR') \cup Addresses(inflight_fills') : Misses(b)
  BY <1>5 DEF CopyInv
<1> QED BY <1>4, <1>5, <1>6, DoneCopy

LEMMA ForwardMissCopy ==
  ASSUME Inv, CopyInv, ForwardMiss
  PROVE  CopyInv'
<1> PICK pkt \in TagCheck : pkt = inflight_tag_check[scan] /\ pkt.addr \in Block
  BY ScannedDrops DEF ForwardMiss
<1> DEFINE x == FillType(pkt, 0)
<1>1. /\ MSHR' \in {MSHR, Append(MSHR, x)}
      /\ inflight_fills' = inflight_fills /\ MissTurn /\ Done
      /\ NoMatch(MSHR, pkt.addr) /\ NoMatch(inflight_fills, pkt.addr)
  BY DEF ForwardMiss, NewMiss, Allocated
<1>2. Misses(pkt.addr)
  <2>1. /\ scan \in Nat /\ budget \in Nat \ {0}
    BY <1>1 DEF Inv, TypeOK, MissTurn
  <2>2. scan \in scan .. scan + budget - 1
    BY <2>1
  <2> QED BY <1>1, <2>2 DEF CopyInv, MissTurn
<1>3. x \in Fill /\ x.addr = pkt.addr /\ MSHR \in Seq(Fill)
  BY FillTypeType DEF Inv, TypeOK
<1> HIDE DEF x
<1>4. pkt.addr \notin Addresses(MSHR) /\ pkt.addr \notin Addresses(inflight_fills)
  BY <1>1 DEF NoMatch, Addresses
<1>5. /\ Addresses(MSHR') \subseteq Addresses(MSHR) \cup {pkt.addr}
      /\ AddressOnce(MSHR')
  <2>1. CASE MSHR' = MSHR
    BY <2>1 DEF CopyInv
  <2>2. CASE MSHR' = Append(MSHR, x)
    BY <1>3, <1>4, <2>2, AddressesAppend DEF CopyInv
  <2> QED BY <1>1, <2>1, <2>2
<1>6. /\ Addresses(inflight_fills') = Addresses(inflight_fills)
      /\ AddressOnce(inflight_fills')
  BY <1>1 DEF CopyInv
<1>7. /\ Addresses(MSHR') \cap Addresses(inflight_fills') = {}
      /\ \A b \in Addresses(MSHR') \cup Addresses(inflight_fills') : Misses(b)
  BY <1>2, <1>4, <1>5, <1>6 DEF CopyInv
<1> QED BY <1>1, <1>5, <1>6, <1>7, DoneCopy

(* The steps that change neither lines nor addresses. *)
LEMMA CopyStutter ==
  ASSUME CopyInv, block' = block, MSHR' = MSHR,
         Addresses(inflight_fills)' = Addresses(inflight_fills), AddressOnce(inflight_fills)',
         stage' \notin {"hits", "misses"} \/ UNCHANGED <<stage, scan, budget, inflight_tag_check>>
  PROVE  CopyInv'
<1>1. /\ LineOnce' /\ AddressOnce(MSHR)' /\ Addresses(MSHR)' = Addresses(MSHR)
      /\ \A b : Misses(b)' <=> Misses(b)
  BY DEF CopyInv, LineOnce, AddressOnce, Addresses, Misses
<1>2. CASE stage' \notin {"hits", "misses"}
  BY <1>1, <1>2 DEF CopyInv
<1>3. CASE UNCHANGED <<stage, scan, budget, inflight_tag_check>>
  <2>1. /\ stage' = "hits" =>
             \A i \in 1 .. scan' - 1 : Misses(inflight_tag_check[i].addr)'
        /\ stage' = "misses" =>
             \A i \in scan' .. scan' + budget' - 1 : Misses(inflight_tag_check[i].addr)'
    BY <1>3 DEF CopyInv, Misses
  <2> QED BY <1>1, <2>1 DEF CopyInv
<1> QED BY <1>2, <1>3

LEMMA BeginOperateCopy ==
  ASSUME Inv, CopyInv, BeginOperate
  PROVE  CopyInv'
<1>1. /\ inflight_fills' = Tick(inflight_fills) /\ UNCHANGED <<block, MSHR>>
      /\ stage' = "returns"
  BY DEF BeginOperate
<1>2. /\ DOMAIN inflight_fills' = DOMAIN inflight_fills
      /\ \A i \in DOMAIN inflight_fills : inflight_fills'[i].addr = inflight_fills[i].addr
  <2>1. \A i \in DOMAIN inflight_fills : inflight_fills[i] \in Fill
    BY DEF Inv, TypeOK
  <2>2. \A e \in Fill : TickEntry(e).addr = e.addr
    BY DEF TickEntry, Fill
  <2> QED BY <1>1, <2>1, <2>2 DEF Tick
<1>3. Addresses(inflight_fills)' = Addresses(inflight_fills) /\ AddressOnce(inflight_fills)'
  BY <1>2 DEF Addresses, AddressOnce, CopyInv
<1> QED BY <1>1, <1>3, CopyStutter

LEMMA TryHitMissesCopy ==
  ASSUME Inv, CopyInv, NEW lines \in HookCalls, TryHitMisses(lines)
  PROVE  CopyInv'
<1>1. /\ UNCHANGED <<block, MSHR, inflight_fills, inflight_tag_check, stage>>
      /\ stage = "hits" /\ scan' = scan + 1 /\ Misses(inflight_tag_check[scan].addr)
  BY DEF TryHitMisses, TagReady
<1>2. scan \in Nat
  BY DEF Inv, TypeOK
<1>3. \A i \in 1 .. scan' - 1 : Misses(inflight_tag_check[i].addr)'
  <2>1. \A i \in 1 .. scan' - 1 : i \in 1 .. scan - 1 \/ i = scan
    BY <1>1, <1>2
  <2>2. \A i \in 1 .. scan' - 1 : Misses(inflight_tag_check[i].addr)
    BY <1>1, <2>1 DEF CopyInv
  <2> QED BY <1>1, <2>2 DEF Misses
<1>4. LineOnce' /\ AddressOnce(MSHR') /\ AddressOnce(inflight_fills')
  BY <1>1 DEF CopyInv, LineOnce
<1>5. /\ Addresses(MSHR') \cap Addresses(inflight_fills') = {}
      /\ \A b \in Addresses(MSHR') \cup Addresses(inflight_fills') : Misses(b)'
  BY <1>1 DEF CopyInv, Misses
<1>6. stage' = "hits"
  BY <1>1
<1> QED BY <1>3, <1>4, <1>5, <1>6 DEF CopyInv

LEMMA FinishHitsCopy ==
  ASSUME Inv, CopyInv, FinishHits
  PROVE  CopyInv'
<1>1. /\ UNCHANGED <<block, MSHR, inflight_fills, inflight_tag_check>>
      /\ stage = "hits" /\ stage' = "misses" /\ scan' = 1 /\ budget' = scan - 1
  BY DEF FinishHits, cacheVars
<1>2. scan \in Nat
  BY DEF Inv, TypeOK
<1>3. \A i \in scan' .. scan' + budget' - 1 : Misses(inflight_tag_check[i].addr)'
  <2>1. scan' .. scan' + budget' - 1 = 1 .. scan - 1
    BY <1>1, <1>2
  <2> QED BY <1>1, <2>1 DEF CopyInv, Misses
<1> QED BY <1>1, <1>3 DEF CopyInv, LineOnce, AddressOnce, Addresses, Misses

LEMMA HandleMissFailsCopy ==
  ASSUME Inv, CopyInv, HandleMissFails
  PROVE  CopyInv'
<1>1. /\ UNCHANGED <<block, MSHR, inflight_fills, inflight_tag_check, stage>>
      /\ stage = "misses" /\ scan' = scan + 1 /\ budget' = budget - 1
  BY DEF HandleMissFails, MissTurn, cacheVars
<1>2. scan \in Nat /\ budget \in Nat
  BY DEF Inv, TypeOK
<1>3. \A i \in scan' .. scan' + budget' - 1 : Misses(inflight_tag_check[i].addr)'
  <2>1. \A i \in scan' .. scan' + budget' - 1 : i \in scan .. scan + budget - 1
    BY <1>1, <1>2
  <2> QED BY <1>1, <2>1 DEF CopyInv, Misses
<1> QED BY <1>1, <1>3 DEF CopyInv, LineOnce, AddressOnce, Addresses, Misses

LEMMA FinishInitiateCopy ==
  ASSUME Inv, CopyInv, FinishInitiate
  PROVE  CopyInv'
<1>1. /\ UNCHANGED <<block, MSHR, inflight_fills, inflight_tag_check>>
      /\ stage' = "hits" /\ scan' = 1
  BY DEF FinishInitiate, cacheVars
<1>2. \A i \in 1 .. scan' - 1 : FALSE
  BY <1>1
<1> QED BY <1>1, <1>2 DEF CopyInv, LineOnce, AddressOnce, Addresses, Misses

LEMMA InitCopy == Init => CopyInv
<1> SUFFICES ASSUME Init PROVE CopyInv
  OBVIOUS
<1>1. LineOnce
  BY DEF Init, LineOnce, InvalidLine
<1>2. /\ Addresses(MSHR) = {} /\ Addresses(inflight_fills) = {}
      /\ AddressOnce(MSHR) /\ AddressOnce(inflight_fills) /\ stage = "idle"
  BY DEF Init, Addresses, AddressOnce
<1> QED BY <1>1, <1>2 DEF CopyInv

LEMMA NextCopy ==
  ASSUME match_offset_bits, Inv, CopyInv, [Next]_vars
  PROVE  CopyInv'
<1>1. CASE BeginOperate
  BY <1>1, BeginOperateCopy
<1>2. CASE FinishPacket
  BY <1>2, FinishPacketCopy
<1>3. CASE \E w \in Way \cup {NUM_WAY + 1}, lines \in HookCalls : HandleFill(w, lines)
  BY <1>3, HandleFillCopy
<1>4. CASE \E w \in Way, lines \in HookCalls : TryHit(w, lines)
  BY <1>4, TryHitCopy
<1>5. CASE \E lines \in HookCalls : TryHitMisses(lines)
  BY <1>5, TryHitMissesCopy
<1>6. CASE FinishHits
  BY <1>6, FinishHitsCopy
<1>7. CASE HandleWrite
  BY <1>7 DEF HandleWrite, IsFillWrite
<1>8. CASE MergeIntoMSHR
  BY <1>8, MergeIntoMSHRCopy
<1>9. CASE MergeIntoFill
  BY <1>9, MergeIntoFillCopy
<1>10. CASE ForwardMiss
  BY <1>10, ForwardMissCopy
<1>11. CASE HandleMissFails
  BY <1>11, HandleMissFailsCopy
<1>12. CASE FinishInitiate
  BY <1>12, FinishInitiateCopy
<1>13. CASE \/ FinishReturns \/ FinishFills \/ InitiateTagCheck \/ NextQueue
            \/ InitiatePrefetch \/ \E w \in Way : HandleFillFails(w)
            \/ \E lines \in HookCalls : FinishOperate(lines)
            \/ Upstream \/ Downstream \/ BeginPhase \/ UNCHANGED vars
  <2>1. /\ UNCHANGED copyVars
        /\ stage' \notin {"hits", "misses"}
           \/ UNCHANGED <<stage, scan, budget, inflight_tag_check>>
    BY <1>13 DEF FinishReturns, FinishFills, InitiateTagCheck, NextQueue, InitiatePrefetch,
       HandleFillFails, FillReady, FinishOperate, Upstream, UpperRequest, UpperFinishPacket,
       Downstream, LowerAccept, LowerRespond, BeginPhase, vars, upper, cacheVars, sched,
       copyVars
  <2>2. Addresses(inflight_fills)' = Addresses(inflight_fills) /\ AddressOnce(inflight_fills)'
    BY <2>1 DEF copyVars, Addresses, AddressOnce, CopyInv
  <2> QED BY <2>1, <2>2, CopyStutter DEF copyVars
<1> QED BY <1>1, <1>2, <1>3, <1>4, <1>5, <1>6, <1>7, <1>8, <1>9, <1>10, <1>11, <1>12, <1>13
        DEF Next, Operate

(* Where stores are misses, what is awaited or about to be filled is absent. *)
THEOREM CopyInvHolds == Spec => [](Inv /\ (match_offset_bits => CopyInv))
<1>1. Init => Inv /\ (match_offset_bits => CopyInv)
  BY InitInv, InitCopy
<1>2. /\ Inv /\ (match_offset_bits => CopyInv)
      /\ [Next]_vars
      => (Inv /\ (match_offset_bits => CopyInv))'
  BY NextInv, NextCopy
<1> QED BY <1>1, <1>2, PTL DEF Spec

(* At most one index satisfies a predicate that determines the index. *)
LEMMA AtMostOne ==
  ASSUME NEW S, \A i, j \in S : i = j
  PROVE  Cardinality(S) \in {0, 1} /\ (Cardinality(S) = 1 => S # {})
<1>1. CASE S = {}
  BY <1>1, FS_EmptySet
<1>2. CASE S # {}
  <2> PICK x : x \in S
    BY <1>2
  <2>1. S = {x}
    OBVIOUS
  <2> QED BY <2>1, FS_Singleton
<1> QED BY <1>1, <1>2

(* cache.cc:317-374: no block is fetched, waits to be filled or is present  *)
(* twice, in any combination, in a cache whose stores are misses.           *)
THEOREM OneCopyOfBlock == Spec => [](match_offset_bits => OneCopy)
<1>1. ASSUME CopyInv PROVE OneCopy
  <2> SUFFICES ASSUME NEW b \in Block
               PROVE  Cardinality({i \in DOMAIN MSHR : MSHR[i].addr = b})
                      + Cardinality({i \in DOMAIN inflight_fills : inflight_fills[i].addr = b})
                      + Cardinality({w \in Way : block[SetIndex[b]][w].valid
                                                 /\ block[SetIndex[b]][w].addr = b}) <= 1
    BY DEF OneCopy
  <2> DEFINE M == {i \in DOMAIN MSHR : MSHR[i].addr = b}
             F == {i \in DOMAIN inflight_fills : inflight_fills[i].addr = b}
             L == {w \in Way : block[SetIndex[b]][w].valid /\ block[SetIndex[b]][w].addr = b}
  <2>1. \A i, j \in M : i = j
    BY <1>1 DEF CopyInv, AddressOnce
  <2>2. \A i, j \in F : i = j
    BY <1>1 DEF CopyInv, AddressOnce
  <2>3. \A i, j \in L : i = j
    <3>1. SetIndex[b] \in Set
      BY CacheAssumption
    <3> QED BY <1>1, <3>1 DEF CopyInv, LineOnce
  <2>4. M # {} => b \in Addresses(MSHR)
    BY DEF Addresses
  <2>5. F # {} => b \in Addresses(inflight_fills)
    BY DEF Addresses
  <2>6. L # {} => ~Misses(b)
    BY DEF Misses
  <2>7. ~(M # {} /\ F # {}) /\ ~(M # {} /\ L # {}) /\ ~(F # {} /\ L # {})
    BY <1>1, <2>4, <2>5, <2>6 DEF CopyInv
  <2> HIDE DEF M, F, L
  <2>8. /\ Cardinality(M) \in {0, 1} /\ (Cardinality(M) = 1 => M # {})
        /\ Cardinality(F) \in {0, 1} /\ (Cardinality(F) = 1 => F # {})
        /\ Cardinality(L) \in {0, 1} /\ (Cardinality(L) = 1 => L # {})
    BY <2>1, <2>2, <2>3, AtMostOne
  <2>9. Cardinality(M) + Cardinality(F) + Cardinality(L) <= 1
    BY <2>7, <2>8
  <2> QED BY <2>9 DEF M, F, L
<1>2. Inv /\ (match_offset_bits => CopyInv) => (match_offset_bits => OneCopy)
  BY <1>1
<1> QED BY <1>2, CopyInvHolds, PTL

--------------------------------------------------------------------------------
(* A dirty line leaves by write-back. *)

DirtyLineLeaves(s, w) ==
  NeedsWriteback(s, w) /\ ~(NeedsWriteback(s, w)' /\ block'[s][w].addr = block[s][w].addr)
WrittenBack(s, w) ==
  /\ Len(lower_queue["WQ"]') = Len(lower_queue["WQ"]) + 1
  /\ lower_queue["WQ"]'[Len(lower_queue["WQ"]')].addr = block[s][w].addr

LEMMA HandleFillDirty ==
  ASSUME Inv, NEW x \in Way \cup {NUM_WAY + 1}, NEW lines \in HookCalls, HandleFill(x, lines),
         NEW s \in Set, NEW w \in Way, DirtyLineLeaves(s, w)
  PROVE  WrittenBack(s, w)
<1> PICK fill \in Fill, r \in Set : fill = Head(inflight_fills) /\ r = SetIndex[fill.addr]
  BY HeadFill DEF HandleFill
<1>1. r = s /\ x = w
  <2> SUFFICES ASSUME r # s \/ x # w
               PROVE  FALSE
    OBVIOUS
  <2>1. \/ block' = block
        \/ x \in Way /\ block' = [block EXCEPT ![r][x] = FillBlock(fill)]
    BY DEF HandleFill
  <2>2. block \in [Set -> [Way -> ValidLine \cup {InvalidLine}]]
    BY DEF Inv, TypeOK
  <2>3. block'[s][w] = block[s][w]
    BY <2>1, <2>2
  <2> QED BY <2>3 DEF DirtyLineLeaves, NeedsWriteback
<1> DEFINE wq  == lower_queue["WQ"]
           pkt == WritebackPacket(block[s][w], fill)
<1>2. lower_queue' = [lower_queue EXCEPT !["WQ"] = Append(wq, pkt)]
  <2>1. NeedsWriteback(s, w)
    BY DEF DirtyLineLeaves
  <2> QED BY <1>1, <2>1 DEF HandleFill
<1>3. wq \in Seq(Request) /\ lower_queue \in [Queue -> Seq(Request)]
  BY DEF Inv, TypeOK, Queue
<1>4. pkt \in Request
  BY <1>1, WritebackType DEF DirtyLineLeaves, Inv
<1>5. pkt.addr = block[s][w].addr
  BY DEF WritebackPacket
<1> HIDE DEF wq, pkt
<1>6. Len(Append(wq, pkt)) = Len(wq) + 1 /\ Append(wq, pkt)[Len(wq) + 1] = pkt
  BY <1>3, <1>4
<1>7. lower_queue'["WQ"] = Append(wq, pkt)
  BY <1>2, <1>3 DEF Queue
<1> QED BY <1>5, <1>6, <1>7 DEF WrittenBack, wq

LEMMA NextDirty ==
  ASSUME Inv, [Next]_vars, NEW s \in Set, NEW w \in Way, DirtyLineLeaves(s, w)
  PROVE  WrittenBack(s, w)
<1>1. CASE \E x \in Way \cup {NUM_WAY + 1}, lines \in HookCalls : HandleFill(x, lines)
  BY <1>1, HandleFillDirty
<1>2. CASE \E x \in Way, lines \in HookCalls : TryHit(x, lines)
  <2>1. /\ SameLines(block, block')
        /\ \A r \in Set, v \in Way : NeedsWriteback(r, v) => NeedsWriteback(r, v)'
    BY <1>2, TryHitLines
  <2>2. NeedsWriteback(s, w) /\ NeedsWriteback(s, w)'
    BY <2>1 DEF DirtyLineLeaves
  <2>3. block'[s][w].addr = block[s][w].addr
    BY <2>1, <2>2 DEF SameLines, NeedsWriteback
  <2> QED BY <2>2, <2>3 DEF DirtyLineLeaves
<1>3. CASE block' = block
  BY <1>3 DEF DirtyLineLeaves, NeedsWriteback
<1>4. \/ \E x \in Way \cup {NUM_WAY + 1}, lines \in HookCalls : HandleFill(x, lines)
      \/ \E x \in Way, lines \in HookCalls : TryHit(x, lines)
      \/ block' = block
  BY DEF Next, Operate, BeginOperate, FinishPacket, FinishReturns, HandleFillFails, FinishFills,
     InitiateTagCheck, NextQueue, InitiatePrefetch, FinishInitiate, TryHitMisses, FinishHits,
     HandleWrite, MergeIntoMSHR, MergeIntoFill, ForwardMiss, Done, HandleMissFails,
     FinishOperate, Upstream, UpperRequest, UpperFinishPacket, Downstream, LowerAccept,
     LowerRespond, BeginPhase, cacheVars, vars
<1> QED BY <1>1, <1>2, <1>3, <1>4

(* cache.cc:191-209: however often a fill is retried on a full lower WQ, the *)
(* line it replaces leaves the cache only when its write-back is accepted.   *)
THEOREM DirtyLinesWrittenBack == Spec => DirtyLeavesByWriteback
<1>1. /\ Inv /\ [Next]_vars
      => [\A s \in Set, w \in Way :
            /\ NeedsWriteback(s, w)
            /\ ~(NeedsWriteback(s, w)' /\ block'[s][w].addr = block[s][w].addr)
            => /\ Len(lower_queue["WQ"]') = Len(lower_queue["WQ"]) + 1
               /\ lower_queue["WQ"]'[Len(lower_queue["WQ"]')].addr = block[s][w].addr]_vars
  <2> SUFFICES ASSUME Inv, [Next]_vars, NEW s \in Set, NEW w \in Way,
                      NeedsWriteback(s, w),
                      ~(NeedsWriteback(s, w)' /\ block'[s][w].addr = block[s][w].addr)
               PROVE  /\ Len(lower_queue["WQ"]') = Len(lower_queue["WQ"]) + 1
                      /\ lower_queue["WQ"]'[Len(lower_queue["WQ"]')].addr = block[s][w].addr
    OBVIOUS
  <2>1. DirtyLineLeaves(s, w)
    BY DEF DirtyLineLeaves
  <2> QED BY <2>1, NextDirty DEF WrittenBack
<1> QED BY <1>1, InvHolds, PTL DEF Spec, DirtyLeavesByWriteback

--------------------------------------------------------------------------------
(* The accounting of the local prefetches *)

Flag(e) == IF e.prefetch_from_this THEN 1 ELSE 0
Flagged(s) == Cardinality({i \in DOMAIN s : s[i].prefetch_from_this})
LineFlag(line) == IF line.valid /\ line.prefetch THEN 1 ELSE 0
LocalLines ==
  Cardinality({sw \in Set \X Way : block[sw[1]][sw[2]].valid /\ block[sw[1]][sw[2]].prefetch})

(* Two finite sets that differ in one element. *)
LEMMA CardinalityButOne ==
  ASSUME NEW A, IsFiniteSet(A), NEW B, NEW x, A \ {x} = B \ {x}
  PROVE  /\ Cardinality(A) \in Nat /\ Cardinality(B) \in Nat
         /\ Cardinality(A) - (IF x \in A THEN 1 ELSE 0)
              = Cardinality(B) - (IF x \in B THEN 1 ELSE 0)
<1>1. IsFiniteSet(A \ {x})
  BY FS_RemoveElement
<1>2. IsFiniteSet(B)
  <2>1. IsFiniteSet((A \ {x}) \cup {x})
    BY <1>1, FS_AddElement
  <2>2. B \subseteq (A \ {x}) \cup {x}
    OBVIOUS
  <2> QED BY <2>1, <2>2, FS_Subset
<1>3. /\ Cardinality(A \ {x}) = IF x \in A THEN Cardinality(A) - 1 ELSE Cardinality(A)
      /\ Cardinality(B \ {x}) = IF x \in B THEN Cardinality(B) - 1 ELSE Cardinality(B)
  BY <1>2, FS_RemoveElement
<1>4. Cardinality(A) \in Nat /\ Cardinality(B) \in Nat
  BY <1>2, FS_CardinalityType
<1> QED BY <1>3, <1>4

LEMMA FiniteIndices ==
  ASSUME NEW S, NEW s \in Seq(S)
  PROVE  /\ IsFiniteSet(DOMAIN s)
         /\ IsFiniteSet({i \in DOMAIN s : s[i].prefetch_from_this})
<1>1. DOMAIN s = 1 .. Len(s) /\ Len(s) \in Nat
  OBVIOUS
<1>2. IsFiniteSet(DOMAIN s)
  BY <1>1, FS_Interval
<1>3. {i \in DOMAIN s : s[i].prefetch_from_this} \subseteq DOMAIN s
  OBVIOUS
<1> QED BY <1>2, <1>3, FS_Subset

LEMMA FlaggedType ==
  ASSUME NEW S, NEW s \in Seq(S)
  PROVE  Flagged(s) \in Nat
BY FiniteIndices, FS_CardinalityType DEF Flagged

LEMMA FlaggedAppend ==
  ASSUME NEW S, NEW s \in Seq(S), NEW e \in S
  PROVE  Flagged(Append(s, e)) = Flagged(s) + Flag(e)
<1> DEFINE t == Append(s, e)
           n == Len(s) + 1
           A == {i \in DOMAIN s : s[i].prefetch_from_this}
           B == {i \in DOMAIN t : t[i].prefetch_from_this}
<1>1. /\ Len(s) \in Nat /\ DOMAIN s = 1 .. Len(s) /\ DOMAIN t = 1 .. n
      /\ \A i \in DOMAIN s : t[i] = s[i]
      /\ t[n] = e
  OBVIOUS
<1> HIDE DEF t
<1>2. n \notin A /\ (n \in B <=> e.prefetch_from_this)
  BY <1>1
<1>3. A \ {n} = B \ {n}
  BY <1>1
<1>4. IsFiniteSet(A)
  BY FiniteIndices
<1> HIDE DEF n, A, B
<1>5. /\ Cardinality(A) \in Nat /\ Cardinality(B) \in Nat
      /\ Cardinality(A) - (IF n \in A THEN 1 ELSE 0)
           = Cardinality(B) - (IF n \in B THEN 1 ELSE 0)
  BY <1>3, <1>4, CardinalityButOne
<1>6. Cardinality(B) = Cardinality(A) + Flag(e)
  BY <1>2, <1>5 DEF Flag
<1>7. Flagged(s) = Cardinality(A) /\ Flagged(t) = Cardinality(B)
  BY DEF Flagged, A, B
<1> QED BY <1>6, <1>7 DEF t

LEMMA FlaggedDrops ==
  ASSUME NEW S, NEW s \in Seq(S), NEW i \in DOMAIN s, NEW t, Drops(s, i, t)
  PROVE  Flagged(t) = Flagged(s) - Flag(s[i])
<1> DEFINE A == {k \in DOMAIN s : s[k].prefetch_from_this}
           B == {j \in DOMAIN t : t[j].prefetch_from_this}
<1> PICK from \in [DOMAIN t -> DOMAIN s \ {i}] :
      /\ \A j, k \in DOMAIN t : from[j] = from[k] => j = k
      /\ \A k \in DOMAIN s \ {i} : \E j \in DOMAIN t : from[j] = k
      /\ \A j \in DOMAIN t : t[j] = s[from[j]]
  BY DEF Drops
<1> DEFINE f == [j \in B |-> from[j]]
<1>1. f \in [B -> A \ {i}]
  OBVIOUS
<1>2. \A j, k \in B : f[j] = f[k] => j = k
  OBVIOUS
<1>3. \A k \in A \ {i} : \E j \in B : f[j] = k
  OBVIOUS
<1>4. IsFiniteSet(A) /\ (i \in A <=> s[i].prefetch_from_this)
  BY FiniteIndices
<1> HIDE DEF A, B, f
<1>5. IsFiniteSet(A \ {i})
  BY <1>4, FS_RemoveElement
<1> DEFINE C == A \ {i}
<1>6. f \in Injection(B, C)
  BY <1>1, <1>2 DEF Injection, IsInjective
<1>7. Cardinality(B) = Cardinality(C)
  <2>1. f \in Surjection(B, C)
    BY <1>1, <1>3 DEF Surjection
  <2> HIDE DEF C
  <2>2. Cardinality(B) = Cardinality(C) <=> f \in Surjection(B, C)
    BY <1>5, <1>6, FS_Injection DEF C
  <2> QED BY <2>1, <2>2
<1>8. /\ Cardinality(A \ {i}) = IF i \in A THEN Cardinality(A) - 1 ELSE Cardinality(A)
      /\ Cardinality(A) \in Nat
  BY <1>4, FS_RemoveElement, FS_CardinalityType
<1>9. Cardinality(B) = Cardinality(A) - Flag(s[i])
  BY <1>4, <1>7, <1>8 DEF Flag
<1>10. Flagged(s) = Cardinality(A) /\ Flagged(t) = Cardinality(B)
  BY DEF Flagged, A, B
<1> QED BY <1>9, <1>10

LEMMA FlaggedSame ==
  ASSUME NEW s, NEW t, DOMAIN t = DOMAIN s,
         \A i \in DOMAIN s : t[i].prefetch_from_this = s[i].prefetch_from_this
  PROVE  Flagged(t) = Flagged(s)
<1>1. {i \in DOMAIN t : t[i].prefetch_from_this} = {i \in DOMAIN s : s[i].prefetch_from_this}
  OBVIOUS
<1> QED BY <1>1 DEF Flagged

LEMMA FlaggedExcept ==
  ASSUME NEW S, NEW s \in Seq(S), NEW m \in DOMAIN s, NEW e
  PROVE  Flagged([s EXCEPT ![m] = e]) = Flagged(s) - Flag(s[m]) + Flag(e)
<1> DEFINE t == [s EXCEPT ![m] = e]
           A == {i \in DOMAIN s : s[i].prefetch_from_this}
           B == {i \in DOMAIN t : t[i].prefetch_from_this}
<1>1. /\ DOMAIN t = DOMAIN s /\ t[m] = e
      /\ \A i \in DOMAIN s : i # m => t[i] = s[i]
  OBVIOUS
<1> HIDE DEF t
<1>2. (m \in A <=> s[m].prefetch_from_this) /\ (m \in B <=> e.prefetch_from_this)
  BY <1>1
<1>3. A \ {m} = B \ {m}
  BY <1>1
<1>4. IsFiniteSet(A)
  BY FiniteIndices
<1> HIDE DEF A, B
<1>5. /\ Cardinality(A) \in Nat /\ Cardinality(B) \in Nat
      /\ Cardinality(A) - (IF m \in A THEN 1 ELSE 0)
           = Cardinality(B) - (IF m \in B THEN 1 ELSE 0)
  BY <1>3, <1>4, CardinalityButOne
<1>6. Cardinality(B) = Cardinality(A) - Flag(s[m]) + Flag(e)
  BY <1>2, <1>5 DEF Flag
<1> QED BY <1>6 DEF Flagged, A, B, t

(* One line of the cache changes. *)
LEMMA LocalLinesExcept ==
  ASSUME NEW s \in Set, NEW w \in Way,
         \A r \in Set, v \in Way : r # s \/ v # w => block'[r][v] = block[r][v]
  PROVE  /\ LocalLines \in Nat /\ LocalLines' \in Nat
         /\ LocalLines' = LocalLines - LineFlag(block[s][w]) + LineFlag(block'[s][w])
<1> DEFINE x == <<s, w>>
           A == {sw \in Set \X Way : block[sw[1]][sw[2]].valid /\ block[sw[1]][sw[2]].prefetch}
           B == {sw \in Set \X Way : block'[sw[1]][sw[2]].valid /\ block'[sw[1]][sw[2]].prefetch}
<1>1. /\ x \in A <=> block[s][w].valid /\ block[s][w].prefetch
      /\ x \in B <=> block'[s][w].valid /\ block'[s][w].prefetch
  OBVIOUS
<1>2. A \ {x} = B \ {x}
  <2>1. ASSUME NEW sw \in Set \X Way, sw # x
        PROVE  block'[sw[1]][sw[2]] = block[sw[1]][sw[2]]
    <3>1. sw[1] \in Set /\ sw[2] \in Way /\ (sw[1] # s \/ sw[2] # w)
      BY <2>1
    <3> QED BY <3>1
  <2> QED BY <2>1
<1>3. IsFiniteSet(A)
  <2>1. IsFiniteSet(Set \X Way)
    <3>1. IsFiniteSet(Set) /\ IsFiniteSet(Way)
      BY CacheAssumption, FS_Interval DEF Way
    <3> QED BY <3>1, FS_Product
  <2>2. A \subseteq Set \X Way
    OBVIOUS
  <2> HIDE DEF A
  <2> QED BY <2>1, <2>2, FS_Subset
<1>4. LocalLines = Cardinality(A) /\ LocalLines' = Cardinality(B)
  BY DEF LocalLines
<1> HIDE DEF x, A, B
<1>5. /\ Cardinality(A) \in Nat /\ Cardinality(B) \in Nat
      /\ Cardinality(A) - (IF x \in A THEN 1 ELSE 0)
           = Cardinality(B) - (IF x \in B THEN 1 ELSE 0)
  BY <1>2, <1>3, CardinalityButOne
<1> QED BY <1>1, <1>4, <1>5 DEF LineFlag

(* The local prefetches past internal_PQ, and those already counted. *)
Pending ==
  Flagged(inflight_tag_check) + Flagged(MSHR) + Flagged(inflight_fills) + LocalLines
Counted == sim_stats.pf_useful + sim_stats.pf_useless

CountersOK ==
  /\ Flagged(inflight_tag_check) \in Nat /\ Flagged(MSHR) \in Nat
  /\ Flagged(inflight_fills) \in Nat /\ LocalLines \in Nat
  /\ Len(internal_PQ) \in Nat
  /\ sim_stats.pf_issued \in Nat /\ sim_stats.carried \in Nat
  /\ sim_stats.pf_useful \in Nat /\ sim_stats.pf_useless \in Nat
AccountingIs ==
  /\ Pending \in Nat /\ Counted \in Nat
  /\ PrefetchAccounting <=>
       Counted + Len(internal_PQ) + Pending <= sim_stats.pf_issued + sim_stats.carried

LEMMA CountersType == TypeOK => CountersOK
<1> SUFFICES ASSUME TypeOK PROVE CountersOK
  OBVIOUS
<1>1. /\ inflight_tag_check \in Seq(TagCheck) /\ MSHR \in Seq(Fill)
      /\ inflight_fills \in Seq(Fill) /\ internal_PQ \in Seq(TagCheck)
      /\ sim_stats \in [pf_issued : Nat, pf_useful : Nat, pf_useless : Nat, carried : Nat]
  BY DEF TypeOK
<1>2. LocalLines \in Nat
  <2> DEFINE L == {sw \in Set \X Way :
                     block[sw[1]][sw[2]].valid /\ block[sw[1]][sw[2]].prefetch}
  <2>1. IsFiniteSet(Set) /\ IsFiniteSet(Way)
    BY CacheAssumption, FS_Interval DEF Way
  <2>2. IsFiniteSet(Set \X Way)
    BY <2>1, FS_Product
  <2>3. L \subseteq Set \X Way
    OBVIOUS
  <2>4. LocalLines = Cardinality(L)
    BY DEF LocalLines
  <2> HIDE DEF L
  <2> QED BY <2>2, <2>3, <2>4, FS_Subset, FS_CardinalityType
<1>3. /\ Flagged(inflight_tag_check) \in Nat /\ Flagged(MSHR) \in Nat
      /\ Flagged(inflight_fills) \in Nat
  BY <1>1, FlaggedType
<1> QED BY <1>1, <1>2, <1>3 DEF CountersOK

LEMMA AccountingSum == TypeOK => AccountingIs
<1> SUFFICES ASSUME TypeOK PROVE AccountingIs
  OBVIOUS
<1>1. LivePrefetches = Len(internal_PQ) + Flagged(inflight_tag_check) + Flagged(MSHR)
                       + Flagged(inflight_fills) + LocalLines
  BY DEF LivePrefetches, Flagged, LocalLines
<1>2. CountersOK
  BY CountersType
<1>3. Pending \in Nat /\ Counted \in Nat
  <2>1. Pending \in Nat
    BY <1>2 DEF CountersOK, Pending
  <2>2. Counted \in Nat
    BY <1>2 DEF CountersOK, Counted
  <2> QED BY <2>1, <2>2
<1>4. LivePrefetches = Len(internal_PQ) + Pending
  BY <1>1, <1>2 DEF CountersOK, Pending
<1>5. PrefetchAccounting <=>
        Counted + LivePrefetches <= sim_stats.pf_issued + sim_stats.carried
  BY DEF PrefetchAccounting, Counted
<1>6. Counted + LivePrefetches = Counted + Len(internal_PQ) + Pending
  BY <1>2, <1>3, <1>4 DEF CountersOK
<1> QED BY <1>3, <1>5, <1>6 DEF AccountingIs

(* What the lemmas below know of the counters, before and after the step. *)
CountsKnown == CountersOK /\ AccountingIs

LEMMA Counting == Inv => CountsKnown
BY CountersType, AccountingSum DEF CountsKnown, Inv

LEMMA CountingNext == Inv' => CountsKnown'
BY Counting, PTL

LEMMA SumStays ==
  ASSUME NEW q \in Nat, NEW i \in Nat, NEW r \in Nat, NEW n \in Nat,
         NEW c \in Nat, NEW p \in Nat, NEW c2 \in Nat, NEW p2 \in Nat
  PROVE  c + q + p <= i + r /\ c2 + p2 <= c + p => c2 + (q + n) + p2 <= (i + n) + r
OBVIOUS

(* A step that issues n prefetches and counts at most what is no longer pending. *)
LEMMA Settles ==
  ASSUME Inv, CountsKnown, CountsKnown', PrefetchAccounting, NEW n \in Nat,
         Len(internal_PQ') = Len(internal_PQ) + n,
         sim_stats'.pf_issued = sim_stats.pf_issued + n,
         sim_stats'.carried = sim_stats.carried,
         Counted' + Pending' <= Counted + Pending
  PROVE  PrefetchAccounting'
<1>1. /\ Pending \in Nat /\ Counted \in Nat /\ Pending' \in Nat /\ Counted' \in Nat
      /\ CountersOK /\ CountersOK'
  BY DEF CountsKnown, AccountingIs
<1>2. Counted + Len(internal_PQ) + Pending <= sim_stats.pf_issued + sim_stats.carried
  BY DEF CountsKnown, AccountingIs
<1>3. /\ Len(internal_PQ) \in Nat /\ Len(internal_PQ') \in Nat
      /\ sim_stats.pf_issued \in Nat /\ sim_stats.carried \in Nat
      /\ sim_stats'.pf_issued \in Nat /\ sim_stats'.carried \in Nat
  BY <1>1 DEF CountersOK
<1>4. Counted' + Len(internal_PQ') + Pending' <= sim_stats'.pf_issued + sim_stats'.carried
  <2> PICK q \in Nat, i \in Nat, r \in Nat, c \in Nat, p \in Nat, c2 \in Nat, p2 \in Nat :
        /\ q = Len(internal_PQ) /\ i = sim_stats.pf_issued /\ r = sim_stats.carried
        /\ c = Counted /\ p = Pending /\ c2 = Counted' /\ p2 = Pending'
    BY <1>1, <1>3
  <2>1. c + q + p <= i + r /\ c2 + p2 <= c + p
    BY <1>2
  <2>2. c2 + (q + n) + p2 <= (i + n) + r
    BY <2>1, SumStays
  <2>3. Len(internal_PQ') = q + n /\ sim_stats'.pf_issued = i + n /\ sim_stats'.carried = r
    OBVIOUS
  <2>4. Counted' + Len(internal_PQ') + Pending' = c2 + (q + n) + p2
    BY <2>3
  <2>5. sim_stats'.pf_issued + sim_stats'.carried = (i + n) + r
    BY <2>3
  <2> QED BY <2>2, <2>4, <2>5
<1> QED BY <1>4 DEF CountsKnown, AccountingIs

(* What a call of a prefetcher hook does to the counters. *)
LEMMA HookCounts ==
  ASSUME TypeOK, NEW lines \in HookCalls, PrefetchLines(lines)
  PROVE  /\ Accepted(lines) \in Nat
         /\ Len(internal_PQ') = Len(internal_PQ) + Accepted(lines)
         /\ Issue(sim_stats, lines).pf_issued = sim_stats.pf_issued + Accepted(lines)
         /\ Issue(sim_stats, lines).carried = sim_stats.carried
         /\ Issue(sim_stats, lines).pf_useful = sim_stats.pf_useful
         /\ Issue(sim_stats, lines).pf_useless = sim_stats.pf_useless
         /\ Issue(sim_stats, lines) \in
              [pf_issued : Nat, pf_useful : Nat, pf_useless : Nat, carried : Nat]
<1>1. /\ Accepted(lines) \in Nat
      /\ Len(internal_PQ') = Len(internal_PQ) + Accepted(lines)
  BY PrefetchLinesType
<1>2. sim_stats \in [pf_issued : Nat, pf_useful : Nat, pf_useless : Nat, carried : Nat]
  BY DEF TypeOK
<1> QED BY <1>1, <1>2 DEF Issue

(* By how much the parts of Pending change, and at most the last with Counted. *)
Changes(tags, mshr, fills, lines) ==
  /\ Flagged(inflight_tag_check') = Flagged(inflight_tag_check) + tags
  /\ Flagged(MSHR') = Flagged(MSHR) + mshr
  /\ Flagged(inflight_fills') = Flagged(inflight_fills) + fills
  /\ LocalLines' + Counted' <= LocalLines + Counted + lines

LEMMA Balanced ==
  ASSUME CountsKnown, CountsKnown',
         NEW tags \in Int, NEW mshr \in Int, NEW fills \in Int, NEW lines \in Int,
         Changes(tags, mshr, fills, lines), tags + mshr + fills + lines <= 0
  PROVE  Counted' + Pending' <= Counted + Pending
<1>1. PICK a \in Nat, b \in Nat, c \in Nat, d \in Nat, e \in Nat, d2 \in Nat, e2 \in Nat :
        /\ a = Flagged(inflight_tag_check) /\ b = Flagged(MSHR)
        /\ c = Flagged(inflight_fills) /\ d = LocalLines /\ e = Counted
        /\ d2 = LocalLines' /\ e2 = Counted'
  BY DEF CountsKnown, CountersOK, AccountingIs
<1>2. Pending = a + b + c + d
  BY <1>1 DEF Pending
<1>3. Pending' = (a + tags) + (b + mshr) + (c + fills) + d2 /\ d2 + e2 <= d + e + lines
  BY <1>1 DEF Pending, Changes
<1>4. e2 + ((a + tags) + (b + mshr) + (c + fills) + d2) <= e + (a + b + c + d)
  BY <1>3
<1> QED BY <1>1, <1>2, <1>3, <1>4

(* What stays as it is changes by 0. *)
LEMMA NoChange ==
  ASSUME CountsKnown
  PROVE  /\ Flagged(inflight_tag_check) = Flagged(inflight_tag_check) + 0
         /\ Flagged(MSHR) = Flagged(MSHR) + 0
         /\ Flagged(inflight_fills) = Flagged(inflight_fills) + 0
         /\ LocalLines + Counted <= LocalLines + Counted + 0
<1>1. /\ Flagged(inflight_tag_check) \in Nat /\ Flagged(MSHR) \in Nat
      /\ Flagged(inflight_fills) \in Nat /\ LocalLines \in Nat /\ Counted \in Nat
  BY DEF CountsKnown, CountersOK, AccountingIs
<1> QED BY <1>1

(* The element appended has the type of the sequence it becomes part of. *)
LEMMA AppendedIn ==
  ASSUME NEW S, NEW s \in Seq(S), NEW e, Append(s, e) \in Seq(S)
  PROVE  e \in S
<1>1. Len(s) \in Nat /\ Append(s, e)[Len(s) + 1] = e
  OBVIOUS
<1>2. Len(s) + 1 \in DOMAIN Append(s, e)
  OBVIOUS
<1> QED BY <1>1, <1>2

LEMMA FlagType ==
  ASSUME NEW e
  PROVE  Flag(e) \in {0, 1} /\ LineFlag(e) \in {0, 1}
BY DEF Flag, LineFlag

(* A step that issues no prefetch. *)
LEMMA SettlesQuietly ==
  ASSUME Inv, CountsKnown, CountsKnown', PrefetchAccounting,
         internal_PQ' = internal_PQ,
         sim_stats'.pf_issued = sim_stats.pf_issued,
         sim_stats'.carried = sim_stats.carried,
         Counted' + Pending' <= Counted + Pending
  PROVE  PrefetchAccounting'
<1>1. Len(internal_PQ) \in Nat /\ sim_stats.pf_issued \in Nat
  BY DEF CountsKnown, CountersOK
<1>2. /\ Len(internal_PQ') = Len(internal_PQ) + 0
      /\ sim_stats'.pf_issued = sim_stats.pf_issued + 0 /\ 0 \in Nat
  BY <1>1
<1> QED BY <1>2, Settles

LEMMA BeginOperateAccounts ==
  ASSUME Inv, CountsKnown, CountsKnown', PrefetchAccounting, BeginOperate
  PROVE  PrefetchAccounting'
<1>1. /\ inflight_tag_check' = Tick(inflight_tag_check)
      /\ inflight_fills' = Tick(inflight_fills)
      /\ UNCHANGED <<internal_PQ, MSHR, block, sim_stats>>
  BY DEF BeginOperate
<1>2. Flagged(inflight_tag_check') = Flagged(inflight_tag_check)
  <2>1. \A e \in TagCheck : TickEntry(e).prefetch_from_this = e.prefetch_from_this
    BY DEF TickEntry, TagCheck
  <2>2. \A i \in DOMAIN inflight_tag_check : inflight_tag_check[i] \in TagCheck
    BY DEF Inv, TypeOK
  <2>3. /\ DOMAIN inflight_tag_check' = DOMAIN inflight_tag_check
        /\ \A i \in DOMAIN inflight_tag_check :
             inflight_tag_check'[i].prefetch_from_this = inflight_tag_check[i].prefetch_from_this
    BY <1>1, <2>1, <2>2 DEF Tick
  <2> QED BY <2>3, FlaggedSame
<1>3. Flagged(inflight_fills') = Flagged(inflight_fills)
  <2>1. \A e \in Fill : TickEntry(e).prefetch_from_this = e.prefetch_from_this
    BY DEF TickEntry, Fill
  <2>2. \A i \in DOMAIN inflight_fills : inflight_fills[i] \in Fill
    BY DEF Inv, TypeOK
  <2>3. /\ DOMAIN inflight_fills' = DOMAIN inflight_fills
        /\ \A i \in DOMAIN inflight_fills :
             inflight_fills'[i].prefetch_from_this = inflight_fills[i].prefetch_from_this
    BY <1>1, <2>1, <2>2 DEF Tick
  <2> QED BY <2>3, FlaggedSame
<1>4. Pending' = Pending /\ Counted' = Counted
  BY <1>1, <1>2, <1>3 DEF Pending, Counted, LocalLines
<1>5. Counted' + Pending' <= Counted + Pending
  BY <1>4 DEF CountsKnown, AccountingIs
<1> QED BY <1>1, <1>5, SettlesQuietly

LEMMA FinishPacketAccounts ==
  ASSUME Inv, CountsKnown, CountsKnown', PrefetchAccounting, FinishPacket
  PROVE  PrefetchAccounting'
<1> PICK m \in DOMAIN MSHR :
      /\ inflight_fills' =
           Append(inflight_fills, [MSHR[m] EXCEPT !.wait = Latency(FILL_LATENCY)])
      /\ MSHR' = SwapPop(MSHR, m)
  BY DEF FinishPacket
<1> DEFINE x == [MSHR[m] EXCEPT !.wait = Latency(FILL_LATENCY)]
<1>1. /\ m \in 1 .. Len(MSHR) /\ MSHR \in Seq(Fill) /\ MSHR[m] \in Fill
      /\ inflight_fills \in Seq(Fill)
  BY DEF Inv, TypeOK
<1>2. x \in Fill /\ Flag(x) = Flag(MSHR[m])
  BY <1>1, LatencyType, CacheAssumption DEF Inv, Fill, Flag
<1>3. /\ inflight_fills' = Append(inflight_fills, x)
      /\ UNCHANGED <<internal_PQ, inflight_tag_check, block, sim_stats>>
  BY DEF FinishPacket
<1> HIDE DEF x
<1> PICK f \in {0, 1} : f = Flag(MSHR[m])
  BY FlagType
<1>4. Flagged(MSHR') = Flagged(MSHR) - f
  BY <1>1, SwapPopDrops, FlaggedDrops
<1>5. Flagged(inflight_fills') = Flagged(inflight_fills) + f
  BY <1>1, <1>2, <1>3, FlaggedAppend
<1>6. Flagged(MSHR') = Flagged(MSHR) + (0 - f)
  BY <1>4 DEF CountsKnown, CountersOK
<1>7. LocalLines' = LocalLines /\ Counted' = Counted
  BY <1>3 DEF LocalLines, Counted
<1>8. Changes(0, 0 - f, f, 0)
  BY <1>3, <1>5, <1>6, <1>7, NoChange DEF Changes
<1>9. Counted' + Pending' <= Counted + Pending
  BY <1>8, Balanced
<1> QED BY <1>3, <1>9, SettlesQuietly

LEMMA HandleFillAccounts ==
  ASSUME Inv, CountsKnown, CountsKnown', PrefetchAccounting, NEW w \in Way \cup {NUM_WAY + 1},
         NEW lines \in HookCalls, HandleFill(w, lines)
  PROVE  PrefetchAccounting'
<1> PICK fill \in Fill, s \in Set : fill = Head(inflight_fills) /\ s = SetIndex[fill.addr]
  BY HeadFill DEF HandleFill
<1>1. /\ inflight_fills \in Seq(Fill) /\ inflight_fills # <<>>
      /\ inflight_fills' = Tail(inflight_fills)
      /\ UNCHANGED <<MSHR, inflight_tag_check>>
      /\ PrefetchLines(lines)
  BY DEF HandleFill, FillReady, Inv, TypeOK
<1>2. Flagged(inflight_fills') = Flagged(inflight_fills) - Flag(fill)
  BY <1>1, TailDrops, FlaggedDrops
<1>3. /\ LocalLines \in Nat /\ LocalLines' \in Nat
      /\ Counted' + LocalLines' <= Counted + LocalLines + Flag(fill)
      /\ sim_stats'.pf_issued = sim_stats.pf_issued + Accepted(lines)
      /\ sim_stats'.carried = sim_stats.carried
  <2> DEFINE stats == Issue(sim_stats, lines)
  <2>1. /\ stats.pf_issued = sim_stats.pf_issued + Accepted(lines)
        /\ stats.carried = sim_stats.carried
        /\ stats.pf_useful = sim_stats.pf_useful
        /\ stats.pf_useless = sim_stats.pf_useless
        /\ stats \in [pf_issued : Nat, pf_useful : Nat, pf_useless : Nat, carried : Nat]
    BY <1>1, HookCounts DEF Inv
  <2>2. sim_stats.pf_useful \in Nat /\ sim_stats.pf_useless \in Nat /\ LocalLines \in Nat
    BY DEF CountsKnown, CountersOK
  <2>3. CASE w \in Way
    <3>1. /\ block' = [block EXCEPT ![s][w] = FillBlock(fill)]
          /\ sim_stats' = IF block[s][w].valid /\ block[s][w].prefetch
                          THEN [stats EXCEPT !.pf_useless = @ + 1]
                          ELSE stats
      BY <2>3 DEF HandleFill
    <3>2. block \in [Set -> [Way -> ValidLine \cup {InvalidLine}]]
      BY DEF Inv, TypeOK
    <3>3. /\ block'[s][w] = FillBlock(fill)
          /\ \A r \in Set, v \in Way : r # s \/ v # w => block'[r][v] = block[r][v]
      BY <2>3, <3>1, <3>2
    <3>4. LineFlag(block'[s][w]) = Flag(fill)
      BY <3>3 DEF FillBlock, LineFlag, Flag
    <3>5. /\ LocalLines' \in Nat
          /\ LocalLines' = LocalLines - LineFlag(block[s][w]) + Flag(fill)
      BY <2>3, <3>3, <3>4, LocalLinesExcept
    <3> HIDE DEF stats
    <3>6. CASE block[s][w].valid /\ block[s][w].prefetch
      <4>1. sim_stats' = [stats EXCEPT !.pf_useless = @ + 1] /\ LineFlag(block[s][w]) = 1
        BY <3>1, <3>6 DEF LineFlag
      <4>2. /\ sim_stats'.pf_useless = stats.pf_useless + 1
            /\ sim_stats'.pf_useful = stats.pf_useful
            /\ sim_stats'.pf_issued = stats.pf_issued
            /\ sim_stats'.carried = stats.carried
        BY <2>1, <4>1
      <4> QED BY <2>1, <2>2, <3>5, <4>1, <4>2, FlagType DEF Counted
    <3>7. CASE ~(block[s][w].valid /\ block[s][w].prefetch)
      <4>1. sim_stats' = stats /\ LineFlag(block[s][w]) = 0
        BY <3>1, <3>7 DEF LineFlag
      <4> QED BY <2>1, <2>2, <3>5, <4>1, FlagType DEF Counted
    <3> QED BY <3>6, <3>7
  <2>4. CASE w \notin Way
    <3>1. block' = block /\ sim_stats' = stats
      BY <2>4 DEF HandleFill
    <3>2. LocalLines' = LocalLines
      BY <3>1 DEF LocalLines
    <3> HIDE DEF stats
    <3> QED BY <2>1, <2>2, <3>1, <3>2, FlagType DEF Counted
  <2> QED BY <2>3, <2>4
<1> PICK f \in {0, 1} : f = Flag(fill)
  BY FlagType
<1>4. /\ Flagged(inflight_fills') = Flagged(inflight_fills) + (0 - f)
      /\ LocalLines' + Counted' <= LocalLines + Counted + f
  <2>1. Flagged(inflight_fills) \in Nat /\ Counted \in Nat /\ Counted' \in Nat
    BY DEF CountsKnown, CountersOK, AccountingIs
  <2> QED BY <1>2, <1>3, <2>1
<1>5. Counted' + Pending' <= Counted + Pending
  <2> PICK e \in Int : e = 0 - f
    OBVIOUS
  <2>1. Changes(0, 0, e, f)
    BY <1>1, <1>4, NoChange DEF Changes
  <2>2. 0 + 0 + e + f <= 0 /\ f \in Int
    OBVIOUS
  <2> QED BY <2>1, <2>2, Balanced
<1>6. Accepted(lines) \in Nat /\ Len(internal_PQ') = Len(internal_PQ) + Accepted(lines)
  BY <1>1, HookCounts DEF Inv
<1> QED BY <1>3, <1>5, <1>6, Settles

LEMMA InitiateTagCheckAccounts ==
  ASSUME Inv, CountsKnown, CountsKnown', PrefetchAccounting, InitiateTagCheck,
         inflight_tag_check' \in Seq(TagCheck)
  PROVE  PrefetchAccounting'
<1> DEFINE req == Head(upper_queue[Head(todo)[1]][Head(todo)[2]])
           x   == TagLookup(req, ToReturn(req, Head(todo)[1]))
<1>0. /\ inflight_tag_check' = Append(inflight_tag_check, x)
      /\ x.prefetch_from_this = FALSE
  BY DEF InitiateTagCheck, TagLookup
<1> HIDE DEF x
<1>1. UNCHANGED <<internal_PQ, MSHR, inflight_fills, block, sim_stats>>
  BY DEF InitiateTagCheck
<1>2. Flagged(inflight_tag_check') = Flagged(inflight_tag_check) + Flag(x)
  <2>1. inflight_tag_check \in Seq(TagCheck)
    BY DEF Inv, TypeOK
  <2> QED BY <1>0, <2>1, AppendedIn, FlaggedAppend
<1>3. LocalLines' = LocalLines /\ Counted' = Counted /\ Flag(x) = 0
  BY <1>0, <1>1 DEF LocalLines, Counted, Flag
<1>4. Changes(0, 0, 0, 0)
  BY <1>1, <1>2, <1>3, NoChange DEF Changes
<1>5. Counted' + Pending' <= Counted + Pending
  BY <1>4, Balanced
<1> QED BY <1>1, <1>5, SettlesQuietly

LEMMA BoundMoves ==
  ASSUME NEW a \in Nat, NEW b \in Nat, NEW c \in Nat, NEW d \in Nat, NEW e \in Nat,
         NEW f \in {0, 1}, a + b + c <= d + e
  PROVE  a + (b - 1) + (c + f) <= d + e
OBVIOUS

LEMMA InitiatePrefetchAccounts ==
  ASSUME Inv, CountsKnown, CountsKnown', PrefetchAccounting, InitiatePrefetch,
         inflight_tag_check' \in Seq(TagCheck)
  PROVE  PrefetchAccounting'
<1> PICK x : inflight_tag_check' = Append(inflight_tag_check, x)
  BY DEF InitiatePrefetch
<1>1. /\ internal_PQ # <<>> /\ internal_PQ' = Tail(internal_PQ)
      /\ UNCHANGED <<MSHR, inflight_fills, block, sim_stats>>
  BY DEF InitiatePrefetch
<1>2. Flagged(inflight_tag_check') = Flagged(inflight_tag_check) + Flag(x)
  <2>1. inflight_tag_check \in Seq(TagCheck)
    BY DEF Inv, TypeOK
  <2> QED BY <2>1, AppendedIn, FlaggedAppend
<1>3. Len(internal_PQ') = Len(internal_PQ) - 1
  <2>1. internal_PQ \in Seq(TagCheck)
    BY DEF Inv, TypeOK
  <2> QED BY <1>1, <2>1, TailProperties
<1>4. PICK q \in Nat, c \in Nat, p \in Nat, p2 \in Nat, i \in Nat, r \in Nat, f \in {0, 1} :
      /\ q = Len(internal_PQ) /\ c = Counted /\ p = Pending /\ p2 = Pending'
      /\ i = sim_stats.pf_issued /\ r = sim_stats.carried /\ f = Flag(x)
  BY FlagType DEF CountsKnown, CountersOK, AccountingIs
<1>5. p2 = p + f
  <2>1. PICK a \in Nat, b \in Nat, d \in Nat, l \in Nat :
        /\ a = Flagged(inflight_tag_check) /\ b = Flagged(MSHR)
        /\ d = Flagged(inflight_fills) /\ l = LocalLines
    BY DEF CountsKnown, CountersOK
  <2>2. p = a + b + d + l
    BY <1>4, <2>1 DEF Pending
  <2>3. LocalLines' = l
    BY <1>1, <2>1 DEF LocalLines
  <2>4. p2 = (a + f) + b + d + l
    <3>1. Flagged(inflight_tag_check') = a + f
      BY <1>2, <1>4, <2>1
    <3>2. Flagged(MSHR') = b /\ Flagged(inflight_fills') = d
      BY <1>1, <2>1
    <3>3. Pending' = Flagged(inflight_tag_check') + Flagged(MSHR') + Flagged(inflight_fills')
                     + LocalLines'
      BY DEF Pending
    <3> QED BY <1>4, <2>3, <3>1, <3>2, <3>3
  <2>5. (a + f) + b + d + l = (a + b + d + l) + f
    OBVIOUS
  <2> QED BY <2>2, <2>4, <2>5
<1>6. c + q + p <= i + r
  BY <1>4 DEF CountsKnown, AccountingIs
<1>7. c + (q - 1) + p2 <= i + r
  <2>1. c + (q - 1) + (p + f) <= i + r
    BY <1>6, BoundMoves
  <2> QED BY <1>5, <2>1
<1>8. Counted' = c /\ sim_stats'.pf_issued = i /\ sim_stats'.carried = r
  BY <1>1, <1>4 DEF Counted
<1>9. Counted' + Len(internal_PQ') + Pending' <= sim_stats'.pf_issued + sim_stats'.carried
  BY <1>3, <1>4, <1>7, <1>8
<1> QED BY <1>9 DEF CountsKnown, AccountingIs

(* A hit answers the packet; it makes the prefetch of its line useful once. *)
LEMMA TryHitAccounts ==
  ASSUME Inv, CountsKnown, CountsKnown', PrefetchAccounting, NEW w \in Way,
         NEW lines \in HookCalls, TryHit(w, lines)
  PROVE  PrefetchAccounting'
<1> DEFINE pkt   == inflight_tag_check[scan]
           stats == Issue(sim_stats, lines)
<1> PICK s \in Set : s = SetIndex[pkt.addr]
  BY ScannedDrops, CacheAssumption DEF TryHit
<1>1. /\ scan \in DOMAIN inflight_tag_check
      /\ Drops(inflight_tag_check, scan, inflight_tag_check')
      /\ inflight_tag_check \in Seq(TagCheck)
      /\ PrefetchLines(lines) /\ UNCHANGED <<MSHR, inflight_fills>>
  <2>1. inflight_tag_check \in Seq(TagCheck)
    BY DEF Inv, TypeOK
  <2> QED BY <2>1, ScannedDrops DEF TryHit
<1> PICK f \in {0, 1} : f = Flag(pkt)
  BY FlagType
<1>2. Flagged(inflight_tag_check') = Flagged(inflight_tag_check) + (0 - f)
  <2>1. Flagged(inflight_tag_check') = Flagged(inflight_tag_check) - f
    BY <1>1, FlaggedDrops
  <2>2. Flagged(inflight_tag_check) \in Nat
    BY DEF CountsKnown, CountersOK
  <2> QED BY <2>1, <2>2
<1>3. /\ Accepted(lines) \in Nat
      /\ Len(internal_PQ') = Len(internal_PQ) + Accepted(lines)
      /\ stats.pf_issued = sim_stats.pf_issued + Accepted(lines)
      /\ stats.carried = sim_stats.carried
      /\ stats.pf_useful = sim_stats.pf_useful
      /\ stats.pf_useless = sim_stats.pf_useless
      /\ stats \in [pf_issued : Nat, pf_useful : Nat, pf_useless : Nat, carried : Nat]
  BY <1>1, HookCounts DEF Inv
<1> DEFINE useful == block[s][w].prefetch /\ ~pkt.prefetch_from_this
<1>4. block[s][w] \in ValidLine
  <2>1. block[s][w].valid
    BY DEF TryHit, HitWay
  <2>2. block[s][w] \in ValidLine \cup {InvalidLine}
    BY DEF Inv, TypeOK
  <2> QED BY <2>1, <2>2 DEF InvalidLine
<1>5. /\ block' = [block EXCEPT ![s][w].dirty = @ \/ pkt.type = "WRITE",
                                ![s][w].prefetch = @ /\ ~useful]
      /\ sim_stats' = IF useful THEN [stats EXCEPT !.pf_useful = @ + 1] ELSE stats
  BY DEF TryHit
<1>6. /\ block'[s][w].valid = TRUE /\ block[s][w].valid = TRUE
      /\ block'[s][w].prefetch = (block[s][w].prefetch /\ ~useful)
      /\ \A r \in Set, v \in Way : r # s \/ v # w => block'[r][v] = block[r][v]
  <2> HIDE DEF pkt, useful
  <2> QED BY <1>4, <1>5 DEF Inv, TypeOK, ValidLine
<1>7. /\ LocalLines \in Nat /\ LocalLines' \in Nat
      /\ LocalLines' = LocalLines - LineFlag(block[s][w]) + LineFlag(block'[s][w])
  BY <1>6, LocalLinesExcept
<1>8. /\ LocalLines' + Counted' <= LocalLines + Counted + 0
      /\ sim_stats'.pf_issued = stats.pf_issued /\ sim_stats'.carried = stats.carried
  <2>1. sim_stats.pf_useful \in Nat /\ sim_stats.pf_useless \in Nat
    BY DEF CountsKnown, CountersOK
  <2> HIDE DEF stats
  <2>2. CASE useful
    <3>1. LineFlag(block[s][w]) = 1 /\ LineFlag(block'[s][w]) = 0
      BY <1>6, <2>2 DEF LineFlag
    <3>2. /\ sim_stats'.pf_useful = stats.pf_useful + 1
          /\ sim_stats'.pf_useless = stats.pf_useless
          /\ sim_stats'.pf_issued = stats.pf_issued /\ sim_stats'.carried = stats.carried
      <4>1. sim_stats' = [stats EXCEPT !.pf_useful = @ + 1]
        BY <1>5, <2>2
      <4> HIDE DEF useful, pkt
      <4> QED BY <1>3, <4>1
    <3>3. LocalLines' = LocalLines - 1
      BY <1>7, <3>1
    <3>4. Counted = sim_stats.pf_useful + sim_stats.pf_useless
          /\ Counted' = sim_stats'.pf_useful + sim_stats'.pf_useless
      BY DEF Counted
    <3>5. Counted' = Counted + 1 /\ Counted \in Nat
      <4> PICK u \in Nat, v \in Nat : u = sim_stats.pf_useful /\ v = sim_stats.pf_useless
        BY <2>1
      <4>1. Counted = u + v /\ Counted' = (u + 1) + v
        BY <1>3, <3>2, <3>4
      <4>2. (u + 1) + v = (u + v) + 1 /\ u + v \in Nat
        OBVIOUS
      <4> QED BY <4>1, <4>2
    <3> QED BY <1>7, <3>2, <3>3, <3>5
  <2>3. CASE ~useful
    <3>1. LineFlag(block[s][w]) = LineFlag(block'[s][w])
      BY <1>6, <2>3 DEF LineFlag
    <3>2. sim_stats' = stats
      BY <1>5, <2>3
    <3>3. LocalLines' = LocalLines
      BY <1>7, <3>1, FlagType
    <3>4. Counted' = Counted /\ Counted \in Nat
      BY <1>3, <2>1, <3>2 DEF Counted
    <3> QED BY <1>7, <3>2, <3>3, <3>4
  <2> QED BY <2>2, <2>3
<1>9. Changes(0 - f, 0, 0, 0)
  BY <1>1, <1>2, <1>8, NoChange DEF Changes
<1> HIDE DEF pkt, stats, useful
<1>10. 0 - f \in Int /\ (0 - f) + 0 + 0 + 0 <= 0
  OBVIOUS
<1>11. Counted' + Pending' <= Counted + Pending
  BY <1>9, <1>10, Balanced
<1> QED BY <1>3, <1>8, <1>11, Settles

(* A hook is called and nothing else counts. *)
LEMMA HookAccounts ==
  ASSUME Inv, CountsKnown, CountsKnown', PrefetchAccounting, NEW lines \in HookCalls,
         PrefetchLines(lines), sim_stats' = Issue(sim_stats, lines),
         UNCHANGED <<inflight_tag_check, MSHR, inflight_fills, block>>
  PROVE  PrefetchAccounting'
<1>1. /\ Accepted(lines) \in Nat
      /\ Len(internal_PQ') = Len(internal_PQ) + Accepted(lines)
      /\ sim_stats'.pf_issued = sim_stats.pf_issued + Accepted(lines)
      /\ sim_stats'.carried = sim_stats.carried
      /\ sim_stats'.pf_useful = sim_stats.pf_useful
      /\ sim_stats'.pf_useless = sim_stats.pf_useless
  BY HookCounts DEF Inv
<1>2. LocalLines' = LocalLines /\ Counted' = Counted
  BY <1>1 DEF LocalLines, Counted
<1>3. Changes(0, 0, 0, 0)
  BY <1>2, NoChange DEF Changes
<1>4. Counted' + Pending' <= Counted + Pending
  BY <1>3, Balanced
<1> QED BY <1>1, <1>4, Settles

(* The packet a miss hands over. *)
LEMMA MissLeaves ==
  ASSUME Inv, CountsKnown, MissTurn, Done
  PROVE  /\ Flagged(inflight_tag_check')
              = Flagged(inflight_tag_check) + (0 - Flag(inflight_tag_check[scan]))
         /\ UNCHANGED <<internal_PQ, block>> /\ LocalLines' = LocalLines
<1> PICK f \in {0, 1} : f = Flag(inflight_tag_check[scan])
  BY FlagType
<1>1. inflight_tag_check \in Seq(TagCheck) /\ Flagged(inflight_tag_check) \in Nat
  BY DEF Inv, TypeOK, CountsKnown, CountersOK
<1>2. Flagged(inflight_tag_check') = Flagged(inflight_tag_check) - f
  BY <1>1, ScannedDrops, FlaggedDrops DEF Done
<1>3. block' = block /\ internal_PQ' = internal_PQ
  BY DEF Done
<1> QED BY <1>1, <1>2, <1>3 DEF LocalLines

LEMMA HandleWriteAccounts ==
  ASSUME Inv, CountsKnown, CountsKnown', PrefetchAccounting, HandleWrite
  PROVE  PrefetchAccounting'
<1> DEFINE pkt == inflight_tag_check[scan]
           x   == FillType(pkt, Latency(FILL_LATENCY))
<1>1. /\ MissTurn /\ Done /\ MSHR' = MSHR /\ sim_stats' = sim_stats
      /\ inflight_fills' = Append(inflight_fills, x)
  BY DEF HandleWrite
<1>2. pkt \in TagCheck /\ inflight_fills \in Seq(Fill)
  BY <1>1, ScannedDrops DEF Inv, TypeOK
<1>3. x \in Fill /\ Flag(x) = Flag(pkt)
  BY <1>2, FillTypeType, LatencyType, CacheAssumption DEF Inv, FillType, Flag
<1> HIDE DEF x
<1>4. Flagged(inflight_fills') = Flagged(inflight_fills) + Flag(pkt)
  BY <1>1, <1>2, <1>3, FlaggedAppend
<1>5. /\ Flagged(inflight_tag_check') = Flagged(inflight_tag_check) + (0 - Flag(pkt))
      /\ internal_PQ' = internal_PQ /\ LocalLines' = LocalLines
  BY <1>1, MissLeaves
<1> PICK f \in {0, 1} : f = Flag(pkt)
  BY FlagType
<1>6. Counted' = Counted
  BY <1>1 DEF Counted
<1>7. Changes(0 - f, 0, f, 0)
  BY <1>1, <1>4, <1>5, <1>6, NoChange DEF Changes
<1>8. Counted' + Pending' <= Counted + Pending
  BY <1>7, Balanced
<1> QED BY <1>1, <1>5, <1>8, SettlesQuietly

LEMMA ForwardMissAccounts ==
  ASSUME Inv, CountsKnown, CountsKnown', PrefetchAccounting, ForwardMiss
  PROVE  PrefetchAccounting'
<1> DEFINE pkt == inflight_tag_check[scan]
           x   == FillType(pkt, 0)
<1>1. /\ MissTurn /\ Done /\ inflight_fills' = inflight_fills /\ sim_stats' = sim_stats
      /\ MSHR' \in {MSHR, Append(MSHR, x)}
  BY DEF ForwardMiss, Allocated
<1>2. pkt \in TagCheck /\ MSHR \in Seq(Fill)
  BY <1>1, ScannedDrops DEF Inv, TypeOK
<1>3. x \in Fill /\ Flag(x) = Flag(pkt)
  BY <1>2, FillTypeType DEF FillType, Flag
<1> HIDE DEF x
<1> PICK f \in {0, 1} : f = Flag(pkt)
  BY FlagType
<1>4. Flagged(MSHR') = Flagged(MSHR) + 0 \/ Flagged(MSHR') = Flagged(MSHR) + f
  BY <1>1, <1>2, <1>3, FlaggedAppend, NoChange
<1>5. /\ Flagged(inflight_tag_check') = Flagged(inflight_tag_check) + (0 - f)
      /\ internal_PQ' = internal_PQ /\ LocalLines' = LocalLines
  BY <1>1, MissLeaves
<1>6. Counted' = Counted
  BY <1>1 DEF Counted
<1>7. Changes(0 - f, 0, 0, 0) \/ Changes(0 - f, f, 0, 0)
  BY <1>1, <1>4, <1>5, <1>6, NoChange DEF Changes
<1>8. Counted' + Pending' <= Counted + Pending
  <2>1. CASE Changes(0 - f, 0, 0, 0)
    BY <2>1, Balanced
  <2>2. CASE Changes(0 - f, f, 0, 0)
    BY <2>2, Balanced
  <2> QED BY <1>7, <2>1, <2>2
<1> QED BY <1>1, <1>5, <1>8, SettlesQuietly

(* A merge: what is counted as useful is no longer a local prefetch. *)
MergeCost(entry, pkt) ==
  IF entry.type = "PREFETCH" /\ entry.prefetch_from_this /\ pkt.type # "PREFETCH" THEN 1 ELSE 0

LEMMA MergedFlag ==
  ASSUME NEW entry \in Fill, NEW pkt \in TagCheck
  PROVE  Flag(Merge(entry, FillType(pkt, 0))) + MergeCost(entry, pkt) <= Flag(entry) + Flag(pkt)
<1>1. Merge(entry, FillType(pkt, 0)).prefetch_from_this
        = IF pkt.type = "PREFETCH" THEN entry.prefetch_from_this ELSE pkt.prefetch_from_this
  BY DEF Merge, FillType, Fill, TagCheck
<1> QED BY <1>1 DEF Flag, MergeCost, Fill, TagCheck

LEMMA MergeCounts ==
  ASSUME Inv, CountsKnown, NEW entry, NEW pkt, CountMerge(entry, pkt)
  PROVE  /\ Counted' = Counted + MergeCost(entry, pkt)
         /\ sim_stats'.pf_issued = sim_stats.pf_issued
         /\ sim_stats'.carried = sim_stats.carried
<1>1. sim_stats \in [pf_issued : Nat, pf_useful : Nat, pf_useless : Nat, carried : Nat]
  BY DEF Inv, TypeOK
<1>2. CASE entry.type = "PREFETCH" /\ entry.prefetch_from_this /\ pkt.type # "PREFETCH"
  BY <1>1, <1>2 DEF CountMerge, MergeCost, Counted
<1>3. CASE ~(entry.type = "PREFETCH" /\ entry.prefetch_from_this /\ pkt.type # "PREFETCH")
  BY <1>1, <1>3 DEF CountMerge, MergeCost, Counted
<1> QED BY <1>2, <1>3

LEMMA MergeChanges ==
  ASSUME NEW old \in Nat, NEW counted \in Nat, NEW lines \in Nat,
         NEW a \in {0, 1}, NEW b \in {0, 1}, NEW c \in {0, 1}, NEW f \in {0, 1},
         a + b <= c + f
  PROVE  /\ old - c + a = old + (a - c)
         /\ lines + (counted + b) <= lines + counted + b
         /\ (0 - f) + (a - c) + b <= 0
         /\ a - c \in Int
OBVIOUS

LEMMA MergeIntoMSHRAccounts ==
  ASSUME Inv, CountsKnown, CountsKnown', PrefetchAccounting, MergeIntoMSHR
  PROVE  PrefetchAccounting'
<1> DEFINE pkt == inflight_tag_check[scan]
<1> PICK m \in DOMAIN MSHR :
      /\ MSHR' = [MSHR EXCEPT ![m] = Merge(@, FillType(pkt, 0))]
      /\ CountMerge(MSHR[m], pkt)
  BY DEF MergeIntoMSHR
<1> DEFINE x == Merge(MSHR[m], FillType(pkt, 0))
<1>1. /\ MissTurn /\ Done /\ inflight_fills' = inflight_fills
      /\ MSHR' = [MSHR EXCEPT ![m] = x]
  BY DEF MergeIntoMSHR
<1>2. pkt \in TagCheck /\ MSHR \in Seq(Fill) /\ MSHR[m] \in Fill
  BY <1>1, ScannedDrops DEF Inv, TypeOK
<1> PICK a \in {0, 1}, b \in {0, 1}, c \in {0, 1}, f \in {0, 1} :
      /\ a = Flag(x) /\ b = MergeCost(MSHR[m], pkt) /\ c = Flag(MSHR[m]) /\ f = Flag(pkt)
  BY FlagType DEF MergeCost
<1>3. a + b <= c + f
  BY <1>2, MergedFlag
<1> HIDE DEF x
<1>4. Flagged(MSHR') = Flagged(MSHR) - c + a
  <2>1. Flagged([MSHR EXCEPT ![m] = x]) = Flagged(MSHR) - Flag(MSHR[m]) + Flag(x)
    BY <1>2, FlaggedExcept
  <2> QED BY <1>1, <2>1
<1>5. /\ Counted' = Counted + b
      /\ sim_stats'.pf_issued = sim_stats.pf_issued /\ sim_stats'.carried = sim_stats.carried
  BY MergeCounts
<1>6. /\ Flagged(inflight_tag_check') = Flagged(inflight_tag_check) + (0 - f)
      /\ internal_PQ' = internal_PQ /\ LocalLines' = LocalLines
  BY <1>1, MissLeaves
<1>7. Flagged(MSHR) \in Nat /\ Counted \in Nat /\ LocalLines \in Nat
  BY DEF CountsKnown, CountersOK, AccountingIs
<1>8. /\ Flagged(MSHR) - c + a = Flagged(MSHR) + (a - c)
      /\ LocalLines + (Counted + b) <= LocalLines + Counted + b
      /\ (0 - f) + (a - c) + b <= 0 /\ a - c \in Int
  BY <1>3, <1>7, MergeChanges
<1> PICK d \in Int, e \in Int : d = a - c /\ e = 0 - f
  BY <1>8
<1>9. Changes(e, d, 0, b)
  BY <1>1, <1>4, <1>5, <1>6, <1>8, NoChange DEF Changes
<1>10. e + d + 0 + b <= 0 /\ b \in Int
  BY <1>8
<1>11. Counted' + Pending' <= Counted + Pending
  BY <1>9, <1>10, Balanced
<1> QED BY <1>5, <1>6, <1>11, SettlesQuietly

LEMMA MergeIntoFillAccounts ==
  ASSUME Inv, CountsKnown, CountsKnown', PrefetchAccounting, MergeIntoFill
  PROVE  PrefetchAccounting'
<1> DEFINE pkt == inflight_tag_check[scan]
<1> PICK m \in DOMAIN inflight_fills :
      /\ inflight_fills' = [inflight_fills EXCEPT ![m] = Merge(@, FillType(pkt, 0))]
      /\ CountMerge(inflight_fills[m], pkt)
  BY DEF MergeIntoFill
<1> DEFINE x == Merge(inflight_fills[m], FillType(pkt, 0))
<1>1. /\ MissTurn /\ Done /\ MSHR' = MSHR
      /\ inflight_fills' = [inflight_fills EXCEPT ![m] = x]
  BY DEF MergeIntoFill
<1>2. pkt \in TagCheck /\ inflight_fills \in Seq(Fill) /\ inflight_fills[m] \in Fill
  BY <1>1, ScannedDrops DEF Inv, TypeOK
<1> PICK a \in {0, 1}, b \in {0, 1}, c \in {0, 1}, f \in {0, 1} :
      /\ a = Flag(x) /\ b = MergeCost(inflight_fills[m], pkt)
      /\ c = Flag(inflight_fills[m]) /\ f = Flag(pkt)
  BY FlagType DEF MergeCost
<1>3. a + b <= c + f
  BY <1>2, MergedFlag
<1> HIDE DEF x
<1>4. Flagged(inflight_fills') = Flagged(inflight_fills) - c + a
  <2>1. Flagged([inflight_fills EXCEPT ![m] = x]) = Flagged(inflight_fills) - Flag(inflight_fills[m]) + Flag(x)
    BY <1>2, FlaggedExcept
  <2> QED BY <1>1, <2>1
<1>5. /\ Counted' = Counted + b
      /\ sim_stats'.pf_issued = sim_stats.pf_issued /\ sim_stats'.carried = sim_stats.carried
  BY MergeCounts
<1>6. /\ Flagged(inflight_tag_check') = Flagged(inflight_tag_check) + (0 - f)
      /\ internal_PQ' = internal_PQ /\ LocalLines' = LocalLines
  BY <1>1, MissLeaves
<1>7. Flagged(inflight_fills) \in Nat /\ Counted \in Nat /\ LocalLines \in Nat
  BY DEF CountsKnown, CountersOK, AccountingIs
<1>8. /\ Flagged(inflight_fills) - c + a = Flagged(inflight_fills) + (a - c)
      /\ LocalLines + (Counted + b) <= LocalLines + Counted + b
      /\ (0 - f) + (a - c) + b <= 0 /\ a - c \in Int
  BY <1>3, <1>7, MergeChanges
<1> PICK d \in Int, e \in Int : d = a - c /\ e = 0 - f
  BY <1>8
<1>9. Changes(e, 0, d, b)
  BY <1>1, <1>4, <1>5, <1>6, <1>8, NoChange DEF Changes
<1>10. e + 0 + d + b <= 0 /\ b \in Int
  BY <1>8
<1>11. Counted' + Pending' <= Counted + Pending
  BY <1>9, <1>10, Balanced
<1> QED BY <1>5, <1>6, <1>11, SettlesQuietly

(* The counters restart from the prefetches that are carried over. *)
LEMMA BeginPhaseAccounts ==
  ASSUME Inv, CountsKnown, BeginPhase
  PROVE  PrefetchAccounting'
<1>1. sim_stats' = [pf_issued |-> 0, pf_useful |-> 0, pf_useless |-> 0,
                    carried |-> LivePrefetches]
  BY DEF BeginPhase
<1>2. LivePrefetches' = LivePrefetches
  BY DEF BeginPhase, LivePrefetches
<1>3. LivePrefetches \in Nat
  BY LivePrefetchesType DEF Inv
<1>4. /\ sim_stats'.pf_useful = 0 /\ sim_stats'.pf_useless = 0
      /\ sim_stats'.pf_issued = 0 /\ sim_stats'.carried = LivePrefetches
  BY <1>1
<1> QED BY <1>2, <1>3, <1>4 DEF PrefetchAccounting

LEMMA NextAccounts ==
  ASSUME Inv, Inv', PrefetchAccounting, [Next]_vars
  PROVE  PrefetchAccounting'
<1>0. /\ CountsKnown /\ CountsKnown'
      /\ inflight_tag_check' \in Seq(TagCheck)
  <2>1. inflight_tag_check' \in Seq(TagCheck)
    BY DEF Inv, TypeOK
  <2> QED BY <2>1, Counting, CountingNext
<1>1. CASE BeginOperate
  BY <1>0, <1>1, BeginOperateAccounts
<1>2. CASE FinishPacket
  BY <1>0, <1>2, FinishPacketAccounts
<1>3. CASE \E w \in Way \cup {NUM_WAY + 1}, lines \in HookCalls : HandleFill(w, lines)
  BY <1>0, <1>3, HandleFillAccounts
<1>4. CASE InitiateTagCheck
  BY <1>0, <1>4, InitiateTagCheckAccounts
<1>5. CASE InitiatePrefetch
  BY <1>0, <1>5, InitiatePrefetchAccounts
<1>6. CASE \E w \in Way, lines \in HookCalls : TryHit(w, lines)
  BY <1>0, <1>6, TryHitAccounts
<1>7. CASE \E lines \in HookCalls : TryHitMisses(lines) \/ FinishOperate(lines)
  <2> PICK lines \in HookCalls : TryHitMisses(lines) \/ FinishOperate(lines)
    BY <1>7
  <2>1. /\ PrefetchLines(lines) /\ sim_stats' = Issue(sim_stats, lines)
        /\ UNCHANGED <<inflight_tag_check, MSHR, inflight_fills, block>>
    BY DEF TryHitMisses, FinishOperate
  <2> QED BY <1>0, <2>1, HookAccounts
<1>8. CASE HandleWrite
  BY <1>0, <1>8, HandleWriteAccounts
<1>9. CASE MergeIntoMSHR
  BY <1>0, <1>9, MergeIntoMSHRAccounts
<1>10. CASE MergeIntoFill
  BY <1>0, <1>10, MergeIntoFillAccounts
<1>11. CASE ForwardMiss
  BY <1>0, <1>11, ForwardMissAccounts
<1>12. CASE BeginPhase
  BY <1>0, <1>12, BeginPhaseAccounts
<1>13. CASE \/ FinishReturns \/ FinishFills \/ NextQueue \/ FinishInitiate \/ FinishHits
            \/ HandleMissFails \/ \E w \in Way : HandleFillFails(w)
            \/ Upstream \/ Downstream \/ UNCHANGED vars
  <2>1. UNCHANGED cacheVars
    BY <1>13 DEF FinishReturns, FinishFills, NextQueue, FinishInitiate, FinishHits,
       HandleMissFails, HandleFillFails, Upstream, UpperRequest, UpperFinishPacket,
       Downstream, LowerAccept, LowerRespond, vars
  <2> QED BY <2>1 DEF cacheVars, PrefetchAccounting, LivePrefetches
<1> QED BY <1>1, <1>2, <1>3, <1>4, <1>5, <1>6, <1>7, <1>8, <1>9, <1>10, <1>11, <1>12, <1>13
        DEF Next, Operate

(* Every prefetch the cache issues is counted useful or useless at most     *)
(* once, whether it ends in a hit, a merge, an eviction or a bypass.        *)
THEOREM PrefetchesCountedOnce == Spec => []PrefetchAccounting
<1>1. Init => PrefetchAccounting
  <2> SUFFICES ASSUME Init PROVE PrefetchAccounting
    OBVIOUS
  <2>1. /\ Flagged(inflight_tag_check) = 0 /\ Flagged(MSHR) = 0 /\ Flagged(inflight_fills) = 0
    <3>1. \A s : s = << >> => {i \in DOMAIN s : s[i].prefetch_from_this} = {}
      OBVIOUS
    <3> QED BY <3>1, FS_EmptySet DEF Init, Flagged
  <2>2. LocalLines = 0
    <3>1. {sw \in Set \X Way : block[sw[1]][sw[2]].valid /\ block[sw[1]][sw[2]].prefetch} = {}
      BY DEF Init, InvalidLine
    <3> QED BY <3>1, FS_EmptySet DEF LocalLines
  <2>3. CountsKnown
    BY InitInv, Counting
  <2>4. /\ Pending = 0 /\ Counted = 0 /\ Len(internal_PQ) = 0
        /\ sim_stats.pf_issued = 0 /\ sim_stats.carried = 0
    BY <2>1, <2>2 DEF Init, Pending, Counted
  <2> QED BY <2>3, <2>4 DEF CountsKnown, AccountingIs
<1>2. Inv /\ PrefetchAccounting /\ [Next]_vars => (Inv /\ PrefetchAccounting)'
  BY NextInv, NextAccounts
<1>3. Init => Inv
  BY InitInv
<1> QED BY <1>1, <1>2, <1>3, PTL DEF Spec
================================================================================
