------------------------------ MODULE Translation ------------------------------
(***************************************************************************)
(* The path of a virtual address: the translation half of CACHE            *)
(* (src/src/cache.cc) on top of PageTableWalker (src/src/ptw.cc) on top of *)
(* VirtualMemory.  A cache holds what is not translated in its tag check   *)
(* pipeline and then in the stash, asks the walker once for each entry and *)
(* lets every entry of the page go on with the first answer; the walker    *)
(* reads one page table entry per level from its own lower level.          *)
(*                                                                         *)
(* Clients, the tag check itself and the lower level do what they like.    *)
(* A block holds a whole page table: the worst case for matching answers.  *)
(***************************************************************************)
EXTENDS VirtualMemory, Positions

CONSTANTS
  MaxRequests,    \* how many requests the clients make: the bound of the model
  MSHR_SIZE, MAX_TAG, TAG_LATENCY,        \* of the cache
  RQ_SIZE,                                \* of the channel to the walker
  MAX_READ, MAX_FILL, HIT_LATENCY,        \* of the walker
  PSCL_WAYS                               \* each PSCL has one set here

ASSUME TranslationAssumption ==
  /\ {MSHR_SIZE, MAX_TAG, TAG_LATENCY, RQ_SIZE, MAX_READ, MAX_FILL} \subseteq Nat \ {0}
  /\ {MaxRequests, HIT_LATENCY, PSCL_WAYS} \subseteq Nat

VARIABLES
  requests,                             \* made so far
  inflight_tag_check, translation_stash,
  translate_returned,                   \* lower_translate->returned of the cache
  RQ,                                   \* virtual pages on their way to the walker
  MSHR, finished, completed,            \* of the walker
  pscl,                                 \* pscl[level]: most recently used first
  asked, returned,                      \* page tables asked for and answered below
  stage,
  budget                                \* what is left of the walker's MAX_FILL or MAX_READ

cacheVars == <<requests, inflight_tag_check, translation_stash>>
walkVars == <<MSHR, finished, completed, pscl>>
vars == <<vmem, cacheVars, translate_returned, RQ, walkVars, asked, returned, stage, budget>>

(* How long the longest prefix of s is, up to n, all of which satisfies P. *)
PrefixLength(s, n, P(_)) ==
  Greatest({k \in 0 .. Lesser(n, Len(s)) : \A i \in 1 .. k : P(s[i])})

Init ==
  /\ VmemInit
  /\ requests = 0
  /\ inflight_tag_check = <<>> /\ translation_stash = <<>>
  /\ translate_returned = <<>> /\ RQ = <<>>
  /\ MSHR = <<>> /\ finished = <<>> /\ completed = <<>>
  /\ pscl = [level \in 1 .. Levels |-> <<>>]
  /\ asked = {} /\ returned = <<>>
  /\ stage = "translations" /\ budget = 0

--------------------------------------------------------------------------------
(* CACHE::operate *)

(* finish_translation of the next answer: in the stash what it translates *)
(* moves to the front, behind what already was.                           *)
Translated(e, r) ==
  IF e.page = r.page /\ ~e.is_translated
  THEN [e EXCEPT !.is_translated = TRUE, !.ppage = r.ppage] ELSE e

FinishTranslation ==
  /\ stage = "translations" /\ translate_returned # <<>>
  /\ LET r == Head(translate_returned)
         stash == [i \in DOMAIN translation_stash |-> Translated(translation_stash[i], r)]
         front == {i \in DOMAIN stash : stash[i].is_translated}
     IN  /\ translation_stash' = At(stash, front) \o At(stash, DOMAIN stash \ front)
         /\ inflight_tag_check' =
              [i \in DOMAIN inflight_tag_check |-> Translated(inflight_tag_check[i], r)]
  /\ translate_returned' = Tail(translate_returned)
  /\ UNCHANGED <<vmem, requests, RQ, walkVars, asked, returned, stage, budget>>

TranslationsFinished ==
  /\ stage = "translations" /\ translate_returned = <<>>
  /\ stage' = "initiate"
  /\ UNCHANGED <<vmem, cacheVars, translate_returned, RQ, walkVars, asked, returned, budget>>

(* Initiate tag checks: first the stash, then n new requests `entering', which *)
(* a full stash refuses.  Prefetches that were given physical addresses come   *)
(* translated and are not modelled.                                            *)
TagRoom == Greatest({0, Lesser(MAX_TAG, MAX_TAG * TAG_LATENCY - Len(inflight_tag_check))})
FromStash == PrefixLength(translation_stash, TagRoom, LAMBDA e : e.is_translated)

Initiate(entering) ==
  /\ stage = "initiate"
  /\ LET again == [i \in 1 .. FromStash |->
                     [translation_stash[i] EXCEPT !.wait = TAG_LATENCY]]
         new == [i \in DOMAIN entering |->
                   [page |-> entering[i], is_translated |-> FALSE, ppage |-> 0,
                    translate_issued |-> FALSE, wait |-> TAG_LATENCY]]
     IN  /\ Len(entering) <= TagRoom - FromStash
         /\ Len(translation_stash) >= MSHR_SIZE => entering = <<>>
         /\ inflight_tag_check' = inflight_tag_check \o again \o new
  /\ translation_stash' = Drop(translation_stash, FromStash)
  /\ requests' = requests + Len(entering)
  /\ requests' <= MaxRequests
  /\ stage' = "issue"
  /\ UNCHANGED <<vmem, translate_returned, RQ, walkVars, asked, returned, budget>>

(* issue_translation, for the pipeline and then the stash: of the entries  *)
(* that want a walk the queue accepts those it has room for; a refused one *)
(* tries again in the next cycle.                                          *)
NeedsWalk(e) == ~e.translate_issued /\ ~e.is_translated

Issued_Refused(wants, accepted) == wants    \* mutant: a refused entry counts as issued
Issued(wants, accepted) == accepted

IssueTranslations ==
  /\ stage = "issue"
  /\ LET all == inflight_tag_check \o translation_stash
         n == Len(inflight_tag_check)
         wants == {i \in DOMAIN all : NeedsWalk(all[i])}
         accepted == {i \in wants : Cardinality({j \in wants : j <= i}) <= RQ_SIZE - Len(RQ)}
         after == [i \in DOMAIN all |->
                     [all[i] EXCEPT !.translate_issued = @ \/ i \in Issued(wants, accepted)]]
         (* What is ready except for its translation moves to the stash. *)
         late == {i \in 1 .. n : after[i].wait = 0 /\ ~after[i].is_translated}
     IN  /\ RQ' = RQ \o [k \in 1 .. Cardinality(accepted) |-> At(all, accepted)[k].page]
         /\ inflight_tag_check' = At(after, (1 .. n) \ late)
         /\ translation_stash' = Drop(after, n) \o At(after, late)
  /\ stage' = "check"
  /\ UNCHANGED <<vmem, requests, translate_returned, walkVars, asked, returned, budget>>

(* Perform tag checks: S are those that hit, or miss and are not refused. *)
CheckSpan == 1 .. PrefixLength(inflight_tag_check, MAX_TAG, LAMBDA e : e.wait = 0 /\ e.is_translated)
PerformChecks(S) ==
  /\ stage = "check"
  /\ S \subseteq CheckSpan
  /\ inflight_tag_check' = At(inflight_tag_check, DOMAIN inflight_tag_check \ S)
  /\ stage' = "steps"
  /\ UNCHANGED <<vmem, requests, translation_stash, translate_returned, RQ, walkVars,
                 asked, returned, budget>>

--------------------------------------------------------------------------------
(* PageTableWalker::operate *)

(* finish_packet, one walk of the block at a time; std::partition promises *)
(* no order.  A fault costs a penalty on top of the latency.               *)
Matching == {i \in DOMAIN MSHR : MSHR[i].address = Head(returned)}

FinishLast(m) ==
  /\ va_to_pa(m.page)
  /\ completed' = Append(completed,
       [page |-> m.page, data |-> vpage_to_ppage_map'[m.page],
        wait |-> HIT_LATENCY + (IF Touched(m.page) THEN 0 ELSE Penalty)])
  /\ UNCHANGED finished
FinishStep(m) ==
  LET key == Key(m.page, m.level)
  IN  /\ get_pte_pa(key)
      /\ finished' = Append(finished,
           [page |-> m.page, data |-> page_table'[key], level |-> m.level,
            wait |-> HIT_LATENCY + (IF Walked(key) THEN 0 ELSE Penalty)])
      /\ UNCHANGED completed

FinishPacket(i) ==
  /\ stage = "steps" /\ returned # <<>>
  /\ i \in Matching
  /\ IF MSHR[i].level = 0 THEN FinishLast(MSHR[i]) ELSE FinishStep(MSHR[i])
  /\ MSHR' = At(MSHR, DOMAIN MSHR \ {i})
  /\ UNCHANGED <<cacheVars, translate_returned, RQ, pscl, asked, returned, stage, budget>>

Unserved == Tail(returned)

ClearReturned ==
  /\ stage = "steps" /\ returned # <<>>
  /\ Matching = {}
  /\ returned' = Unserved
  /\ UNCHANGED <<vmem, cacheVars, translate_returned, RQ, walkVars, asked, stage, budget>>

(* lru_table *)
Lookup(table, prefix) == {i \in DOMAIN table : table[i].prefix = prefix}
Fill(table, entry) ==
  LET rest == At(table, DOMAIN table \ Lookup(table, entry.prefix))
  IN  SubSeq(<<entry>> \o rest, 1, Lesser(PSCL_WAYS, Len(rest) + 1))
Use(table, prefix) == IF Lookup(table, prefix) = {} THEN table
                      ELSE Fill(table, table[Least(Lookup(table, prefix))])

(* Completed walks are answered first, in order, out of the same bandwidth. *)
Respond ==
  /\ stage = "steps" /\ returned = <<>>
  /\ LET n == PrefixLength(completed, MAX_FILL, LAMBDA c : c.wait = 0)
     IN  /\ translate_returned' = translate_returned \o
              [i \in 1 .. n |-> [page |-> completed[i].page, ppage |-> completed[i].data]]
         /\ completed' = Drop(completed, n)
         /\ budget' = MAX_FILL - n
  /\ stage' = "fill"
  /\ UNCHANGED <<vmem, cacheVars, RQ, MSHR, finished, pscl, asked, returned>>

(* handle_fill of the next ready walk, which enters it in its PSCL, until    *)
(* there is none or the lower level refuses.  operate gathers the next steps *)
(* of a cycle before it appends them, but nothing looks at MSHR in between.  *)
NextLevel_Same(f) == [page |-> f.page, address |-> f.data, level |-> f.level]    \* mutant
NextLevel(f) == [page |-> f.page, address |-> f.data, level |-> f.level - 1]

ToFill == stage = "fill" /\ budget > 0 /\ finished # <<>> /\ finished[1].wait = 0
EnterFilled ==
  LET f == finished[1]
  IN  pscl' = [pscl EXCEPT ![f.level] = Fill(@, [prefix |-> Prefix(f.page, f.level), data |-> f.data])]

HandleFill ==
  /\ ToFill /\ EnterFilled
  /\ MSHR' = Append(MSHR, NextLevel(finished[1]))
  /\ asked' = asked \cup {finished[1].data}
  /\ finished' = Tail(finished)
  /\ budget' = budget - 1
  /\ UNCHANGED <<vmem, cacheVars, translate_returned, RQ, completed, returned, stage>>

FillRefused ==
  /\ ToFill /\ EnterFilled
  /\ stage' = "read" /\ budget' = MAX_READ
  /\ UNCHANGED <<vmem, cacheVars, translate_returned, RQ, MSHR, finished, completed, asked, returned>>

FillsDone ==
  /\ stage = "fill" /\ ~ToFill
  /\ stage' = "read" /\ budget' = MAX_READ
  /\ UNCHANGED <<vmem, cacheVars, translate_returned, RQ, walkVars, asked, returned>>

(* handle_read: the walk starts from the hit of the lowest level, or at the *)
(* root.  A hit starts at the level of its entry.  Only the page of the     *)
(* table is joined with the offset of the walk: its slot is lost.           *)
WalkInit(page) ==
  LET hits == {l \in 1 .. Levels : Lookup(pscl[l], Prefix(page, l)) # {}}
      l == Least(hits)
      table == IF hits = {} THEN page_table[RootKey]
               ELSE pscl[l][Least(Lookup(pscl[l], Prefix(page, l)))].data
  IN  [page |-> page, address |-> <<table[1], 0>>, level |-> IF hits = {} THEN Levels ELSE l]

(* Requests are taken while the lower level takes their first step; every *)
(* lookup counts as a use of the entries it hits.                         *)
ToRead == stage = "read" /\ budget > 0 /\ RQ # <<>>
UseHits == pscl' = [level \in 1 .. Levels |-> Use(pscl[level], Prefix(Head(RQ), level))]

HandleRead ==
  /\ ToRead /\ UseHits
  /\ MSHR' = Append(MSHR, WalkInit(Head(RQ)))
  /\ asked' = asked \cup {WalkInit(Head(RQ)).address}
  /\ RQ' = Tail(RQ)
  /\ budget' = budget - 1
  /\ UNCHANGED <<vmem, cacheVars, translate_returned, finished, completed, returned, stage>>

ReadRefused ==
  /\ ToRead /\ UseHits
  /\ stage' = "end" /\ budget' = 0
  /\ UNCHANGED <<vmem, cacheVars, translate_returned, RQ, MSHR, finished, completed, asked, returned>>

ReadsDone ==
  /\ stage = "read" /\ ~ToRead
  /\ stage' = "end" /\ budget' = 0
  /\ UNCHANGED <<vmem, cacheVars, translate_returned, RQ, walkVars, asked, returned>>

(* The cycle ends: time moves every ready_time one cycle closer. *)
EndCycle ==
  /\ stage = "end"
  /\ LET Tick(w) == IF w = 0 THEN 0 ELSE w - 1
         Ticked(s) == [i \in DOMAIN s |-> [s[i] EXCEPT !.wait = Tick(@)]]
     IN  /\ inflight_tag_check' = Ticked(inflight_tag_check)
         /\ finished' = Ticked(finished)
         /\ completed' = Ticked(completed)
  /\ stage' = "translations"
  /\ UNCHANGED <<vmem, requests, translation_stash, translate_returned, RQ, MSHR, pscl,
                 asked, returned, budget>>

(* The lower level, between two cycles, answers a block: requests for one   *)
(* block are one request to it.                                             *)
Answer(block) ==
  /\ stage = "translations"
  /\ block \in asked
  /\ asked' = asked \ {block}
  /\ returned' = Append(returned, block)
  /\ UNCHANGED <<vmem, cacheVars, translate_returned, RQ, walkVars, stage, budget>>

Next ==
  \/ FinishTranslation \/ TranslationsFinished
  \/ \E n \in 0 .. MAX_TAG : \E entering \in [1 .. n -> VPage] : Initiate(entering)
  \/ IssueTranslations
  \/ \E S \in SUBSET CheckSpan : PerformChecks(S)
  \/ \E i \in DOMAIN MSHR : FinishPacket(i)
  \/ ClearReturned \/ Respond
  \/ HandleFill \/ FillRefused \/ FillsDone
  \/ HandleRead \/ ReadRefused \/ ReadsDone
  \/ EndCycle
  \/ \E block \in asked : Answer(block)

Spec == Init /\ [][Next]_vars

(* The clock keeps ticking; the oldest tag check is not refused for good;  *)
(* the lower level does not refuse for good and answers.  With a bounded   *)
(* number of requests, fairness to any block is fairness to every block.   *)
FairSpec ==
  /\ Spec
  /\ WF_vars(Next)
  /\ []<><<EndCycle>>_vars
  /\ SF_vars(\E S \in SUBSET CheckSpan : 1 \in S /\ PerformChecks(S))
  /\ SF_vars(HandleFill)
  /\ SF_vars(HandleRead)
  /\ SF_vars(\E block \in asked : Answer(block))

--------------------------------------------------------------------------------
(* Properties *)

Pages(s) == {s[i].page : i \in DOMAIN s}

(* An entry that asked for its translation and has none is on the mind of    *)
(* somebody, though an answer may translate entries that have not asked yet; *)
(* and a walk that waits for a page table has a request or an answer under   *)
(* way, though an answer completes every walk of its block at once, those    *)
(* whose own request came later among them.                                  *)
NoLostTranslation ==
  /\ \A e \in {inflight_tag_check[i] : i \in DOMAIN inflight_tag_check}
                \cup {translation_stash[i] : i \in DOMAIN translation_stash} :
       e.translate_issued /\ ~e.is_translated =>
         e.page \in {RQ[i] : i \in DOMAIN RQ} \cup Pages(MSHR) \cup Pages(finished)
                      \cup Pages(completed) \cup Pages(translate_returned)
  /\ \A i \in DOMAIN MSHR :
       MSHR[i].address \in asked \cup {returned[k] : k \in DOMAIN returned}

(* Every request gets through the tag check, time and again. *)
EverythingTranslated == []<>(inflight_tag_check = <<>> /\ translation_stash = <<>>)
===============================================================================
