--------------------------- MODULE TranslationProofs ---------------------------
(* Proofs about Translation and the VirtualMemory under its walker, for any    *)
(* number of levels, virtual and physical pages and page tables to a page, any *)
(* queue, bandwidth and latency, whatever hits, is refused or answered when.   *)
EXTENDS Translation, PositionProofs

IsFreePage(p) == \E i \in DOMAIN ppage_free_list : ppage_free_list[i] = p
Tables(p) == p = active_pte_page \/ \E k \in DOMAIN page_table : page_table[k][1] = p
Data(p) == \E v \in DOMAIN vpage_to_ppage_map : vpage_to_ppage_map[v] = p

(* Where pages are before the free list runs out; the slots of the active page *)
(* are used in order.                                                          *)
Unshared ==
  /\ \A i, j \in DOMAIN ppage_free_list : ppage_free_list[i] = ppage_free_list[j] => i = j
  /\ \A v, w \in DOMAIN vpage_to_ppage_map : vpage_to_ppage_map[v] = vpage_to_ppage_map[w] => v = w
  /\ \A j, k \in DOMAIN page_table : page_table[j] = page_table[k] => j = k
  /\ \A k \in DOMAIN page_table :
       /\ page_table[k] = <<page_table[k][1], page_table[k][2]>>
       /\ page_table[k][2] \in 0 .. TablesPerPage - 1
       /\ page_table[k][1] = active_pte_page => page_table[k][2] < next_pte_page
  /\ \A p : ~(Data(p) /\ Tables(p)) /\ ~(Data(p) /\ IsFreePage(p)) /\ ~(Tables(p) /\ IsFreePage(p))

VmemInv ==
  /\ refilled \in BOOLEAN
  /\ ppage_free_list \in Seq(Nat \ {0}) /\ ppage_free_list # <<>>
  /\ next_pte_page \in 0 .. TablesPerPage - 1
  /\ ~refilled => Unshared

-------------------------------------------------------------------------------
LEMMA TailOfLongList ==
  ASSUME NEW s \in Seq(Nat \ {0}), s # <<>>, Len(s) # 1
  PROVE  Len(s) > 1 /\ Tail(s) \in Seq(Nat \ {0}) /\ Tail(s) # <<>>
<1>1. Len(s) \in Nat \ {0}
  BY EmptySeq
<1>2. Tail(s) \in Seq(Nat \ {0}) /\ Len(Tail(s)) = Len(s) - 1
  BY HeadTailProperties
<1>3. Len(Tail(s)) # 0
  BY <1>1, <1>2
<1>4. Len(<<>>) = 0
  BY EmptySeq
<1>5. Tail(s) # <<>>
  <2> SUFFICES ASSUME Tail(s) = <<>> PROVE FALSE
    OBVIOUS
  <2>1. Len(Tail(s)) = Len(<<>>)
    OBVIOUS
  <2> QED BY <1>3, <1>4, <2>1
<1>6. Len(s) > 1
  <2>1. \A n \in Nat \ {0} : n # 1 => n > 1
    OBVIOUS
  <2> QED BY <1>1, <2>1
<1> QED BY <1>2, <1>5, <1>6

(* A page is taken: the head of the list was free and is free no more. *)
LEMMA PageTaken ==
  ASSUME VmemInv, TakePage
  PROVE  /\ refilled' \in BOOLEAN /\ (refilled => refilled')
         /\ ppage_free_list' \in Seq(Nat \ {0}) /\ ppage_free_list' # <<>>
         /\ IsFreePage(Head(ppage_free_list))
         /\ ~refilled' =>
              /\ \A p : IsFreePage(p)' => IsFreePage(p) /\ p # Head(ppage_free_list)
              /\ \A i, j \in DOMAIN ppage_free_list' :
                   ppage_free_list'[i] = ppage_free_list'[j] => i = j
<1>1. refilled' \in BOOLEAN /\ (refilled => refilled')
  BY DEF VmemInv, TakePage
<1>2. IsFreePage(Head(ppage_free_list))
  <2>1. 1 \in DOMAIN ppage_free_list /\ Head(ppage_free_list) = ppage_free_list[1]
    BY DEF VmemInv
  <2> QED BY <2>1 DEF IsFreePage
<1>3. CASE Len(ppage_free_list) = 1
  <2>1. ppage_free_list' = AllPages /\ refilled'
    BY <1>3 DEF TakePage, Pop
  <2> QED BY <1>1, <1>2, <2>1, VmemAssumption
<1>4. CASE Len(ppage_free_list) # 1
  <2>1. ppage_free_list' = Tail(ppage_free_list) /\ refilled' = refilled
    BY <1>4 DEF TakePage, Pop, VmemInv
  <2>2. ppage_free_list' \in Seq(Nat \ {0}) /\ ppage_free_list' # <<>>
    BY <1>4, <2>1, TailOfLongList DEF VmemInv
  <2>3. \A i \in DOMAIN ppage_free_list' :
          i + 1 \in DOMAIN ppage_free_list /\ ppage_free_list'[i] = ppage_free_list[i + 1] /\ i \in Nat \ {0}
    BY <1>4, <2>1 DEF VmemInv
  <2>4. ASSUME ~refilled' PROVE \A p : IsFreePage(p)' => IsFreePage(p) /\ p # Head(ppage_free_list)
    <3>1. Unshared
      BY <2>1, <2>4 DEF VmemInv
    <3>2. Head(ppage_free_list) = ppage_free_list[1] /\ 1 \in DOMAIN ppage_free_list
      BY DEF VmemInv
    <3>3. \A i \in DOMAIN ppage_free_list' : ppage_free_list[i + 1] # ppage_free_list[1]
      <4>1. \A i \in DOMAIN ppage_free_list' : i + 1 # 1
        BY <2>3
      <4> QED BY <2>3, <3>1, <3>2, <4>1 DEF Unshared
    <3> QED BY <2>3, <3>2, <3>3 DEF IsFreePage
  <2>5. ASSUME ~refilled'
        PROVE  \A i, j \in DOMAIN ppage_free_list' : ppage_free_list'[i] = ppage_free_list'[j] => i = j
    <3>1. Unshared
      BY <2>1, <2>5 DEF VmemInv
    <3>2. \A i, j \in DOMAIN ppage_free_list' : ppage_free_list'[i] = ppage_free_list'[j] => i + 1 = j + 1
      BY <2>3, <3>1 DEF Unshared
    <3>3. \A i, j \in Nat : i + 1 = j + 1 => i = j
      OBVIOUS
    <3> QED BY <2>3, <3>2, <3>3
  <2> QED BY <1>1, <1>2, <2>2, <2>4, <2>5
<1> QED BY <1>3, <1>4

LEMMA DataPageKeeps ==
  ASSUME VmemInv, NEW v, va_to_pa(v)
  PROVE  VmemInv'
<1>1. CASE Touched(v)
  BY <1>1 DEF va_to_pa, vmem, VmemInv, Unshared, IsFreePage, Tables, Data
<1>2. CASE ~Touched(v)
  <2> DEFINE page == Head(ppage_free_list)
  <2>1. /\ vpage_to_ppage_map' = With(vpage_to_ppage_map, v, page)
        /\ TakePage /\ UNCHANGED <<page_table, active_pte_page, next_pte_page>>
    BY <1>2 DEF va_to_pa
  <2>2. DOMAIN vpage_to_ppage_map' = DOMAIN vpage_to_ppage_map \cup {v} /\ vpage_to_ppage_map'[v] = page
    BY <2>1 DEF With
  <2>3. \A w \in DOMAIN vpage_to_ppage_map : vpage_to_ppage_map'[w] = vpage_to_ppage_map[w]
    BY <1>2, <2>1 DEF With, Touched
  <2>4. ASSUME ~refilled' PROVE Unshared'
    <3>1. Unshared /\ IsFreePage(page)
      BY <2>1, <2>4, PageTaken DEF VmemInv
    <3>2. \A p : IsFreePage(p)' => IsFreePage(p) /\ p # page
      BY <2>1, <2>4, PageTaken
    <3>3. \A i, j \in DOMAIN ppage_free_list' : ppage_free_list'[i] = ppage_free_list'[j] => i = j
      BY <2>1, <2>4, PageTaken
    <3>4. \A p : Data(p)' => Data(p) \/ p = page
      BY <2>2, <2>3 DEF Data
    <3>5. \A p : Tables(p)' => Tables(p)
      BY <2>1 DEF Tables
    <3>6. \A p : ~(Data(p) /\ Tables(p))' /\ ~(Data(p) /\ IsFreePage(p))' /\ ~(Tables(p) /\ IsFreePage(p))'
      BY <3>1, <3>2, <3>4, <3>5 DEF Unshared
    <3>7. \A w \in DOMAIN vpage_to_ppage_map : vpage_to_ppage_map[w] # page
      BY <3>1 DEF Unshared, Data
    <3>8. \A u, w \in DOMAIN vpage_to_ppage_map' : vpage_to_ppage_map'[u] = vpage_to_ppage_map'[w] => u = w
      BY <2>2, <2>3, <3>1, <3>7 DEF Unshared
    <3> QED BY <2>1, <3>1, <3>3, <3>6, <3>8 DEF Unshared
  <2> QED BY <2>1, <2>4, PageTaken DEF VmemInv
<1> QED BY <1>1, <1>2

LEMMA TablePageKeeps ==
  ASSUME VmemInv, NEW key, get_pte_pa(key)
  PROVE  VmemInv'
<1>1. CASE Walked(key)
  BY <1>1 DEF get_pte_pa, vmem, VmemInv, Unshared, IsFreePage, Tables, Data
<1>2. CASE ~Walked(key)
  <2> DEFINE entry == <<active_pte_page, next_pte_page>>
  <2>1. /\ page_table' = With(page_table, key, entry)
        /\ next_pte_page' = NextSlot /\ vpage_to_ppage_map' = vpage_to_ppage_map
    BY <1>2 DEF get_pte_pa
  <2>2. DOMAIN page_table' = DOMAIN page_table \cup {key} /\ page_table'[key] = entry
    BY <2>1 DEF With
  <2>3. \A k \in DOMAIN page_table : page_table'[k] = page_table[k]
    BY <1>2, <2>1 DEF With, Walked
  <2>4. next_pte_page' \in 0 .. TablesPerPage - 1
    BY <2>1, VmemAssumption DEF NextSlot, VmemInv
  <2>5. ASSUME Unshared
        PROVE  /\ \A j, k \in DOMAIN page_table' : page_table'[j] = page_table'[k] => j = k
               /\ \A k \in DOMAIN page_table' :
                    /\ page_table'[k] = <<page_table'[k][1], page_table'[k][2]>>
                    /\ page_table'[k][2] \in 0 .. TablesPerPage - 1
                    /\ page_table'[k][1] = active_pte_page => page_table'[k][2] <= next_pte_page
               /\ \A p : (\E k \in DOMAIN page_table' : page_table'[k][1] = p) => Tables(p)
    <3>1. entry[1] = active_pte_page /\ entry[2] = next_pte_page
      OBVIOUS
    <3>2. \A k \in DOMAIN page_table : page_table[k] # entry
      BY <2>5, <3>1 DEF Unshared, VmemInv
    <3>3. \A j, k \in DOMAIN page_table' : page_table'[j] = page_table'[k] => j = k
      BY <2>2, <2>3, <2>5, <3>2 DEF Unshared
    <3>4. \A k \in DOMAIN page_table :
            /\ page_table[k] = <<page_table[k][1], page_table[k][2]>>
            /\ page_table[k][2] \in 0 .. TablesPerPage - 1
            /\ page_table[k][1] = active_pte_page => page_table[k][2] <= next_pte_page
      BY <2>5, VmemAssumption DEF Unshared, VmemInv
    <3>5. /\ entry = <<entry[1], entry[2]>>
          /\ entry[2] \in 0 .. TablesPerPage - 1
          /\ entry[2] <= next_pte_page
      BY VmemAssumption DEF VmemInv
    <3>6. \A k \in DOMAIN page_table' :
            /\ page_table'[k] = <<page_table'[k][1], page_table'[k][2]>>
            /\ page_table'[k][2] \in 0 .. TablesPerPage - 1
            /\ page_table'[k][1] = active_pte_page => page_table'[k][2] <= next_pte_page
      BY <2>2, <2>3, <3>4, <3>5
    <3>7. \A p : (\E k \in DOMAIN page_table' : page_table'[k][1] = p) => Tables(p)
      BY <2>2, <2>3, <3>1 DEF Tables
    <3> QED BY <3>3, <3>6, <3>7
  <2>6. CASE NextSlot = 0
    <3> DEFINE page == Head(ppage_free_list)
    <3>1. active_pte_page' = page /\ TakePage
      BY <1>2, <2>6 DEF get_pte_pa
    <3>2. ASSUME ~refilled' PROVE Unshared'
      <4>1. Unshared /\ IsFreePage(page)
        BY <3>1, <3>2, PageTaken DEF VmemInv
      <4>2. \A p : IsFreePage(p)' => IsFreePage(p) /\ p # page
        BY <3>1, <3>2, PageTaken
      <4>3. \A i, j \in DOMAIN ppage_free_list' : ppage_free_list'[i] = ppage_free_list'[j] => i = j
        BY <3>1, <3>2, PageTaken
      <4>4. \A p : Tables(p)' => Tables(p) \/ p = page
        BY <2>5, <3>1, <4>1 DEF Tables
      <4>5. \A p : Data(p)' <=> Data(p)
        BY <2>1 DEF Data
      <4>6. \A p : ~(Data(p) /\ Tables(p))' /\ ~(Data(p) /\ IsFreePage(p))' /\ ~(Tables(p) /\ IsFreePage(p))'
        BY <4>1, <4>2, <4>4, <4>5 DEF Unshared
      <4>7. \A k \in DOMAIN page_table' : page_table'[k][1] # active_pte_page'
        BY <2>5, <3>1, <4>1 DEF Unshared
      <4> QED BY <2>1, <2>5, <4>1, <4>3, <4>6, <4>7 DEF Unshared
    <3> QED BY <2>4, <3>1, <3>2, PageTaken DEF VmemInv
  <2>7. CASE NextSlot # 0
    <3>1. UNCHANGED <<active_pte_page, ppage_free_list, refilled>>
      BY <1>2, <2>7 DEF get_pte_pa
    <3>2. next_pte_page' = next_pte_page + 1
      BY <2>1, <2>7 DEF NextSlot
    <3>3. ASSUME ~refilled' PROVE Unshared'
      <4>1. Unshared
        BY <3>1, <3>3 DEF VmemInv
      <4>2. \A p : Tables(p)' => Tables(p)
        BY <2>5, <3>1, <4>1 DEF Tables
      <4>3. \A p : (Data(p)' <=> Data(p)) /\ (IsFreePage(p)' <=> IsFreePage(p))
        BY <2>1, <3>1 DEF Data, IsFreePage
      <4>4. \A p : ~(Data(p) /\ Tables(p))' /\ ~(Data(p) /\ IsFreePage(p))' /\ ~(Tables(p) /\ IsFreePage(p))'
        BY <4>1, <4>2, <4>3 DEF Unshared
      <4>5. \A k \in DOMAIN page_table' :
              page_table'[k][1] = active_pte_page' => page_table'[k][2] < next_pte_page'
        BY <2>5, <3>1, <3>2, <4>1, VmemAssumption DEF VmemInv
      <4> QED BY <2>1, <2>5, <3>1, <4>1, <4>4, <4>5 DEF Unshared
    <3> QED BY <2>4, <3>1, <3>3 DEF VmemInv
  <2> QED BY <2>6, <2>7
<1> QED BY <1>1, <1>2

LEMMA VmemStarts == VmemInit => VmemInv
<1> SUFFICES ASSUME VmemInit PROVE VmemInv
  OBVIOUS
<1>1. /\ AllPages \in Seq(Nat \ {0}) /\ AllPages # <<>> /\ TablesPerPage \in Nat \ {0}
      /\ \A i, j \in DOMAIN AllPages : AllPages[i] = AllPages[j] => i = j
  BY VmemAssumption
<1>2. DOMAIN page_table = {RootKey} /\ page_table[RootKey] = <<0, 0>>
  BY DEF VmemInit
<1>3. \A v : v \notin DOMAIN vpage_to_ppage_map
  <2>1. <<>> \in Seq(Nat) /\ Len(<<>>) = 0
    OBVIOUS
  <2>2. DOMAIN <<>> = 1 .. 0
    BY <2>1
  <2> QED BY <2>2 DEF VmemInit
<1>4. CASE TablesPerPage # 1
  <2>1. active_pte_page = 0 /\ next_pte_page = 1 /\ ppage_free_list = AllPages /\ refilled = FALSE
    BY <1>4 DEF VmemInit
  <2>2. ~IsFreePage(0)
    BY <1>1, <2>1 DEF IsFreePage
  <2>3. \A p : Tables(p) => p = 0
    BY <1>2, <2>1 DEF Tables
  <2>4. \A p : ~Data(p)
    BY <1>3 DEF Data
  <2>5. Unshared
    BY <1>1, <1>2, <1>3, <2>1, <2>2, <2>3, <2>4 DEF Unshared
  <2>6. next_pte_page \in 0 .. TablesPerPage - 1
    BY <1>1, <1>4, <2>1
  <2>7. ppage_free_list \in Seq(Nat \ {0}) /\ ppage_free_list # <<>> /\ refilled \in BOOLEAN
    BY <1>1, <2>1
  <2> QED BY <2>5, <2>6, <2>7 DEF VmemInv
<1>5. CASE TablesPerPage = 1
  <2>1. /\ active_pte_page = AllPages[1] /\ next_pte_page = 0
        /\ ppage_free_list = Pop(AllPages) /\ refilled = (Len(AllPages) = 1)
    BY <1>5 DEF VmemInit
  <2>2. ppage_free_list \in Seq(Nat \ {0}) /\ ppage_free_list # <<>>
    <3>1. CASE Len(AllPages) = 1
      BY <1>1, <2>1, <3>1 DEF Pop
    <3>2. CASE Len(AllPages) # 1
      <4>1. ppage_free_list = Tail(AllPages)
        BY <2>1, <3>2 DEF Pop
      <4> QED BY <1>1, <3>2, <4>1, TailOfLongList
    <3> QED BY <3>1, <3>2
  <2>3. ASSUME ~refilled PROVE Unshared
    <3>1. ppage_free_list = Tail(AllPages) /\ Len(AllPages) > 1
      <4>1. Len(AllPages) # 1
        BY <2>1, <2>3
      <4>2. ppage_free_list = Tail(AllPages)
        BY <2>1, <4>1 DEF Pop
      <4> QED BY <1>1, <4>1, <4>2, TailOfLongList
    <3>2. \A i \in DOMAIN ppage_free_list :
            i \in Nat \ {0} /\ i + 1 \in DOMAIN AllPages /\ ppage_free_list[i] = AllPages[i + 1]
      BY <1>1, <3>1
    <3>3. \A i, j \in DOMAIN ppage_free_list : ppage_free_list[i] = ppage_free_list[j] => i + 1 = j + 1
      BY <1>1, <3>2
    <3>4. \A i, j \in DOMAIN ppage_free_list : ppage_free_list[i] = ppage_free_list[j] => i = j
      <4>1. \A i, j \in Nat : i + 1 = j + 1 => i = j
        OBVIOUS
      <4> QED BY <3>2, <3>3, <4>1
    <3>5. 1 \in DOMAIN AllPages /\ AllPages[1] \in Nat \ {0}
      BY <1>1
    <3>6. ~IsFreePage(active_pte_page) /\ ~IsFreePage(0)
      <4>1. \A i \in DOMAIN ppage_free_list : i + 1 # 1
        BY <3>2
      <4>2. \A i \in DOMAIN ppage_free_list : ppage_free_list[i] # AllPages[1]
        BY <1>1, <3>2, <3>5, <4>1
      <4>3. \A i \in DOMAIN ppage_free_list : ppage_free_list[i] # 0
        BY <2>2
      <4> QED BY <2>1, <4>2, <4>3 DEF IsFreePage
    <3>7. \A p : Tables(p) => p = 0 \/ p = active_pte_page
      BY <1>2 DEF Tables
    <3>8. \A p : ~Data(p)
      BY <1>3 DEF Data
    <3>9. active_pte_page # 0
      BY <2>1, <3>5
    <3> QED BY <1>1, <1>2, <1>3, <1>5, <3>4, <3>6, <3>7, <3>8, <3>9 DEF Unshared
  <2> QED BY <1>1, <1>5, <2>1, <2>2, <2>3 DEF VmemInv
<1> QED BY <1>4, <1>5

LEMMA VmemInvSharesNothing == VmemInv => NoSharing
<1> SUFFICES ASSUME VmemInv, ~refilled PROVE NoSharing
  BY DEF NoSharing
<1>1. Unshared
  BY DEF VmemInv
<1>2. \A k \in DOMAIN page_table : page_table[k][2] < TablesPerPage
  BY <1>1, VmemAssumption DEF Unshared
<1> QED BY <1>1, <1>2 DEF NoSharing, Unshared, Data, Tables, IsFreePage

-------------------------------------------------------------------------------
(* What the queues hold *)

Table == Nat \X (0 .. TablesPerPage - 1)
Prefixes == {Prefix(v, l) : v \in VPage, l \in 1 .. Levels}
Request == [page : VPage, is_translated : BOOLEAN, ppage : Nat, translate_issued : BOOLEAN,
            wait : Nat]
Reply == [page : VPage, ppage : Nat]
Walk == [page : VPage, address : Table, level : 0 .. Levels]
Step == [page : VPage, data : Table, level : 1 .. Levels, wait : Nat]
Done == [page : VPage, data : Nat, wait : Nat]
PsclEntry == [prefix : Prefixes, data : Table]

VmemTypes ==
  /\ \A v \in DOMAIN vpage_to_ppage_map : vpage_to_ppage_map[v] \in Nat
  /\ \A k \in DOMAIN page_table : page_table[k] \in Table
  /\ RootKey \in DOMAIN page_table
  /\ active_pte_page \in Nat

CacheTypes ==
  /\ inflight_tag_check \in Seq(Request) /\ translation_stash \in Seq(Request)
  /\ translate_returned \in Seq(Reply) /\ RQ \in Seq(VPage)

WalkTypes ==
  /\ MSHR \in Seq(Walk) /\ finished \in Seq(Step) /\ completed \in Seq(Done)
  /\ pscl \in [1 .. Levels -> Seq(PsclEntry)]
  /\ asked \in SUBSET Table /\ returned \in Seq(Table)

(* Who will translate a page, and who owes its translation to whom. *)
UnderWay(page) ==
  \/ \E i \in DOMAIN RQ : RQ[i] = page
  \/ \E i \in DOMAIN MSHR : MSHR[i].page = page
  \/ \E i \in DOMAIN finished : finished[i].page = page
  \/ \E i \in DOMAIN completed : completed[i].page = page
  \/ \E i \in DOMAIN translate_returned : translate_returned[i].page = page
Owed(e) == e.translate_issued /\ ~e.is_translated
EntriesServed ==
  /\ \A i \in DOMAIN inflight_tag_check :
       Owed(inflight_tag_check[i]) => UnderWay(inflight_tag_check[i].page)
  /\ \A i \in DOMAIN translation_stash :
       Owed(translation_stash[i]) => UnderWay(translation_stash[i].page)
Sought(block) == block \in asked \/ \E k \in DOMAIN returned : returned[k] = block
WalksServed == \A i \in DOMAIN MSHR : Sought(MSHR[i].address)

TranslationInv ==
  VmemInv /\ VmemTypes /\ CacheTypes /\ WalkTypes /\ EntriesServed /\ WalksServed

LEMMA ServedIsNotLost == TranslationInv => NoLostTranslation
  BY DEF TranslationInv, EntriesServed, WalksServed, UnderWay, Owed, Sought, NoLostTranslation, Pages

LEMMA Sizes ==
  /\ Levels \in Nat \ {0} /\ TablesPerPage \in Nat \ {0} /\ Penalty \in Nat
  /\ MSHR_SIZE \in Nat /\ MAX_TAG \in Nat /\ TAG_LATENCY \in Nat /\ RQ_SIZE \in Nat
  /\ MAX_READ \in Nat /\ MAX_FILL \in Nat /\ HIT_LATENCY \in Nat /\ PSCL_WAYS \in Nat
  BY VmemAssumption, TranslationAssumption

LEMMA InitTranslation == Init => TranslationInv
<1> SUFFICES ASSUME Init PROVE TranslationInv
  OBVIOUS
<1>1. VmemInv
  BY VmemStarts DEF Init
<1>2. VmemTypes
  <2>1. DOMAIN vpage_to_ppage_map = {}
    BY DEF Init, VmemInit
  <2>2. DOMAIN page_table = {RootKey} /\ page_table[RootKey] = <<0, 0>>
    BY DEF Init, VmemInit
  <2>3. <<0, 0>> \in Table
    BY Sizes DEF Table
  <2>4. active_pte_page \in Nat
    <3>1. AllPages[1] \in Nat
      BY VmemAssumption
    <3> QED BY <3>1 DEF Init, VmemInit
  <2> QED BY <2>1, <2>2, <2>3, <2>4 DEF VmemTypes
<1>3. pscl \in [1 .. Levels -> Seq(PsclEntry)]
  BY DEF Init
<1> QED BY <1>1, <1>2, <1>3 DEF Init, TranslationInv, CacheTypes, WalkTypes, EntriesServed, WalksServed

(* The page allocator hands out numbers of pages and slots. *)
LEMMA DataPageTypes ==
  ASSUME VmemInv, VmemTypes, NEW v, va_to_pa(v)
  PROVE  VmemTypes' /\ vpage_to_ppage_map'[v] \in Nat
<1>1. CASE Touched(v)
  BY <1>1 DEF va_to_pa, vmem, VmemTypes, Touched
<1>2. CASE ~Touched(v)
  <2> DEFINE page == Head(ppage_free_list)
  <2>1. /\ vpage_to_ppage_map' = With(vpage_to_ppage_map, v, page)
        /\ UNCHANGED <<page_table, active_pte_page>>
    BY <1>2 DEF va_to_pa
  <2>2. page \in Nat
    BY DEF VmemInv
  <2>3. /\ DOMAIN vpage_to_ppage_map' = DOMAIN vpage_to_ppage_map \cup {v}
        /\ vpage_to_ppage_map'[v] = page
        /\ \A w \in DOMAIN vpage_to_ppage_map : w # v => vpage_to_ppage_map'[w] = vpage_to_ppage_map[w]
    BY <2>1 DEF With
  <2> HIDE DEF page
  <2>4. \A w \in DOMAIN vpage_to_ppage_map' : vpage_to_ppage_map'[w] \in Nat
    BY <2>2, <2>3 DEF VmemTypes
  <2> QED BY <2>1, <2>2, <2>3, <2>4 DEF VmemTypes
<1> QED BY <1>1, <1>2

LEMMA TablePageTypes ==
  ASSUME VmemInv, VmemTypes, NEW key, get_pte_pa(key)
  PROVE  VmemTypes' /\ page_table'[key] \in Table
<1>1. CASE Walked(key)
  BY <1>1 DEF get_pte_pa, vmem, VmemTypes, Walked
<1>2. CASE ~Walked(key)
  <2> DEFINE entry == <<active_pte_page, next_pte_page>>
  <2>1. page_table' = With(page_table, key, entry) /\ vpage_to_ppage_map' = vpage_to_ppage_map
    BY <1>2 DEF get_pte_pa
  <2>2. entry \in Table
    BY DEF VmemInv, VmemTypes, Table
  <2>3. /\ DOMAIN page_table' = DOMAIN page_table \cup {key} /\ page_table'[key] = entry
        /\ \A k \in DOMAIN page_table : k # key => page_table'[k] = page_table[k]
    BY <2>1 DEF With
  <2> HIDE DEF entry
  <2>4. \A k \in DOMAIN page_table' : page_table'[k] \in Table
    BY <2>2, <2>3 DEF VmemTypes
  <2>5. active_pte_page' \in Nat
    <3>1. Head(ppage_free_list) \in Nat
      BY DEF VmemInv
    <3> QED BY <1>2, <3>1 DEF get_pte_pa, VmemTypes
  <2> QED BY <2>1, <2>2, <2>3, <2>4, <2>5 DEF VmemTypes
<1> QED BY <1>1, <1>2

(* Where nothing is allocated nothing changes. *)
LEMMA VmemQuiet ==
  ASSUME TranslationInv, UNCHANGED vmem
  PROVE  VmemInv' /\ VmemTypes'
<1>1. VmemInv'
  BY DEF TranslationInv, vmem, VmemInv, Unshared, IsFreePage, Tables, Data
<1>2. VmemTypes'
  BY DEF TranslationInv, vmem, VmemTypes
<1> QED BY <1>1, <1>2

-------------------------------------------------------------------------------
(* The operators of the model *)

LEMMA TranslatedEntry ==
  ASSUME NEW e \in Request, NEW r \in Reply
  PROVE  /\ Translated(e, r) \in Request /\ Translated(e, r).page = e.page
         /\ Owed(Translated(e, r)) => Owed(e) /\ e.page # r.page
<1>1. CASE e.page = r.page /\ ~e.is_translated
  <2>1. Translated(e, r) = [e EXCEPT !.is_translated = TRUE, !.ppage = r.ppage]
    BY <1>1 DEF Translated
  <2>2. r.ppage \in Nat
    BY DEF Reply
  <2>3. Translated(e, r) \in Request /\ Translated(e, r).page = e.page
        /\ Translated(e, r).is_translated = TRUE
    BY <2>1, <2>2 DEF Request
  <2> QED BY <2>3 DEF Owed
<1>2. CASE ~(e.page = r.page /\ ~e.is_translated)
  <2>1. Translated(e, r) = e
    BY <1>2 DEF Translated
  <2> QED BY <1>2, <2>1 DEF Owed
<1> QED BY <1>1, <1>2

LEMMA FillTypes ==
  ASSUME NEW table \in Seq(PsclEntry), NEW entry \in PsclEntry
  PROVE  Fill(table, entry) \in Seq(PsclEntry)
<1> DEFINE rest == At(table, DOMAIN table \ Lookup(table, entry.prefix))
           all == <<entry>> \o rest
           n == Lesser(PSCL_WAYS, Len(rest) + 1)
<1>1. rest \in Seq(PsclEntry) /\ Len(rest) \in Nat
  <2>1. DOMAIN table \ Lookup(table, entry.prefix) \in SUBSET DOMAIN table
    OBVIOUS
  <2> QED BY <2>1, Selected
<1> HIDE DEF rest
<1>2. all \in Seq(PsclEntry) /\ Len(all) = Len(rest) + 1
  <2>1. <<entry>> \in Seq(PsclEntry) /\ Len(<<entry>>) = 1
    OBVIOUS
  <2>2. all \in Seq(PsclEntry) /\ Len(all) = Len(<<entry>>) + Len(rest)
    BY <1>1, <2>1, Concatenated
  <2> QED BY <1>1, <2>1, <2>2
<1>3. n \in 0 .. Len(all)
  BY <1>1, <1>2, Sizes DEF Lesser
<1> HIDE DEF all, n
<1>4. SubSeq(all, 1, n) \in Seq(PsclEntry)
  BY <1>2, <1>3
<1> QED BY <1>4 DEF Fill, all, n, rest

LEMMA LookupFinds ==
  ASSUME NEW table \in Seq(PsclEntry), NEW prefix, Lookup(table, prefix) # {}
  PROVE  table[Least(Lookup(table, prefix))] \in PsclEntry
<1>1. DOMAIN table = 1 .. Len(table) /\ Len(table) \in Nat
  OBVIOUS
<1>2. Lookup(table, prefix) \in SUBSET DOMAIN table
  BY DEF Lookup
<1>3. IsFiniteSet(1 .. Len(table))
  BY <1>1, FS_Interval
<1>4. IsFiniteSet(Lookup(table, prefix)) /\ Lookup(table, prefix) \in SUBSET Int
  BY <1>1, <1>2, <1>3, FS_Subset
<1>5. Least(Lookup(table, prefix)) \in DOMAIN table
  BY <1>2, <1>4, LeastMember
<1> QED BY <1>5

LEMMA UseTypes ==
  ASSUME NEW table \in Seq(PsclEntry), NEW prefix
  PROVE  Use(table, prefix) \in Seq(PsclEntry)
<1>1. CASE Lookup(table, prefix) = {}
  BY <1>1 DEF Use
<1>2. CASE Lookup(table, prefix) # {}
  <2>1. Fill(table, table[Least(Lookup(table, prefix))]) \in Seq(PsclEntry)
    BY <1>2, LookupFinds, FillTypes
  <2> QED BY <1>2, <2>1 DEF Use
<1> QED BY <1>1, <1>2

LEMMA FirstTable ==
  ASSUME NEW table \in Table
  PROVE  <<table[1], 0>> \in Table
<1>1. 0 \in 0 .. TablesPerPage - 1 /\ table[1] \in Nat
  BY Sizes DEF Table
<1> QED BY <1>1 DEF Table

LEMMA WalkInitTypes ==
  ASSUME VmemTypes, WalkTypes, NEW page \in VPage
  PROVE  WalkInit(page) \in Walk /\ WalkInit(page).page = page
<1> DEFINE hits == {l \in 1 .. Levels : Lookup(pscl[l], Prefix(page, l)) # {}}
           l == Least(hits)
<1>1. CASE hits = {}
  <2>1. WalkInit(page) = [page |-> page, address |-> <<page_table[RootKey][1], 0>>, level |-> Levels]
    BY <1>1 DEF WalkInit
  <2>2. page_table[RootKey] \in Table /\ Levels \in 0 .. Levels
    BY Sizes DEF VmemTypes
  <2>3. <<page_table[RootKey][1], 0>> \in Table
    BY <2>2, FirstTable
  <2> QED BY <2>1, <2>2, <2>3 DEF Walk
<1>2. CASE hits # {}
  <2> DEFINE data == pscl[l][Least(Lookup(pscl[l], Prefix(page, l)))].data
  <2>1. WalkInit(page) = [page |-> page, address |-> <<data[1], 0>>, level |-> l]
    BY <1>2 DEF WalkInit
  <2>2. l \in hits
    <3>1. hits \in SUBSET (1 .. Levels) /\ IsFiniteSet(1 .. Levels)
      BY FS_Interval, Sizes
    <3>2. hits \in SUBSET Int /\ IsFiniteSet(hits)
      BY <3>1, FS_Subset, Sizes
    <3> HIDE DEF hits
    <3> QED BY <1>2, <3>2, LeastMember
  <2>3. l \in 0 .. Levels
    <3>1. \A i \in 1 .. Levels : i \in 0 .. Levels
      BY Sizes
    <3> QED BY <2>2, <3>1
  <2>4. pscl[l] \in Seq(PsclEntry) /\ Lookup(pscl[l], Prefix(page, l)) # {}
    BY <2>2 DEF WalkTypes
  <2> HIDE DEF l
  <2>5. data \in Table
    <3>1. pscl[l][Least(Lookup(pscl[l], Prefix(page, l)))] \in PsclEntry
      BY <2>4, LookupFinds
    <3> QED BY <3>1 DEF PsclEntry
  <2> HIDE DEF data
  <2>6. <<data[1], 0>> \in Table
    BY <2>5, FirstTable
  <2> QED BY <2>1, <2>3, <2>6 DEF Walk
<1> QED BY <1>1, <1>2

LEMMA PrefixLengths ==
  ASSUME NEW n \in Nat, NEW S \in SUBSET (0 .. n), 0 \in S
  PROVE  Greatest(S) \in S /\ \A k \in S : k <= Greatest(S)
<1>1. IsFiniteSet(0 .. n)
  BY FS_Interval
<1>2. S \in SUBSET Int /\ S # {}
  OBVIOUS
<1>3. IsFiniteSet(S)
  BY <1>1, FS_Subset
<1> QED BY <1>2, <1>3, GreatestMember

-------------------------------------------------------------------------------
(* CACHE::operate *)

(* What the cache does leaves the walker alone; these are the steps that do. *)
LEMMA WalkQuiet ==
  ASSUME TranslationInv, UNCHANGED <<walkVars, asked, returned>>
  PROVE  WalkTypes' /\ WalksServed'
<1>1. WalkTypes'
  BY DEF TranslationInv, walkVars, WalkTypes
<1>2. WalksServed'
  BY DEF TranslationInv, walkVars, WalksServed, Sought
<1> QED BY <1>1, <1>2

LEMMA FinishTranslationKeeps == ASSUME TranslationInv, FinishTranslation PROVE TranslationInv'
<1> DEFINE r == Head(translate_returned)
           stash == [i \in DOMAIN translation_stash |-> Translated(translation_stash[i], r)]
           front == {i \in DOMAIN stash : stash[i].is_translated}
           back == DOMAIN stash \ front
           check == inflight_tag_check'
<1>0. CacheTypes /\ EntriesServed
  BY DEF TranslationInv
<1>1. translation_stash' = At(stash, front) \o At(stash, back)
  BY DEF FinishTranslation
<1>2. check = [i \in DOMAIN inflight_tag_check |-> Translated(inflight_tag_check[i], r)]
  BY DEF FinishTranslation
<1>3. r \in Reply /\ translate_returned' \in Seq(Reply)
      /\ \A i \in DOMAIN translate_returned :
           translate_returned[i] # r => i - 1 \in DOMAIN translate_returned'
                                        /\ translate_returned'[i - 1] = translate_returned[i]
  <2>1. translate_returned \in Seq(Reply) /\ translate_returned # <<>>
        /\ translate_returned' = Tail(translate_returned)
    BY <1>0 DEF FinishTranslation, CacheTypes
  <2>2. r = translate_returned[1] /\ Len(translate_returned) \in Nat \ {0}
    BY <2>1, EmptySeq
  <2>3. Tail(translate_returned) \in Seq(Reply)
        /\ Len(Tail(translate_returned)) = Len(translate_returned) - 1
        /\ \A i \in 1 .. Len(Tail(translate_returned)) :
             Tail(translate_returned)[i] = translate_returned[i + 1]
    BY <2>1, HeadTailProperties
  <2> QED BY <2>1, <2>2, <2>3
<1>4. ASSUME NEW page, UnderWay(page), page # r.page PROVE UnderWay(page)'
  <2>1. UNCHANGED <<RQ, MSHR, finished, completed>>
    BY DEF FinishTranslation, walkVars
  <2> QED BY <1>3, <1>4, <2>1 DEF UnderWay
<1> HIDE DEF r
<1>5. ASSUME NEW s \in Seq(Request), NEW t,
             t = [i \in DOMAIN s |-> Translated(s[i], r)]
      PROVE  /\ t \in Seq(Request) /\ DOMAIN t = DOMAIN s
             /\ \A i \in DOMAIN s : t[i].page = s[i].page
             /\ \A i \in DOMAIN s : Owed(t[i]) => Owed(s[i]) /\ s[i].page # r.page
  <2>1. \A i \in DOMAIN s : s[i] \in Request
    OBVIOUS
  <2>2. \A i \in DOMAIN s : t[i] \in Request /\ t[i].page = s[i].page
                            /\ (Owed(t[i]) => Owed(s[i]) /\ s[i].page # r.page)
    BY <1>3, <1>5, <2>1, TranslatedEntry
  <2>3. DOMAIN t = 1 .. Len(s) /\ Len(s) \in Nat
    BY <1>5
  <2> QED BY <1>5, <2>2, <2>3
<1>6. /\ stash \in Seq(Request) /\ DOMAIN stash = DOMAIN translation_stash
      /\ \A i \in DOMAIN translation_stash : stash[i].page = translation_stash[i].page
      /\ \A i \in DOMAIN translation_stash :
           Owed(stash[i]) => Owed(translation_stash[i]) /\ translation_stash[i].page # r.page
  <2> HIDE DEF stash
  <2>1. stash = [i \in DOMAIN translation_stash |-> Translated(translation_stash[i], r)]
    BY DEF stash
  <2> QED BY <1>0, <1>5, <2>1 DEF CacheTypes
<1>7. /\ check \in Seq(Request) /\ DOMAIN check = DOMAIN inflight_tag_check
      /\ \A i \in DOMAIN inflight_tag_check : check[i].page = inflight_tag_check[i].page
      /\ \A i \in DOMAIN inflight_tag_check :
           Owed(check[i]) => Owed(inflight_tag_check[i]) /\ inflight_tag_check[i].page # r.page
  <2> HIDE DEF check
  <2> QED BY <1>0, <1>2, <1>5 DEF CacheTypes, check
<1> HIDE DEF stash
<1>8. front \in SUBSET DOMAIN stash /\ back \in SUBSET DOMAIN stash
  OBVIOUS
<1> HIDE DEF front, back
<1>9. /\ At(stash, front) \in Seq(Request) /\ At(stash, back) \in Seq(Request)
      /\ \A k \in DOMAIN At(stash, front) : \E i \in DOMAIN stash : At(stash, front)[k] = stash[i]
      /\ \A k \in DOMAIN At(stash, back) : \E i \in DOMAIN stash : At(stash, back)[k] = stash[i]
  BY <1>6, <1>8, Selected
<1>10. /\ translation_stash' \in Seq(Request)
       /\ \A k \in DOMAIN translation_stash' : \E i \in DOMAIN stash : translation_stash'[k] = stash[i]
  <2> DEFINE a == At(stash, front)
             b == At(stash, back)
  <2> HIDE DEF a, b
  <2>1. a \o b \in Seq(Request)
        /\ \A k \in DOMAIN (a \o b) : \/ \E i \in DOMAIN a : (a \o b)[k] = a[i]
                                      \/ \E j \in DOMAIN b : (a \o b)[k] = b[j]
    BY <1>9, FromEither DEF a, b
  <2>2. translation_stash' = a \o b
    BY <1>1 DEF a, b
  <2>3. /\ \A k \in DOMAIN a : \E i \in DOMAIN stash : a[k] = stash[i]
        /\ \A k \in DOMAIN b : \E i \in DOMAIN stash : b[k] = stash[i]
    BY <1>9 DEF a, b
  <2> QED BY <2>1, <2>2, <2>3
<1>11. CacheTypes'
  <2>1. RQ' = RQ
    BY DEF FinishTranslation
  <2> QED BY <1>0, <1>3, <1>7, <1>10, <2>1 DEF CacheTypes
<1>12. ASSUME NEW k \in DOMAIN translation_stash', Owed(translation_stash'[k]),
              NEW page, page = translation_stash'[k].page
       PROVE  UnderWay(page)'
  <2>1. PICK i \in DOMAIN stash : translation_stash'[k] = stash[i]
    BY <1>10
  <2>2. /\ Owed(translation_stash[i]) /\ translation_stash[i].page # r.page
        /\ translation_stash'[k].page = translation_stash[i].page /\ i \in DOMAIN translation_stash
    BY <1>6, <1>12, <2>1
  <2>3. UnderWay(page) /\ page # r.page
    BY <1>0, <1>12, <2>2 DEF EntriesServed
  <2> QED BY <1>4, <2>3
<1>13. ASSUME NEW k \in DOMAIN check, Owed(check[k]), NEW page, page = check[k].page
       PROVE  UnderWay(page)'
  <2>2. /\ Owed(inflight_tag_check[k]) /\ inflight_tag_check[k].page # r.page
        /\ check[k].page = inflight_tag_check[k].page /\ k \in DOMAIN inflight_tag_check
    BY <1>7, <1>13
  <2>3. UnderWay(page) /\ page # r.page
    BY <1>0, <1>13, <2>2 DEF EntriesServed
  <2> QED BY <1>4, <2>3
<1>14. EntriesServed'
  BY <1>12, <1>13 DEF EntriesServed
<1>15. UNCHANGED vmem /\ UNCHANGED <<walkVars, asked, returned>>
  BY DEF FinishTranslation
<1> QED BY <1>11, <1>14, <1>15, VmemQuiet, WalkQuiet DEF TranslationInv

LEMMA TranslationsFinishedKeeps == ASSUME TranslationInv, TranslationsFinished PROVE TranslationInv'
<1>1. UNCHANGED vmem /\ UNCHANGED cacheVars /\ UNCHANGED <<translate_returned, RQ>>
      /\ UNCHANGED <<walkVars, asked, returned>>
  BY DEF TranslationsFinished
<1>2. CacheTypes'
  BY <1>1 DEF TranslationInv, CacheTypes, cacheVars
<1>3. EntriesServed'
  BY <1>1 DEF TranslationInv, EntriesServed, UnderWay, cacheVars, walkVars
<1> QED BY <1>1, <1>2, <1>3, VmemQuiet, WalkQuiet DEF TranslationInv

(* Entries come and go, nobody forgets a page. *)
LEMMA CacheQuiet ==
  ASSUME TranslationInv, CacheTypes',
         UNCHANGED <<vmem, translate_returned, walkVars, asked, returned>>,
         \A i \in DOMAIN RQ : \E k \in DOMAIN RQ' : RQ'[k] = RQ[i],
         \A page : (\/ \E k \in DOMAIN inflight_tag_check' :
                         Owed(inflight_tag_check'[k]) /\ inflight_tag_check'[k].page = page
                    \/ \E k \in DOMAIN translation_stash' :
                         Owed(translation_stash'[k]) /\ translation_stash'[k].page = page) =>
                   UnderWay(page) \/ \E k \in DOMAIN RQ' : RQ'[k] = page
  PROVE  TranslationInv'
<1>1. ASSUME NEW page, UnderWay(page) \/ \E k \in DOMAIN RQ' : RQ'[k] = page
      PROVE  UnderWay(page)'
  BY <1>1 DEF UnderWay, walkVars
<1>2. ASSUME NEW k \in DOMAIN inflight_tag_check', Owed(inflight_tag_check'[k]),
             NEW page, page = inflight_tag_check'[k].page
      PROVE  UnderWay(page)'
  BY <1>1, <1>2
<1>3. ASSUME NEW k \in DOMAIN translation_stash', Owed(translation_stash'[k]),
             NEW page, page = translation_stash'[k].page
      PROVE  UnderWay(page)'
  BY <1>1, <1>3
<1>4. EntriesServed'
  BY <1>2, <1>3 DEF EntriesServed
<1>5. VmemInv' /\ VmemTypes' /\ WalkTypes' /\ WalksServed'
  BY VmemQuiet, WalkQuiet
<1> QED BY <1>4, <1>5 DEF TranslationInv

LEMMA StashPrefix ==
  ASSUME CacheTypes
  PROVE  FromStash \in 0 .. Len(translation_stash)
<1> DEFINE x == Lesser(MAX_TAG, MAX_TAG * TAG_LATENCY - Len(inflight_tag_check))
           n == Lesser(TagRoom, Len(translation_stash))
           S == {k \in 0 .. n : \A i \in 1 .. k : translation_stash[i].is_translated}
<1>1. TagRoom \in Nat
  <2>1. MAX_TAG * TAG_LATENCY \in Int /\ Len(inflight_tag_check) \in Int
    BY Sizes DEF CacheTypes
  <2>2. x \in Int
    BY Sizes, <2>1 DEF Lesser
  <2>3. TagRoom = Greatest({0, x})
    BY DEF TagRoom
  <2> HIDE DEF x
  <2>4. IsFiniteSet({0, x})
    <3>1. IsFiniteSet({x})
      BY FS_Singleton
    <3>2. IsFiniteSet({x} \cup {0})
      BY <3>1, FS_AddElement
    <3>3. {x} \cup {0} = {0, x}
      OBVIOUS
    <3> QED BY <3>2, <3>3
  <2>5. {0, x} \in SUBSET Int /\ {0, x} # {}
    BY <2>2
  <2>6. Greatest({0, x}) \in {0, x} /\ \A y \in {0, x} : y <= Greatest({0, x})
    BY <2>4, <2>5, GreatestMember
  <2> HIDE DEF TagRoom
  <2> QED BY <2>2, <2>3, <2>6
<1>2. Len(translation_stash) \in Nat
  BY DEF CacheTypes
<1>3. n \in Nat /\ n <= Len(translation_stash)
  BY <1>1, <1>2 DEF Lesser
<1>4. FromStash = Greatest(S)
  BY DEF FromStash, PrefixLength
<1> HIDE DEF n
<1>5. S \in SUBSET (0 .. n) /\ 0 \in S
  BY <1>3
<1> HIDE DEF S
<1>6. Greatest(S) \in 0 .. n
  BY <1>3, <1>5, PrefixLengths
<1> QED BY <1>2, <1>3, <1>4, <1>6

LEMMA InitiateKeeps ==
  ASSUME TranslationInv, NEW n \in Nat, NEW entering \in [1 .. n -> VPage], Initiate(entering)
  PROVE  TranslationInv'
<1> DEFINE again == [i \in 1 .. FromStash |-> [translation_stash[i] EXCEPT !.wait = TAG_LATENCY]]
           new == [i \in DOMAIN entering |->
                     [page |-> entering[i], is_translated |-> FALSE, ppage |-> 0,
                      translate_issued |-> FALSE, wait |-> TAG_LATENCY]]
           old == inflight_tag_check
           rest == Drop(translation_stash, FromStash)
<1>0. CacheTypes /\ EntriesServed
  BY DEF TranslationInv
<1>1. /\ inflight_tag_check' = old \o again \o new
      /\ translation_stash' = rest
      /\ UNCHANGED <<vmem, translate_returned, RQ, walkVars, asked, returned>>
  BY DEF Initiate
<1>2. FromStash \in 0 .. Len(translation_stash)
  BY <1>0, StashPrefix
<1>3. /\ again \in Seq(Request) /\ DOMAIN again = 1 .. FromStash
      /\ \A i \in DOMAIN again : /\ i \in DOMAIN translation_stash
                                 /\ again[i].page = translation_stash[i].page
                                 /\ Owed(again[i]) <=> Owed(translation_stash[i])
  <2> DEFINE f == FromStash
  <2>1. \A i \in 1 .. f : translation_stash[i] \in Request /\ i \in DOMAIN translation_stash
    BY <1>0, <1>2 DEF CacheTypes
  <2>2. \A i \in 1 .. f : /\ again[i] \in Request /\ again[i].page = translation_stash[i].page
                          /\ Owed(again[i]) <=> Owed(translation_stash[i])
    BY <2>1, Sizes DEF Request, Owed
  <2>3. f \in Nat /\ again \in [1 .. f -> Request]
    BY <1>2, <2>2
  <2> HIDE DEF again, f
  <2>4. again \in Seq(Request)
    BY <2>3
  <2> QED BY <2>1, <2>2, <2>3, <2>4 DEF f
<1>4. new \in Seq(Request) /\ \A i \in DOMAIN new : ~Owed(new[i])
  <2>1. \A i \in 1 .. n : new[i] \in Request /\ ~Owed(new[i])
    BY Sizes DEF Request, Owed
  <2>2. new \in [1 .. n -> Request]
    BY <2>1
  <2> HIDE DEF new
  <2> QED BY <2>1, <2>2
<1>5. /\ rest \in Seq(Request)
      /\ \A k \in DOMAIN rest : \E i \in DOMAIN translation_stash : rest[k] = translation_stash[i]
  BY <1>0, <1>2, Dropped DEF CacheTypes
<1>6. old \in Seq(Request)
  BY <1>0 DEF CacheTypes
<1> HIDE DEF again, new, old, rest
<1>7. /\ old \o again \in Seq(Request)
      /\ \A k \in DOMAIN (old \o again) : \/ \E i \in DOMAIN old : (old \o again)[k] = old[i]
                                          \/ \E j \in DOMAIN again : (old \o again)[k] = again[j]
  <2>1. again \in Seq(Request)
    BY <1>3
  <2> QED BY <1>6, <2>1, FromEither
<1> DEFINE both == old \o again
<1>8. /\ both \in Seq(Request)
      /\ \A k \in DOMAIN both : \/ \E i \in DOMAIN old : both[k] = old[i]
                                \/ \E j \in DOMAIN again : both[k] = again[j]
  BY <1>7
<1>9. inflight_tag_check' = both \o new
  BY <1>1
<1> HIDE DEF both
<1>10. /\ inflight_tag_check' \in Seq(Request)
       /\ \A k \in DOMAIN inflight_tag_check' :
            \/ \E i \in DOMAIN both : inflight_tag_check'[k] = both[i]
            \/ \E j \in DOMAIN new : inflight_tag_check'[k] = new[j]
  <2>1. both \in Seq(Request) /\ new \in Seq(Request)
    BY <1>4, <1>8
  <2>2. /\ both \o new \in Seq(Request)
        /\ \A k \in DOMAIN (both \o new) : \/ \E i \in DOMAIN both : (both \o new)[k] = both[i]
                                           \/ \E j \in DOMAIN new : (both \o new)[k] = new[j]
    BY <2>1, FromEither
  <2> QED BY <1>9, <2>2
<1>11. CacheTypes'
  BY <1>0, <1>1, <1>5, <1>10 DEF CacheTypes
<1>12. ASSUME NEW k \in DOMAIN inflight_tag_check', Owed(inflight_tag_check'[k])
       PROVE  UnderWay(inflight_tag_check'[k].page)
  <2>1. PICK i \in DOMAIN both : inflight_tag_check'[k] = both[i]
    BY <1>4, <1>10, <1>12
  <2>2. CASE \E j \in DOMAIN old : both[i] = old[j]
    BY <1>0, <1>12, <2>1, <2>2 DEF EntriesServed, old
  <2>3. CASE \E j \in DOMAIN again : both[i] = again[j]
    BY <1>0, <1>3, <1>12, <2>1, <2>3 DEF EntriesServed
  <2> QED BY <1>8, <2>2, <2>3
<1>13. ASSUME NEW k \in DOMAIN translation_stash', Owed(translation_stash'[k])
       PROVE  UnderWay(translation_stash'[k].page)
  BY <1>0, <1>1, <1>5, <1>13 DEF EntriesServed
<1> QED BY <1>1, <1>11, <1>12, <1>13, CacheQuiet

LEMMA PerformChecksKeeps ==
  ASSUME TranslationInv, NEW S, PerformChecks(S)
  PROVE  TranslationInv'
<1> DEFINE I == DOMAIN inflight_tag_check \ S
<1>0. CacheTypes /\ EntriesServed
  BY DEF TranslationInv
<1>1. /\ inflight_tag_check' = At(inflight_tag_check, I)
      /\ UNCHANGED <<vmem, translation_stash, translate_returned, RQ, walkVars, asked, returned>>
  BY DEF PerformChecks
<1>2. I \in SUBSET DOMAIN inflight_tag_check
  OBVIOUS
<1> HIDE DEF I
<1>3. /\ inflight_tag_check' \in Seq(Request)
      /\ \A k \in DOMAIN inflight_tag_check' :
           \E i \in DOMAIN inflight_tag_check : inflight_tag_check'[k] = inflight_tag_check[i]
  BY <1>0, <1>1, <1>2, Selected DEF CacheTypes
<1>4. CacheTypes'
  BY <1>0, <1>1, <1>3 DEF CacheTypes
<1>5. \A k \in DOMAIN inflight_tag_check' :
        Owed(inflight_tag_check'[k]) => UnderWay(inflight_tag_check'[k].page)
  BY <1>0, <1>3 DEF EntriesServed
<1>6. \A k \in DOMAIN translation_stash' :
        Owed(translation_stash'[k]) => UnderWay(translation_stash'[k].page)
  BY <1>0, <1>1 DEF EntriesServed
<1> QED BY <1>1, <1>4, <1>5, <1>6, CacheQuiet

LEMMA IssueTranslationsKeeps ==
  ASSUME TranslationInv, IssueTranslations
  PROVE  TranslationInv'
<1> DEFINE all == inflight_tag_check \o translation_stash
           n == Len(inflight_tag_check)
           wants == {i \in DOMAIN all : NeedsWalk(all[i])}
           accepted == {i \in wants : Cardinality({j \in wants : j <= i}) <= RQ_SIZE - Len(RQ)}
           after == [i \in DOMAIN all |->
                       [all[i] EXCEPT !.translate_issued = @ \/ i \in Issued(wants, accepted)]]
           late == {i \in 1 .. n : after[i].wait = 0 /\ ~after[i].is_translated}
           stay == (1 .. n) \ late
           chosen == At(all, accepted)
           pages == [k \in 1 .. Cardinality(accepted) |-> chosen[k].page]
           rest == Drop(after, n)
           moved == At(after, late)
<1>0. CacheTypes /\ EntriesServed
  BY DEF TranslationInv
<1>1. /\ RQ' = RQ \o pages
      /\ inflight_tag_check' = At(after, stay)
      /\ translation_stash' = rest \o moved
      /\ UNCHANGED <<vmem, translate_returned, walkVars, asked, returned>>
  BY DEF IssueTranslations
<1>2. inflight_tag_check \in Seq(Request) /\ translation_stash \in Seq(Request)
  BY <1>0 DEF CacheTypes
<1>3. /\ all \in Seq(Request)
      /\ \A k \in DOMAIN all : \/ \E i \in DOMAIN inflight_tag_check : all[k] = inflight_tag_check[i]
                               \/ \E j \in DOMAIN translation_stash : all[k] = translation_stash[j]
  BY <1>2, FromEither
<1>4. n \in 0 .. Len(all)
  <2>1. Len(all) = n + Len(translation_stash)
    BY <1>2, Concatenated
  <2>2. n \in Nat /\ Len(translation_stash) \in Nat
    BY <1>2
  <2> HIDE DEF all, n
  <2> QED BY <2>1, <2>2
<1>5. \A i \in DOMAIN all : Owed(all[i]) => UnderWay(all[i].page)
  <2> HIDE DEF all
  <2> QED BY <1>0, <1>3 DEF EntriesServed
<1>6. wants \in SUBSET DOMAIN all /\ accepted \in SUBSET DOMAIN all
  OBVIOUS
<1>7. /\ after \in [DOMAIN all -> Request]
      /\ \A i \in DOMAIN all : /\ after[i].page = all[i].page
                               /\ Owed(after[i]) => Owed(all[i]) \/ i \in accepted
  <2> HIDE DEF all, wants, accepted
  <2>1. \A i \in DOMAIN all : all[i] \in Request
    BY <1>3
  <2>2. \A i \in DOMAIN all : after[i] = [all[i] EXCEPT !.translate_issued = @ \/ i \in accepted]
    BY DEF Issued
  <2> HIDE DEF after
  <2>3. ASSUME NEW i \in DOMAIN all
        PROVE  /\ after[i] \in Request /\ after[i].page = all[i].page
               /\ Owed(after[i]) => Owed(all[i]) \/ i \in accepted
    <3>1. all[i] \in Request /\ (all[i].translate_issued \/ i \in accepted) \in BOOLEAN
      BY <2>1 DEF Request
    <3>2. /\ after[i] \in Request /\ after[i].page = all[i].page
          /\ after[i].translate_issued = (all[i].translate_issued \/ i \in accepted)
          /\ after[i].is_translated = all[i].is_translated
      BY <2>2, <3>1 DEF Request
    <3> QED BY <3>2 DEF Owed
  <2> QED BY <2>3 DEF after
<1>8. DOMAIN all = 1 .. Len(all) /\ Len(all) \in Nat
  BY <1>3
<1>9. n \in Nat /\ late \in SUBSET (1 .. n)
  BY <1>4, <1>8
<1> HIDE DEF all, wants, accepted, after, n, late
<1>10. after \in Seq(Request) /\ Len(after) = Len(all) /\ DOMAIN after = DOMAIN all
  <2>1. after \in [1 .. Len(all) -> Request]
    BY <1>7, <1>8
  <2> QED BY <1>8, <2>1
<1>11. stay \in SUBSET DOMAIN after /\ late \in SUBSET DOMAIN after /\ n \in 0 .. Len(after)
  <2>1. 1 .. n \in SUBSET DOMAIN after
    BY <1>4, <1>8, <1>10
  <2> QED BY <1>4, <1>9, <1>10, <2>1
<1> HIDE DEF stay
(* The requests sent. *)
<1>12. /\ chosen \in Seq(Request) /\ Len(chosen) = Cardinality(accepted)
       /\ \A i \in accepted : \E k \in DOMAIN chosen : chosen[k] = all[i]
  BY <1>3, <1>6, Selected
<1>13. /\ pages \in Seq(VPage)
       /\ \A i \in accepted : \E k \in DOMAIN pages : pages[k] = all[i].page
  <2> HIDE DEF chosen
  <2>1. DOMAIN chosen = 1 .. Cardinality(accepted) /\ Cardinality(accepted) \in Nat
    BY <1>12
  <2>2. \A k \in 1 .. Cardinality(accepted) : chosen[k].page \in VPage
    <3> TAKE k \in 1 .. Cardinality(accepted)
    <3>1. chosen[k] \in Request
      BY <1>12, <2>1
    <3> QED BY <3>1 DEF Request
  <2>3. pages \in [1 .. Cardinality(accepted) -> VPage]
    BY <2>2
  <2>4. pages \in Seq(VPage)
    BY <2>1, <2>3
  <2> QED BY <1>12, <2>1, <2>4
<1> HIDE DEF pages
<1>14. /\ RQ' \in Seq(VPage)
       /\ \A i \in DOMAIN RQ : i \in DOMAIN RQ' /\ RQ'[i] = RQ[i]
       /\ \A k \in DOMAIN pages : \E i \in DOMAIN RQ' : RQ'[i] = pages[k]
  <2>1. RQ \in Seq(VPage) /\ pages \in Seq(VPage)
    BY <1>0, <1>13 DEF CacheTypes
  <2>2. /\ RQ \o pages \in Seq(VPage)
        /\ \A i \in DOMAIN RQ : i \in DOMAIN (RQ \o pages) /\ (RQ \o pages)[i] = RQ[i]
        /\ \A j \in DOMAIN pages : \E k \in DOMAIN (RQ \o pages) : (RQ \o pages)[k] = pages[j]
    BY <2>1, BothInside
  <2> QED BY <1>1, <2>2
<1>15. \A i \in DOMAIN after : Owed(after[i]) =>
          UnderWay(after[i].page) \/ \E k \in DOMAIN RQ' : RQ'[k] = after[i].page
  <2> SUFFICES ASSUME NEW i \in DOMAIN after, Owed(after[i])
               PROVE  UnderWay(after[i].page) \/ \E k \in DOMAIN RQ' : RQ'[k] = after[i].page
    OBVIOUS
  <2>1. i \in DOMAIN all /\ after[i].page = all[i].page /\ (Owed(all[i]) \/ i \in accepted)
    BY <1>7, <1>10
  <2>2. CASE Owed(all[i])
    BY <1>5, <2>1, <2>2
  <2>3. CASE i \in accepted
    BY <1>13, <1>14, <2>1, <2>3
  <2> QED BY <2>1, <2>2, <2>3
(* Where the entries are now. *)
<1>16. /\ inflight_tag_check' \in Seq(Request)
       /\ \A k \in DOMAIN inflight_tag_check' : \E i \in DOMAIN after : inflight_tag_check'[k] = after[i]
  BY <1>1, <1>10, <1>11, Selected
<1>17. /\ moved \in Seq(Request)
       /\ \A k \in DOMAIN moved : \E i \in DOMAIN after : moved[k] = after[i]
  BY <1>10, <1>11, Selected
<1>18. /\ rest \in Seq(Request)
       /\ \A k \in DOMAIN rest : \E i \in DOMAIN after : rest[k] = after[i]
  BY <1>10, <1>11, Dropped
<1> HIDE DEF rest, moved
<1>19. /\ translation_stash' \in Seq(Request)
       /\ \A k \in DOMAIN translation_stash' : \E i \in DOMAIN after : translation_stash'[k] = after[i]
  <2>1. rest \in Seq(Request) /\ moved \in Seq(Request)
    BY <1>17, <1>18
  <2>2. /\ rest \o moved \in Seq(Request)
        /\ \A k \in DOMAIN (rest \o moved) :
             \/ \E i \in DOMAIN rest : (rest \o moved)[k] = rest[i]
             \/ \E j \in DOMAIN moved : (rest \o moved)[k] = moved[j]
    BY <2>1, FromEither
  <2>3. translation_stash' = rest \o moved
    BY <1>1
  <2>4. ASSUME NEW k \in DOMAIN translation_stash'
        PROVE  \E i \in DOMAIN after : translation_stash'[k] = after[i]
    <3>1. CASE \E i \in DOMAIN rest : translation_stash'[k] = rest[i]
      BY <1>18, <3>1
    <3>2. CASE \E i \in DOMAIN moved : translation_stash'[k] = moved[i]
      BY <1>17, <3>2
    <3> QED BY <2>2, <2>3, <3>1, <3>2
  <2> QED BY <2>2, <2>3, <2>4
<1>20. CacheTypes'
  BY <1>0, <1>1, <1>14, <1>16, <1>19 DEF CacheTypes
<1>21. ASSUME NEW page,
              \/ \E k \in DOMAIN inflight_tag_check' :
                   Owed(inflight_tag_check'[k]) /\ inflight_tag_check'[k].page = page
              \/ \E k \in DOMAIN translation_stash' :
                   Owed(translation_stash'[k]) /\ translation_stash'[k].page = page
       PROVE  UnderWay(page) \/ \E k \in DOMAIN RQ' : RQ'[k] = page
  <2>1. PICK i \in DOMAIN after : Owed(after[i]) /\ after[i].page = page
    BY <1>16, <1>19, <1>21
  <2> QED BY <1>15, <2>1
<1> QED BY <1>1, <1>14, <1>20, <1>21, CacheQuiet

LEMMA EndCycleKeeps == ASSUME TranslationInv, EndCycle PROVE TranslationInv'
<1> DEFINE Tick(w) == IF w = 0 THEN 0 ELSE w - 1
           Ticked(s) == [i \in DOMAIN s |-> [s[i] EXCEPT !.wait = Tick(@)]]
<1>0. CacheTypes /\ WalkTypes /\ EntriesServed
  BY DEF TranslationInv
<1>1. /\ inflight_tag_check' = Ticked(inflight_tag_check)
      /\ finished' = Ticked(finished) /\ completed' = Ticked(completed)
      /\ UNCHANGED <<vmem, translation_stash, translate_returned, RQ, MSHR, pscl, asked, returned>>
  BY DEF EndCycle
<1>2. \A w \in Nat : Tick(w) \in Nat
  OBVIOUS
<1>3. /\ inflight_tag_check' \in Seq(Request)
      /\ DOMAIN inflight_tag_check' = DOMAIN inflight_tag_check
      /\ \A i \in DOMAIN inflight_tag_check :
           /\ inflight_tag_check'[i].page = inflight_tag_check[i].page
           /\ Owed(inflight_tag_check'[i]) <=> Owed(inflight_tag_check[i])
  <2> DEFINE s == inflight_tag_check
             t == inflight_tag_check'
  <2>1. s \in Seq(Request) /\ Len(s) \in Nat /\ DOMAIN s = 1 .. Len(s)
    BY <1>0 DEF CacheTypes
  <2>2. t = [i \in DOMAIN s |-> [s[i] EXCEPT !.wait = Tick(@)]]
    BY <1>1
  <2> HIDE DEF s, t, Tick
  <2>3. \A i \in DOMAIN s : s[i] \in Request /\ t[i] = [s[i] EXCEPT !.wait = Tick(@)]
    BY <2>1, <2>2
  <2>4. ASSUME NEW i \in DOMAIN s
        PROVE  t[i] \in Request /\ t[i].page = s[i].page /\ (Owed(t[i]) <=> Owed(s[i]))
    <3>1. s[i] \in Request /\ t[i] = [s[i] EXCEPT !.wait = Tick(s[i].wait)]
      BY <2>3
    <3>2. Tick(s[i].wait) \in Nat
      BY <1>2, <3>1 DEF Request
    <3> QED BY <3>1, <3>2 DEF Request, Owed
  <2>5. t \in [1 .. Len(s) -> Request]
    BY <2>1, <2>2, <2>4
  <2>6. t \in Seq(Request) /\ DOMAIN t = DOMAIN s
    BY <2>1, <2>5
  <2> QED BY <2>4, <2>6 DEF s, t
<1>4. /\ finished' \in Seq(Step) /\ DOMAIN finished' = DOMAIN finished
      /\ \A i \in DOMAIN finished : finished'[i].page = finished[i].page
  <2> DEFINE s == finished
             t == finished'
  <2>1. s \in Seq(Step) /\ Len(s) \in Nat /\ DOMAIN s = 1 .. Len(s)
    BY <1>0 DEF WalkTypes
  <2>2. t = [i \in DOMAIN s |-> [s[i] EXCEPT !.wait = Tick(@)]]
    BY <1>1
  <2> HIDE DEF s, t, Tick
  <2>3. \A i \in DOMAIN s : s[i] \in Step /\ t[i] = [s[i] EXCEPT !.wait = Tick(@)]
    BY <2>1, <2>2
  <2>4. ASSUME NEW i \in DOMAIN s
        PROVE  t[i] \in Step /\ t[i].page = s[i].page
    <3>1. s[i] \in Step /\ t[i] = [s[i] EXCEPT !.wait = Tick(s[i].wait)]
      BY <2>3
    <3>2. Tick(s[i].wait) \in Nat
      BY <1>2, <3>1 DEF Step
    <3> QED BY <3>1, <3>2 DEF Step
  <2>5. t \in [1 .. Len(s) -> Step]
    BY <2>1, <2>2, <2>4
  <2>6. t \in Seq(Step) /\ DOMAIN t = DOMAIN s
    BY <2>1, <2>5
  <2> QED BY <2>4, <2>6 DEF s, t
<1>5. /\ completed' \in Seq(Done) /\ DOMAIN completed' = DOMAIN completed
      /\ \A i \in DOMAIN completed : completed'[i].page = completed[i].page
  <2> DEFINE s == completed
             t == completed'
  <2>1. s \in Seq(Done) /\ Len(s) \in Nat /\ DOMAIN s = 1 .. Len(s)
    BY <1>0 DEF WalkTypes
  <2>2. t = [i \in DOMAIN s |-> [s[i] EXCEPT !.wait = Tick(@)]]
    BY <1>1
  <2> HIDE DEF s, t, Tick
  <2>3. \A i \in DOMAIN s : s[i] \in Done /\ t[i] = [s[i] EXCEPT !.wait = Tick(@)]
    BY <2>1, <2>2
  <2>4. ASSUME NEW i \in DOMAIN s
        PROVE  t[i] \in Done /\ t[i].page = s[i].page
    <3>1. s[i] \in Done /\ t[i] = [s[i] EXCEPT !.wait = Tick(s[i].wait)]
      BY <2>3
    <3>2. Tick(s[i].wait) \in Nat
      BY <1>2, <3>1 DEF Done
    <3> QED BY <3>1, <3>2 DEF Done
  <2>5. t \in [1 .. Len(s) -> Done]
    BY <2>1, <2>2, <2>4
  <2>6. t \in Seq(Done) /\ DOMAIN t = DOMAIN s
    BY <2>1, <2>5
  <2> QED BY <2>4, <2>6 DEF s, t
<1> HIDE DEF Ticked
<1>6. CacheTypes' /\ WalkTypes'
  BY <1>0, <1>1, <1>3, <1>4, <1>5 DEF CacheTypes, WalkTypes
<1>7. ASSUME NEW page, UnderWay(page) PROVE UnderWay(page)'
  BY <1>1, <1>4, <1>5, <1>7 DEF UnderWay
<1>8. ASSUME NEW k \in DOMAIN inflight_tag_check', Owed(inflight_tag_check'[k]),
             NEW page, page = inflight_tag_check'[k].page
      PROVE  UnderWay(page)'
  BY <1>0, <1>3, <1>7, <1>8 DEF EntriesServed
<1>9. ASSUME NEW k \in DOMAIN translation_stash', Owed(translation_stash'[k]),
             NEW page, page = translation_stash'[k].page
      PROVE  UnderWay(page)'
  BY <1>0, <1>1, <1>7, <1>9 DEF EntriesServed
<1>10. EntriesServed'
  BY <1>8, <1>9 DEF EntriesServed
<1>11. WalksServed'
  BY <1>1 DEF TranslationInv, WalksServed, Sought
<1> QED BY <1>1, <1>6, <1>10, <1>11, VmemQuiet DEF TranslationInv

-------------------------------------------------------------------------------
(* PageTableWalker::operate *)

(* A walk goes from one queue to the next, or to the answers. *)
LEMMA WalkerStep ==
  ASSUME TranslationInv, UNCHANGED cacheVars, CacheTypes', WalkTypes', WalksServed',
         VmemInv', VmemTypes',
         \A page : UnderWay(page) => UnderWay(page)'
  PROVE  TranslationInv'
<1>1. EntriesServed
  BY DEF TranslationInv
<1>2. UNCHANGED <<inflight_tag_check, translation_stash>>
  BY DEF cacheVars
<1>3. EntriesServed'
  BY <1>1, <1>2 DEF EntriesServed
<1> QED BY <1>3 DEF TranslationInv

LEMMA CacheTypesQuiet ==
  ASSUME CacheTypes, UNCHANGED <<cacheVars, translate_returned, RQ>>
  PROVE  CacheTypes'
  BY DEF CacheTypes, cacheVars

LEMMA FinishLastKeeps ==
  ASSUME TranslationInv, NEW i \in DOMAIN MSHR, FinishPacket(i), MSHR[i].level = 0
  PROVE  /\ VmemInv' /\ VmemTypes' /\ finished' = finished
         /\ completed' \in Seq(Done)
         /\ \A k \in DOMAIN completed : k \in DOMAIN completed' /\ completed'[k] = completed[k]
         /\ \E k \in DOMAIN completed' : completed'[k].page = MSHR[i].page
<1> DEFINE m == MSHR[i]
           w == HIT_LATENCY + (IF Touched(m.page) THEN 0 ELSE Penalty)
           c == [page |-> m.page, data |-> vpage_to_ppage_map'[m.page], wait |-> w]
<1>1. m \in Walk
  BY DEF TranslationInv, WalkTypes
<1>2. va_to_pa(m.page) /\ completed' = Append(completed, c) /\ finished' = finished
  BY DEF FinishPacket, FinishLast
<1>3. VmemInv' /\ VmemTypes' /\ vpage_to_ppage_map'[m.page] \in Nat
  BY <1>2, DataPageKeeps, DataPageTypes DEF TranslationInv
<1>4. w \in Nat
  BY Sizes
<1>5. c \in Done /\ c.page = m.page
  BY <1>1, <1>3, <1>4 DEF Done, Walk
<1> HIDE DEF c, m
<1>6. completed \in Seq(Done)
  BY DEF TranslationInv, WalkTypes
<1>7. /\ completed' \in Seq(Done)
      /\ \A k \in DOMAIN completed : k \in DOMAIN completed' /\ completed'[k] = completed[k]
      /\ \E k \in DOMAIN completed' : completed'[k] = c
  <2>1. /\ Append(completed, c) \in Seq(Done)
        /\ \A k \in DOMAIN completed : k \in DOMAIN Append(completed, c) /\ Append(completed, c)[k] = completed[k]
        /\ \E k \in DOMAIN Append(completed, c) : Append(completed, c)[k] = c
    BY <1>5, <1>6, Longer
  <2> QED BY <1>2, <2>1
<1> QED BY <1>2, <1>3, <1>5, <1>7 DEF m

LEMMA FinishStepKeeps ==
  ASSUME TranslationInv, NEW i \in DOMAIN MSHR, FinishPacket(i), MSHR[i].level # 0
  PROVE  /\ VmemInv' /\ VmemTypes' /\ completed' = completed
         /\ finished' \in Seq(Step)
         /\ \A k \in DOMAIN finished : k \in DOMAIN finished' /\ finished'[k] = finished[k]
         /\ \E k \in DOMAIN finished' : finished'[k].page = MSHR[i].page
<1> DEFINE m == MSHR[i]
           key == Key(m.page, m.level)
           w == HIT_LATENCY + (IF Walked(key) THEN 0 ELSE Penalty)
           f == [page |-> m.page, data |-> page_table'[key], level |-> m.level, wait |-> w]
<1>1. m \in Walk /\ m.level \in 1 .. Levels
  <2>1. m \in Walk
    BY DEF TranslationInv, WalkTypes
  <2>2. m.level \in 0 .. Levels
    BY <2>1 DEF Walk
  <2> QED BY <2>1, <2>2
<1>2. get_pte_pa(key) /\ finished' = Append(finished, f) /\ completed' = completed
  BY DEF FinishPacket, FinishStep
<1>3. VmemInv' /\ VmemTypes' /\ page_table'[key] \in Table
  BY <1>2, TablePageKeeps, TablePageTypes DEF TranslationInv
<1>4. w \in Nat
  BY Sizes
<1>5. f \in Step /\ f.page = m.page
  BY <1>1, <1>3, <1>4 DEF Step, Walk
<1> HIDE DEF f, m
<1>6. finished \in Seq(Step)
  BY DEF TranslationInv, WalkTypes
<1>7. /\ finished' \in Seq(Step)
      /\ \A k \in DOMAIN finished : k \in DOMAIN finished' /\ finished'[k] = finished[k]
      /\ \E k \in DOMAIN finished' : finished'[k] = f
  <2>1. /\ Append(finished, f) \in Seq(Step)
        /\ \A k \in DOMAIN finished : k \in DOMAIN Append(finished, f) /\ Append(finished, f)[k] = finished[k]
        /\ \E k \in DOMAIN Append(finished, f) : Append(finished, f)[k] = f
    BY <1>5, <1>6, Longer
  <2> QED BY <1>2, <2>1
<1> QED BY <1>2, <1>3, <1>5, <1>7 DEF m

LEMMA FinishPacketKeeps ==
  ASSUME TranslationInv, NEW i \in DOMAIN MSHR, FinishPacket(i)
  PROVE  TranslationInv'
<1> DEFINE I == DOMAIN MSHR \ {i}
<1>0. CacheTypes /\ WalkTypes /\ WalksServed
  BY DEF TranslationInv
<1>1. /\ MSHR' = At(MSHR, I)
      /\ UNCHANGED <<cacheVars, translate_returned, RQ, pscl, asked, returned>>
  BY DEF FinishPacket
<1>2. I \in SUBSET DOMAIN MSHR
  OBVIOUS
<1>3. \A j \in DOMAIN MSHR : j = i \/ j \in I
  OBVIOUS
<1> HIDE DEF I
<1>4. /\ MSHR' \in Seq(Walk)
      /\ \A k \in DOMAIN MSHR' : \E j \in DOMAIN MSHR : MSHR'[k] = MSHR[j]
      /\ \A j \in I : \E k \in DOMAIN MSHR' : MSHR'[k] = MSHR[j]
  BY <1>0, <1>1, <1>2, Selected DEF WalkTypes
<1>5. /\ VmemInv' /\ VmemTypes'
      /\ finished' \in Seq(Step) /\ completed' \in Seq(Done)
      /\ \A k \in DOMAIN finished : k \in DOMAIN finished' /\ finished'[k] = finished[k]
      /\ \A k \in DOMAIN completed : k \in DOMAIN completed' /\ completed'[k] = completed[k]
      /\ \/ \E k \in DOMAIN completed' : completed'[k].page = MSHR[i].page
         \/ \E k \in DOMAIN finished' : finished'[k].page = MSHR[i].page
  <2>1. finished \in Seq(Step) /\ completed \in Seq(Done)
    BY <1>0 DEF WalkTypes
  <2>2. CASE MSHR[i].level = 0
    BY <2>1, <2>2, FinishLastKeeps
  <2>3. CASE MSHR[i].level # 0
    BY <2>1, <2>3, FinishStepKeeps
  <2> QED BY <2>2, <2>3
<1>6. CacheTypes'
  BY <1>0, <1>1, CacheTypesQuiet
<1>7. WalkTypes'
  BY <1>0, <1>1, <1>4, <1>5 DEF WalkTypes
<1>8. WalksServed'
  BY <1>0, <1>1, <1>4 DEF WalksServed, Sought
<1>9. ASSUME NEW page, UnderWay(page) PROVE UnderWay(page)'
  <2>1. CASE \E j \in DOMAIN MSHR : MSHR[j].page = page
    <3>1. PICK j \in DOMAIN MSHR : MSHR[j].page = page
      BY <2>1
    <3>2. CASE j = i
      BY <1>5, <3>1, <3>2 DEF UnderWay
    <3>3. CASE j \in I
      BY <1>4, <3>1, <3>3 DEF UnderWay
    <3> QED BY <1>3, <3>2, <3>3
  <2>2. CASE ~\E j \in DOMAIN MSHR : MSHR[j].page = page
    BY <1>1, <1>5, <1>9, <2>2 DEF UnderWay
  <2> QED BY <2>1, <2>2
<1> QED BY <1>1, <1>5, <1>6, <1>7, <1>8, <1>9, WalkerStep

LEMMA ClearReturnedKeeps == ASSUME TranslationInv, ClearReturned PROVE TranslationInv'
<1>0. CacheTypes /\ WalkTypes /\ WalksServed
  BY DEF TranslationInv
<1>1. /\ Matching = {} /\ returned # <<>> /\ returned' = Tail(returned)
      /\ UNCHANGED <<vmem, cacheVars, translate_returned, RQ, walkVars, asked>>
  BY DEF ClearReturned, Unserved
<1>2. returned \in Seq(Table)
  BY <1>0 DEF WalkTypes
<1>3. /\ returned' \in Seq(Table) /\ Head(returned) = returned[1]
      /\ \A k \in DOMAIN returned : k # 1 => k - 1 \in DOMAIN returned' /\ returned'[k - 1] = returned[k]
  BY <1>1, <1>2, Shorter
<1>4. \A j \in DOMAIN MSHR : MSHR[j].address # returned[1]
  BY <1>1, <1>3 DEF Matching
<1>5. WalksServed'
  <2>1. UNCHANGED <<MSHR, asked>>
    BY <1>1 DEF walkVars
  <2> QED BY <1>0, <1>3, <1>4, <2>1 DEF WalksServed, Sought
<1>6. WalkTypes'
  BY <1>0, <1>1, <1>3 DEF WalkTypes, walkVars
<1>7. CacheTypes'
  BY <1>0, <1>1, CacheTypesQuiet
<1>8. \A page : UnderWay(page) => UnderWay(page)'
  BY <1>1 DEF UnderWay, walkVars
<1> QED BY <1>1, <1>5, <1>6, <1>7, <1>8, VmemQuiet, WalkerStep

LEMMA RespondKeeps == ASSUME TranslationInv, Respond PROVE TranslationInv'
<1> DEFINE n == PrefixLength(completed, MAX_FILL, LAMBDA c : c.wait = 0)
           m == Lesser(MAX_FILL, Len(completed))
           S == {k \in 0 .. m : \A i \in 1 .. k : completed[i].wait = 0}
           answers == [i \in 1 .. n |-> [page |-> completed[i].page, ppage |-> completed[i].data]]
<1>0. CacheTypes /\ WalkTypes /\ WalksServed
  BY DEF TranslationInv
<1>1. /\ translate_returned' = translate_returned \o answers
      /\ completed' = Drop(completed, n)
      /\ UNCHANGED <<vmem, cacheVars, RQ, MSHR, finished, pscl, asked, returned>>
  BY DEF Respond
<1>2. completed \in Seq(Done) /\ Len(completed) \in Nat /\ translate_returned \in Seq(Reply)
  BY <1>0 DEF WalkTypes, CacheTypes
<1>3. n \in 0 .. Len(completed)
  <2>1. m \in Nat /\ m <= Len(completed)
    BY <1>2, Sizes DEF Lesser
  <2>2. n = Greatest(S)
    BY DEF PrefixLength
  <2> HIDE DEF m, n
  <2>3. S \in SUBSET (0 .. m) /\ 0 \in S
    BY <2>1
  <2> HIDE DEF S
  <2>4. Greatest(S) \in 0 .. m
    BY <2>1, <2>3, PrefixLengths
  <2> QED BY <1>2, <2>1, <2>2, <2>4
<1> HIDE DEF n
<1>4. /\ answers \in Seq(Reply)
      /\ \A i \in 1 .. n : i \in DOMAIN answers /\ answers[i].page = completed[i].page
  <2>1. \A i \in 1 .. n : completed[i] \in Done
    BY <1>2, <1>3
  <2>2. answers \in [1 .. n -> Reply]
    BY <2>1 DEF Done, Reply
  <2>3. \A i \in 1 .. n : i \in DOMAIN answers /\ answers[i].page = completed[i].page
    OBVIOUS
  <2> HIDE DEF answers
  <2>4. n \in Nat
    BY <1>2, <1>3
  <2>5. answers \in Seq(Reply)
    BY <2>2, <2>4
  <2> QED BY <2>3, <2>5
<1> HIDE DEF answers
<1>5. /\ translate_returned' \in Seq(Reply)
      /\ \A i \in DOMAIN translate_returned :
           i \in DOMAIN translate_returned' /\ translate_returned'[i] = translate_returned[i]
      /\ \A j \in DOMAIN answers : \E k \in DOMAIN translate_returned' : translate_returned'[k] = answers[j]
  <2> DEFINE t == translate_returned \o answers
  <2>1. /\ t \in Seq(Reply)
        /\ \A i \in DOMAIN translate_returned : i \in DOMAIN t /\ t[i] = translate_returned[i]
        /\ \A j \in DOMAIN answers : \E k \in DOMAIN t : t[k] = answers[j]
    BY <1>2, <1>4, BothInside
  <2>2. translate_returned' = t
    BY <1>1
  <2> HIDE DEF t
  <2> QED BY <2>1, <2>2
<1>6. /\ completed' \in Seq(Done)
      /\ \A i \in DOMAIN completed : i > n => i - n \in DOMAIN completed' /\ completed'[i - n] = completed[i]
  BY <1>1, <1>2, <1>3, Dropped
<1>7. \A i \in DOMAIN completed : i \in 1 .. n \/ i > n
  BY <1>2, <1>3
<1>8. CacheTypes'
  BY <1>0, <1>1, <1>5 DEF CacheTypes, cacheVars
<1>9. WalkTypes'
  BY <1>0, <1>1, <1>6 DEF WalkTypes
<1>10. WalksServed'
  BY <1>0, <1>1 DEF WalksServed, Sought
<1>11. ASSUME NEW page, UnderWay(page) PROVE UnderWay(page)'
  <2>1. CASE \E j \in DOMAIN completed : completed[j].page = page
    <3>1. PICK j \in DOMAIN completed : completed[j].page = page
      BY <2>1
    <3>2. CASE j \in 1 .. n
      BY <1>4, <1>5, <3>1, <3>2 DEF UnderWay
    <3>3. CASE j > n
      BY <1>6, <3>1, <3>3 DEF UnderWay
    <3> QED BY <1>7, <3>2, <3>3
  <2>2. CASE ~\E j \in DOMAIN completed : completed[j].page = page
    BY <1>1, <1>5, <1>11, <2>2 DEF UnderWay
  <2> QED BY <2>1, <2>2
<1> QED BY <1>1, <1>8, <1>9, <1>10, <1>11, VmemQuiet, WalkerStep

(* What the lower level is tried with is entered in its PSCL. *)
LEMMA EnterTypes ==
  ASSUME TranslationInv, ToFill, EnterFilled
  PROVE  pscl' \in [1 .. Levels -> Seq(PsclEntry)] /\ finished[1] \in Step
<1> DEFINE f == finished[1]
           entry == [prefix |-> Prefix(f.page, f.level), data |-> f.data]
<1>1. f \in Step
  <2>1. finished \in Seq(Step) /\ finished # <<>>
    BY DEF TranslationInv, WalkTypes, ToFill
  <2> QED BY <2>1, Shorter
<1> HIDE DEF f
<1>2. f.page \in VPage /\ f.level \in 1 .. Levels /\ f.data \in Table
  BY <1>1 DEF Step
<1>3. entry \in PsclEntry
  BY <1>2 DEF PsclEntry, Prefixes
<1>4. pscl \in [1 .. Levels -> Seq(PsclEntry)]
  BY DEF TranslationInv, WalkTypes
<1>5. pscl' = [pscl EXCEPT ![f.level] = Fill(pscl[f.level], entry)]
  BY DEF EnterFilled, f
<1> HIDE DEF entry
<1>6. Fill(pscl[f.level], entry) \in Seq(PsclEntry)
  BY <1>2, <1>3, <1>4, FillTypes
<1>7. pscl' \in [1 .. Levels -> Seq(PsclEntry)]
  BY <1>4, <1>5, <1>6
<1> QED BY <1>1, <1>7 DEF f

LEMMA UseHitsTypes ==
  ASSUME TranslationInv, UseHits
  PROVE  pscl' \in [1 .. Levels -> Seq(PsclEntry)]
<1>1. \A level \in 1 .. Levels : pscl[level] \in Seq(PsclEntry)
  BY DEF TranslationInv, WalkTypes
<1>2. \A level \in 1 .. Levels : Use(pscl[level], Prefix(Head(RQ), level)) \in Seq(PsclEntry)
  BY <1>1, UseTypes
<1> QED BY <1>2 DEF UseHits

(* The walker does nothing but look at its PSCLs. *)
LEMMA RefusedKeeps ==
  ASSUME TranslationInv, pscl' \in [1 .. Levels -> Seq(PsclEntry)],
         UNCHANGED <<vmem, cacheVars, translate_returned, RQ, MSHR, finished, completed,
                     asked, returned>>
  PROVE  TranslationInv'
<1>1. CacheTypes'
  BY CacheTypesQuiet DEF TranslationInv
<1>2. WalkTypes'
  BY DEF TranslationInv, WalkTypes
<1>3. WalksServed'
  BY DEF TranslationInv, WalksServed, Sought
<1>4. \A page : UnderWay(page) => UnderWay(page)'
  BY DEF UnderWay
<1> QED BY <1>1, <1>2, <1>3, <1>4, VmemQuiet, WalkerStep

LEMMA HandleFillKeeps == ASSUME TranslationInv, HandleFill PROVE TranslationInv'
<1> DEFINE f == finished[1]
           next == NextLevel(f)
<1>0. CacheTypes /\ WalkTypes /\ WalksServed
  BY DEF TranslationInv
<1>1. /\ ToFill /\ EnterFilled
      /\ MSHR' = Append(MSHR, next) /\ asked' = asked \cup {f.data} /\ finished' = Tail(finished)
      /\ UNCHANGED <<vmem, cacheVars, translate_returned, RQ, completed, returned>>
  BY DEF HandleFill
<1>2. pscl' \in [1 .. Levels -> Seq(PsclEntry)] /\ f \in Step
  BY <1>1, EnterTypes
<1>3. MSHR \in Seq(Walk) /\ finished \in Seq(Step) /\ finished # <<>>
  BY <1>0, <1>1 DEF WalkTypes, ToFill
<1>4. /\ finished' \in Seq(Step)
      /\ \A k \in DOMAIN finished : k # 1 => k - 1 \in DOMAIN finished' /\ finished'[k - 1] = finished[k]
  BY <1>1, <1>3, Shorter
<1> HIDE DEF f
<1>5. next \in Walk /\ next.page = f.page /\ next.address = f.data /\ f.data \in Table
  <2>1. f.level \in 1 .. Levels /\ f.page \in VPage /\ f.data \in Table
    BY <1>2 DEF Step
  <2>2. f.level - 1 \in 0 .. Levels
    BY <2>1, Sizes
  <2> QED BY <2>1, <2>2 DEF NextLevel, Walk
<1> HIDE DEF next
<1>6. /\ MSHR' \in Seq(Walk)
      /\ \A k \in DOMAIN MSHR : k \in DOMAIN MSHR' /\ MSHR'[k] = MSHR[k]
      /\ \E k \in DOMAIN MSHR' : MSHR'[k] = next
      /\ \A k \in DOMAIN MSHR' : MSHR'[k] = next \/ \E j \in DOMAIN MSHR : MSHR'[k] = MSHR[j]
  <2>1. MSHR \in Seq(Walk) /\ next \in Walk
    BY <1>3, <1>5
  <2>2. /\ Append(MSHR, next) \in Seq(Walk)
        /\ \A k \in DOMAIN MSHR : k \in DOMAIN Append(MSHR, next) /\ Append(MSHR, next)[k] = MSHR[k]
        /\ \E k \in DOMAIN Append(MSHR, next) : Append(MSHR, next)[k] = next
        /\ \A k \in DOMAIN Append(MSHR, next) :
             Append(MSHR, next)[k] = next \/ \E j \in DOMAIN MSHR : Append(MSHR, next)[k] = MSHR[j]
    BY <2>1, Longer
  <2>3. MSHR' = Append(MSHR, next)
    BY <1>1
  <2> QED BY <2>2, <2>3
<1>7. CacheTypes'
  BY <1>0, <1>1, CacheTypesQuiet
<1>8. WalkTypes'
  BY <1>0, <1>1, <1>2, <1>4, <1>5, <1>6 DEF WalkTypes
<1>9. WalksServed'
  BY <1>0, <1>1, <1>5, <1>6 DEF WalksServed, Sought
<1>10. ASSUME NEW page, UnderWay(page) PROVE UnderWay(page)'
  <2>1. CASE \E j \in DOMAIN finished : finished[j].page = page
    <3>1. PICK j \in DOMAIN finished : finished[j].page = page
      BY <2>1
    <3>2. CASE j = 1
      BY <1>5, <1>6, <3>1, <3>2 DEF UnderWay, f
    <3>3. CASE j # 1
      BY <1>4, <3>1, <3>3 DEF UnderWay
    <3> QED BY <3>2, <3>3
  <2>2. CASE ~\E j \in DOMAIN finished : finished[j].page = page
    BY <1>1, <1>6, <1>10, <2>2 DEF UnderWay
  <2> QED BY <2>1, <2>2
<1> QED BY <1>1, <1>7, <1>8, <1>9, <1>10, VmemQuiet, WalkerStep

LEMMA HandleReadKeeps == ASSUME TranslationInv, HandleRead PROVE TranslationInv'
<1> DEFINE page0 == Head(RQ)
           next == WalkInit(page0)
<1>0. CacheTypes /\ WalkTypes /\ WalksServed /\ VmemTypes
  BY DEF TranslationInv
<1>1. /\ ToRead /\ UseHits
      /\ MSHR' = Append(MSHR, next) /\ asked' = asked \cup {next.address} /\ RQ' = Tail(RQ)
      /\ UNCHANGED <<vmem, cacheVars, translate_returned, finished, completed, returned>>
  BY DEF HandleRead
<1>2. pscl' \in [1 .. Levels -> Seq(PsclEntry)]
  BY <1>1, UseHitsTypes
<1>3. MSHR \in Seq(Walk) /\ RQ \in Seq(VPage) /\ RQ # <<>>
  BY <1>0, <1>1 DEF WalkTypes, CacheTypes, ToRead
<1>4. /\ page0 = RQ[1] /\ page0 \in VPage /\ RQ' \in Seq(VPage)
      /\ \A k \in DOMAIN RQ : k # 1 => k - 1 \in DOMAIN RQ' /\ RQ'[k - 1] = RQ[k]
  <2>1. /\ Head(RQ) = RQ[1] /\ RQ[1] \in VPage /\ Tail(RQ) \in Seq(VPage)
        /\ \A k \in DOMAIN RQ : k # 1 => k - 1 \in DOMAIN Tail(RQ) /\ Tail(RQ)[k - 1] = RQ[k]
    BY <1>3, Shorter
  <2> QED BY <1>1, <2>1
<1> HIDE DEF page0
<1>5. next \in Walk /\ next.page = page0
  BY <1>0, <1>4, WalkInitTypes
<1> HIDE DEF next
<1>6. next.address \in Table
  BY <1>5 DEF Walk
<1>7. /\ MSHR' \in Seq(Walk)
      /\ \A k \in DOMAIN MSHR : k \in DOMAIN MSHR' /\ MSHR'[k] = MSHR[k]
      /\ \E k \in DOMAIN MSHR' : MSHR'[k] = next
      /\ \A k \in DOMAIN MSHR' : MSHR'[k] = next \/ \E j \in DOMAIN MSHR : MSHR'[k] = MSHR[j]
  <2>1. MSHR \in Seq(Walk) /\ next \in Walk
    BY <1>3, <1>5
  <2>2. /\ Append(MSHR, next) \in Seq(Walk)
        /\ \A k \in DOMAIN MSHR : k \in DOMAIN Append(MSHR, next) /\ Append(MSHR, next)[k] = MSHR[k]
        /\ \E k \in DOMAIN Append(MSHR, next) : Append(MSHR, next)[k] = next
        /\ \A k \in DOMAIN Append(MSHR, next) :
             Append(MSHR, next)[k] = next \/ \E j \in DOMAIN MSHR : Append(MSHR, next)[k] = MSHR[j]
    BY <2>1, Longer
  <2>3. MSHR' = Append(MSHR, next)
    BY <1>1
  <2> QED BY <2>2, <2>3
<1>8. CacheTypes'
  BY <1>0, <1>1, <1>4 DEF CacheTypes, cacheVars
<1>9. WalkTypes'
  BY <1>0, <1>1, <1>2, <1>6, <1>7 DEF WalkTypes
<1>10. WalksServed'
  BY <1>0, <1>1, <1>7 DEF WalksServed, Sought
<1>11. ASSUME NEW page, UnderWay(page) PROVE UnderWay(page)'
  <2>1. CASE \E j \in DOMAIN RQ : RQ[j] = page
    <3>1. PICK j \in DOMAIN RQ : RQ[j] = page
      BY <2>1
    <3>2. CASE j = 1
      BY <1>4, <1>5, <1>7, <3>1, <3>2 DEF UnderWay
    <3>3. CASE j # 1
      BY <1>4, <3>1, <3>3 DEF UnderWay
    <3> QED BY <3>2, <3>3
  <2>2. CASE ~\E j \in DOMAIN RQ : RQ[j] = page
    BY <1>1, <1>7, <1>11, <2>2 DEF UnderWay
  <2> QED BY <2>1, <2>2
<1> QED BY <1>1, <1>8, <1>9, <1>10, <1>11, VmemQuiet, WalkerStep

LEMMA AnswerKeeps == ASSUME TranslationInv, NEW block \in asked, Answer(block) PROVE TranslationInv'
<1>0. CacheTypes /\ WalkTypes /\ WalksServed
  BY DEF TranslationInv
<1>1. /\ asked' = asked \ {block} /\ returned' = Append(returned, block)
      /\ UNCHANGED <<vmem, cacheVars, translate_returned, RQ, walkVars>>
  BY DEF Answer
<1>2. returned \in Seq(Table) /\ block \in Table
  BY <1>0 DEF WalkTypes
<1>3. /\ returned' \in Seq(Table)
      /\ \A k \in DOMAIN returned : k \in DOMAIN returned' /\ returned'[k] = returned[k]
      /\ \E k \in DOMAIN returned' : returned'[k] = block
  <2>1. /\ Append(returned, block) \in Seq(Table)
        /\ \A k \in DOMAIN returned :
             k \in DOMAIN Append(returned, block) /\ Append(returned, block)[k] = returned[k]
        /\ \E k \in DOMAIN Append(returned, block) : Append(returned, block)[k] = block
    BY <1>2, Longer
  <2> QED BY <1>1, <2>1
<1>4. \A b : Sought(b) => Sought(b)'
  BY <1>1, <1>3 DEF Sought
<1>5. WalksServed'
  <2>1. UNCHANGED MSHR
    BY <1>1 DEF walkVars
  <2>2. ASSUME NEW i \in DOMAIN MSHR', NEW b, b = MSHR'[i].address PROVE Sought(b)'
    BY <1>0, <1>4, <2>1, <2>2 DEF WalksServed
  <2> QED BY <2>2 DEF WalksServed
<1>6. WalkTypes'
  BY <1>0, <1>1, <1>3 DEF WalkTypes, walkVars
<1>7. CacheTypes'
  BY <1>0, <1>1, CacheTypesQuiet
<1>8. \A page : UnderWay(page) => UnderWay(page)'
  BY <1>1 DEF UnderWay, walkVars
<1> QED BY <1>1, <1>5, <1>6, <1>7, <1>8, VmemQuiet, WalkerStep

LEMMA FillRefusedKeeps == ASSUME TranslationInv, FillRefused PROVE TranslationInv'
<1>1. ToFill /\ EnterFilled
      /\ UNCHANGED <<vmem, cacheVars, translate_returned, RQ, MSHR, finished, completed, asked, returned>>
  BY DEF FillRefused
<1> QED BY <1>1, EnterTypes, RefusedKeeps

LEMMA ReadRefusedKeeps == ASSUME TranslationInv, ReadRefused PROVE TranslationInv'
<1>1. UseHits
      /\ UNCHANGED <<vmem, cacheVars, translate_returned, RQ, MSHR, finished, completed, asked, returned>>
  BY DEF ReadRefused
<1> QED BY <1>1, UseHitsTypes, RefusedKeeps

LEMMA NothingLeftKeeps ==
  ASSUME TranslationInv, FillsDone \/ ReadsDone \/ UNCHANGED vars
  PROVE  TranslationInv'
<1>1. UNCHANGED <<vmem, cacheVars, translate_returned, RQ, MSHR, finished, completed, asked, returned>>
      /\ pscl' = pscl
  BY DEF FillsDone, ReadsDone, vars, walkVars
<1>2. pscl' \in [1 .. Levels -> Seq(PsclEntry)]
  BY <1>1 DEF TranslationInv, WalkTypes
<1> QED BY <1>1, <1>2, RefusedKeeps

-------------------------------------------------------------------------------
LEMMA TranslationSteps == ASSUME TranslationInv, [Next]_vars PROVE TranslationInv'
<1>1. CASE FinishTranslation
  BY <1>1, FinishTranslationKeeps
<1>2. CASE TranslationsFinished
  BY <1>2, TranslationsFinishedKeeps
<1>3. CASE \E n \in 0 .. MAX_TAG : \E entering \in [1 .. n -> VPage] : Initiate(entering)
  <2>1. PICK n \in 0 .. MAX_TAG : \E entering \in [1 .. n -> VPage] : Initiate(entering)
    BY <1>3
  <2>2. n \in Nat
    BY Sizes
  <2> QED BY <2>1, <2>2, InitiateKeeps
<1>4. CASE IssueTranslations
  BY <1>4, IssueTranslationsKeeps
<1>5. CASE \E S \in SUBSET CheckSpan : PerformChecks(S)
  BY <1>5, PerformChecksKeeps
<1>6. CASE \E i \in DOMAIN MSHR : FinishPacket(i)
  BY <1>6, FinishPacketKeeps
<1>7. CASE ClearReturned
  BY <1>7, ClearReturnedKeeps
<1>8. CASE Respond
  BY <1>8, RespondKeeps
<1>9. CASE HandleFill
  BY <1>9, HandleFillKeeps
<1>10. CASE FillRefused
  BY <1>10, FillRefusedKeeps
<1>11. CASE HandleRead
  BY <1>11, HandleReadKeeps
<1>12. CASE ReadRefused
  BY <1>12, ReadRefusedKeeps
<1>13. CASE EndCycle
  BY <1>13, EndCycleKeeps
<1>14. CASE \E block \in asked : Answer(block)
  BY <1>14, AnswerKeeps
<1>15. CASE FillsDone \/ ReadsDone \/ UNCHANGED vars
  BY <1>15, NothingLeftKeeps
<1> QED BY <1>1, <1>2, <1>3, <1>4, <1>5, <1>6, <1>7, <1>8, <1>9, <1>10, <1>11, <1>12, <1>13,
           <1>14, <1>15 DEF Next

(* What the queues of the cache and of PageTableWalker hold, and who serves it. *)
THEOREM TranslationInvHolds == Spec => []TranslationInv
<1>1. Init => TranslationInv
  BY InitTranslation
<1>2. TranslationInv /\ [Next]_vars => TranslationInv'
  BY TranslationSteps
<1> QED BY <1>1, <1>2, PTL DEF Spec

(* Every entry of the cache that asked for its translation and has none is on   *)
(* the mind of the channel, of the walker or of the answers, and every walk of  *)
(* PageTableWalker waits for a block that is asked for or returned: no answer   *)
(* consumes what somebody else still waits for.                                 *)
THEOREM NoTranslationLost == Spec => []NoLostTranslation
<1>1. TranslationInv => NoLostTranslation
  BY ServedIsNotLost
<1> QED BY <1>1, TranslationInvHolds, PTL

(* Until the memory has been handed out once, no physical page is used twice:  *)
(* by two virtual pages, by two page tables of one slot, or by a page and a    *)
(* table, whatever walks run at the same time over VirtualMemory::va_to_pa and *)
(* get_pte_pa.                                                                 *)
THEOREM PagesAreNotShared == Spec => []NoSharing
<1>1. TranslationInv => NoSharing
  BY VmemInvSharesNothing DEF TranslationInv
<1> QED BY <1>1, TranslationInvHolds, PTL
===============================================================================
