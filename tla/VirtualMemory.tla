----------------------------- MODULE VirtualMemory -----------------------------
(***************************************************************************)
(* VirtualMemory (src/src/vmem.cc): physical pages are handed out from a   *)
(* free list, to data pages on their first translation and, when the page  *)
(* that holds page tables is full, to the next page tables.  Mappings are  *)
(* never taken back; an empty free list is filled with every page again.   *)
(*                                                                         *)
(* One address space: `cpu' is part of every key and never changes here.   *)
(***************************************************************************)
EXTENDS Integers, Sequences, FiniteSets

CONSTANTS
  Levels,          \* levels of the walk below the root, one PSCL for each
  VPage,           \* virtual pages in use: their indices, the root's left out
  AllPages,        \* the physical pages above the first mebibyte, as shuffled
  TablesPerPage,   \* PAGE_SIZE / pte_page_size
  Penalty          \* minor_fault_penalty in cycles

ASSUME VmemAssumption ==
  /\ Levels \in Nat \ {0} /\ TablesPerPage \in Nat \ {0} /\ Penalty \in Nat
  /\ \A v \in VPage : Len(v) = Levels
  /\ AllPages \in Seq(Nat \ {0}) /\ AllPages # <<>>
  /\ \A i, j \in DOMAIN AllPages : AllPages[i] = AllPages[j] => i = j

VARIABLES
  vpage_to_ppage_map,   \* from the pages touched so far
  page_table,           \* from <<level, upper indices>> to <<page, slot>>
  ppage_free_list,
  active_pte_page,      \* page 0, which is not in the free list, at first
  next_pte_page,        \* slots of that page in use
  refilled              \* the list ran out at least once (no variable of the code)

vmem == <<vpage_to_ppage_map, page_table, ppage_free_list, active_pte_page,
          next_pte_page, refilled>>

(* The bits of a virtual page above the entry of that level. *)
Prefix(vpage, level) == SubSeq(vpage, 1, Levels - level)
Key(vpage, level) == <<level, Prefix(vpage, level)>>
RootKey == <<Levels + 1, <<>>>>

With(f, x, y) == [z \in DOMAIN f \cup {x} |-> IF z = x THEN y ELSE f[z]]

(* ppage_front and ppage_pop; populate_pages and shuffle_pages have one result, *)
(* the seed is used anew for each.                                              *)
Pop(free) == IF Len(free) = 1 THEN AllPages ELSE Tail(free)
TakePage ==
  /\ ppage_free_list' = Pop(ppage_free_list)
  /\ refilled' = (refilled \/ Len(ppage_free_list) = 1)

(* The constructor of the walker asks for the root, CR3. *)
VmemInit ==
  /\ vpage_to_ppage_map = <<>>
  /\ page_table = [k \in {RootKey} |-> <<0, 0>>]
  /\ IF TablesPerPage = 1
     THEN /\ active_pte_page = AllPages[1] /\ next_pte_page = 0
          /\ ppage_free_list = Pop(AllPages)
          /\ refilled = (Len(AllPages) = 1)
     ELSE /\ active_pte_page = 0 /\ next_pte_page = 1
          /\ ppage_free_list = AllPages
          /\ refilled = FALSE

(* va_to_pa *)
Touched(vpage) == vpage \in DOMAIN vpage_to_ppage_map
va_to_pa(vpage) ==
  IF Touched(vpage) THEN UNCHANGED vmem
  ELSE /\ vpage_to_ppage_map' = With(vpage_to_ppage_map, vpage, Head(ppage_free_list))
       /\ TakePage
       /\ UNCHANGED <<page_table, active_pte_page, next_pte_page>>

(* get_pte_pa: next_pte_page wraps to 0 when the page is full. *)
NextSlot_Late == IF next_pte_page = TablesPerPage THEN 0 ELSE next_pte_page + 1    \* mutant
NextSlot == IF next_pte_page + 1 = TablesPerPage THEN 0 ELSE next_pte_page + 1
Walked(key) == key \in DOMAIN page_table
get_pte_pa(key) ==
  IF Walked(key) THEN UNCHANGED vmem
  ELSE /\ page_table' = With(page_table, key, <<active_pte_page, next_pte_page>>)
       /\ next_pte_page' = NextSlot
       /\ IF NextSlot = 0
          THEN active_pte_page' = Head(ppage_free_list) /\ TakePage
          ELSE UNCHANGED <<active_pte_page, ppage_free_list, refilled>>
       /\ UNCHANGED vpage_to_ppage_map

(* Until the free list runs out, no physical page serves two purposes: two *)
(* virtual pages, two page tables of one slot, or a page and a table.  The *)
(* warning of ppage_pop marks the end of that.                             *)
NoSharing ==
  ~refilled =>
    LET data == {vpage_to_ppage_map[v] : v \in DOMAIN vpage_to_ppage_map}
        tables == {page_table[k][1] : k \in DOMAIN page_table} \cup {active_pte_page}
        free == {ppage_free_list[i] : i \in DOMAIN ppage_free_list}
    IN  /\ \A v, w \in DOMAIN vpage_to_ppage_map :
             vpage_to_ppage_map[v] = vpage_to_ppage_map[w] => v = w
        /\ \A j, k \in DOMAIN page_table : page_table[j] = page_table[k] => j = k
        /\ \A k \in DOMAIN page_table : page_table[k][2] < TablesPerPage
        /\ data \cap tables = {} /\ (data \cup tables) \cap free = {}
===============================================================================
