------------------------------- MODULE LruTable -------------------------------
(***************************************************************************)
(* champsim::msl::lru_table (src/inc/msl/lru_table.h): the set-associative *)
(* table behind the BTB, the page structure caches and two prefetchers.    *)
(* An element has an `index', a `tag' and whatever the user keeps in it; a *)
(* way with last_used = 0 is not valid.                                    *)
(*                                                                         *)
(* The operators are used by the modules of those users; the action and    *)
(* the property at the end check them alone.                               *)
(***************************************************************************)
EXTENDS Positions

NewTable(sets, ways) ==
  [access_count |-> 0,
   block |-> [s \in 0 .. sets - 1 |->
                [w \in 1 .. ways |-> [last_used |-> 0, data |-> [index |-> 0, tag |-> 0]]]]]

SetOf(table, elem) == elem.index % Cardinality(DOMAIN table.block)
WaysOf(table, elem) == table.block[SetOf(table, elem)]
Matching(ways, elem) == {w \in DOMAIN ways : ways[w].last_used > 0 /\ ways[w].data.tag = elem.tag}
LeastUsed(ways) == CHOOSE w \in DOMAIN ways : \A v \in DOMAIN ways : ways[w].last_used <= ways[v].last_used

Hits(table, elem) == Matching(WaysOf(table, elem), elem) # {}
WayOf(table, elem) == CHOOSE w \in Matching(WaysOf(table, elem), elem) : TRUE
DataOf(table, elem) == WaysOf(table, elem)[WayOf(table, elem)].data

(* A way that is used now: it gets the next access count. *)
Used(table, elem, way, data) ==
  [access_count |-> table.access_count + 1,
   block |-> [table.block EXCEPT ![SetOf(table, elem)][way] =
                [last_used |-> table.access_count + 1, data |-> data]]]

CheckHit_Silent(table, elem) == table    \* mutant

CheckHit(table, elem) ==
  IF Hits(table, elem) THEN Used(table, elem, WayOf(table, elem), DataOf(table, elem)) ELSE table

(* minmax_element: the match is the greatest way, the victim the least. *)
Fill(table, elem) ==
  Used(table, elem,
       IF Hits(table, elem) THEN WayOf(table, elem) ELSE LeastUsed(WaysOf(table, elem)), elem)

Invalidate(table, elem) ==
  IF ~Hits(table, elem) THEN table
  ELSE [access_count |-> table.access_count,
        block |-> [table.block EXCEPT ![SetOf(table, elem)][WayOf(table, elem)] =
                     [last_used |-> 0, data |-> [index |-> 0, tag |-> 0]]]]

-------------------------------------------------------------------------------
CONSTANTS
  LruSets, LruWays, LruTags,
  LruValues,       \* what is kept beside the tag
  MaxLruAccesses   \* bound

ASSUME LruAssumption == {LruSets, LruWays} \subseteq Nat \ {0} /\ LruTags \subseteq Nat

VARIABLES
  lru_table,
  recency    \* [set -> elements, the most recently used first]
lruVars == <<lru_table, recency>>

Elements == {[index |-> t, tag |-> t, value |-> v] : t \in LruTags, v \in LruValues}

LruInit ==
  /\ lru_table = NewTable(LruSets, LruWays)
  /\ recency = [s \in 0 .. LruSets - 1 |-> <<>>]

Listing(elem) == recency[SetOf(lru_table, elem)]
Same(elem) == {i \in DOMAIN Listing(elem) : Listing(elem)[i].tag = elem.tag}
Others(elem) == At(Listing(elem), DOMAIN Listing(elem) \ Same(elem))
Listed(elem, list) ==
  recency' = [recency EXCEPT ![SetOf(lru_table, elem)] = SubSeq(list, 1, Lesser(Len(list), LruWays))]

LruNext ==
  \E elem \in Elements :
    /\ lru_table.access_count < MaxLruAccesses
    /\ \/ lru_table' = CheckHit(lru_table, elem) /\ Listed(elem, At(Listing(elem), Same(elem)) \o Others(elem))
       \/ lru_table' = Fill(lru_table, elem) /\ Listed(elem, <<elem>> \o Others(elem))
       \/ lru_table' = Invalidate(lru_table, elem) /\ Listed(elem, Others(elem))

LruSpec == LruInit /\ [][LruNext]_lruVars

(* Every set holds the elements of a list that is kept in order of use: a hit *)
(* and a fill move an element to the front, a fill drops the last one when    *)
(* the set is full, and no tag is held twice (check_hit, fill, invalidate).   *)
TableKeepsRecency ==
  \A s \in DOMAIN recency :
    LET ways == lru_table.block[s]
        valid == {w \in DOMAIN ways : ways[w].last_used > 0}
        rank(w) == Cardinality({v \in valid : ways[v].last_used >= ways[w].last_used})
    IN  /\ Cardinality(valid) = Len(recency[s])
        /\ \A w \in valid : recency[s][rank(w)] = ways[w].data
===============================================================================
