------------------------- MODULE LoadStoreQueueProofs -------------------------
(***************************************************************************)
(* Proofs about the load and store queues, for every program, every size   *)
(* of the queues and every order in which the L1D answers.                 *)
(*                                                                         *)
(* The four invariants of LoadStoreQueue are proved together, because each *)
(* needs the others: a store that leaves has finished because its          *)
(* instruction retired with all its accesses done (MemOpsConserved), the   *)
(* loads that waited for it are gone because it released them              *)
(* (DependentsWait), so the youngest older store of any load still in the  *)
(* queue stays where it is (LoadWaitsForYoungestStore).  What the          *)
(* induction adds: ids are consecutive in the ROB, a completed entry has   *)
(* all its accesses done, and lq_depend_on_me and producer_id are the two  *)
(* directions of one relation, each load waiting for one store only.       *)
(***************************************************************************)
EXTENDS LoadStoreQueue, TLAPS, FiniteSetTheorems, FunctionTheorems, SequenceTheorems,
        WellFoundedInduction

Address == Block \X Nat
Load == [id : Nat \ {0}, addr : Address, wait : Int, fetch_issued : BOOLEAN,
         producer_id : Nat]
Store == [id : Nat \ {0}, addr : Address, wait : Int, fetch_issued : BOOLEAN,
          lq_depend_on_me : SUBSET Slot]
RobEntry == [id : Nat \ {0}, executed : BOOLEAN, completed : BOOLEAN, wait : Int,
             completed_mem_ops : Nat]

TypeInv ==
  /\ program \in Programs
  /\ next \in Nat \ {0}
  /\ ROB \in Seq(RobEntry)
  /\ LQ \in [Slot -> Load \cup {Empty}]
  /\ SQ \in Seq(Store)

Unissued == {q \in DOMAIN SQ : ~SQ[q].fetch_issued}

(* Instructions enter the ROB in order and leave it at the head. *)
IdsConsecutive ==
  /\ next - 1 - Len(ROB) \in Nat
  /\ \A i \in DOMAIN ROB : ROB[i].id = next - 1 - Len(ROB) + i

(* Nothing in the queues belongs to an instruction not yet dispatched. *)
IdsOlder ==
  /\ \A s \in Occupied : LQ[s].id < next
  /\ \A q \in DOMAIN SQ : SQ[q].id < next

(* What complete_inflight_instruction tested stays true until retirement. *)
CompletedWhole ==
  \A i \in DOMAIN ROB :
    ROB[i].completed => ROB[i].completed_mem_ops = num_mem_ops(ROB[i].id)

(* The loads that wait for a store are the ones that the store knows. *)
DependentsKnown ==
  /\ \A q \in Unissued : \A s \in SQ[q].lq_depend_on_me :
       s \in Occupied /\ q \in OlderStores(s)
  /\ \A q, r \in Unissued : q # r => SQ[q].lq_depend_on_me \cap SQ[r].lq_depend_on_me = {}
  /\ \A s \in Occupied :
       LQ[s].producer_id # None => \E q \in Unissued : s \in SQ[q].lq_depend_on_me

LSQInv ==
  /\ TypeInv
  /\ IdsConsecutive /\ IdsOlder /\ CompletedWhole
  /\ DependentsKnown /\ DependentsWait
  /\ LoadWaitsForYoungestStore
  /\ StoresFinishBeforeWritten
  /\ MemOpsConserved

(* What the instruction id has in the two queues. *)
LoadsOf(id) == {s \in Occupied : LQ[s].id = id}
StoresOf(id) == {q \in Unissued : SQ[q].id = id}

--------------------------------------------------------------------------------
(* Lemmas about numbers, the queues and their sizes *)

LEMMA LeastExists == ASSUME NEW S \in SUBSET Nat, S # {} PROVE \E m \in S : \A n \in S : m <= n
<1>1. PICK R : R = OpToRel(<, Nat)
  BY Zenon
<1>2. IsWellFoundedOn(R, Nat)
  BY <1>1, NatLessThanWellFounded, Zenon
<1>3. PICK m \in S : \A n \in S : ~(<<n, m>> \in R)
  BY <1>2, WFMin
<1>4. \A n \in S : ~(n < m)
  BY <1>1, <1>3, Zenon DEF OpToRel
<1> QED BY <1>4

LEMMA GreatestExists ==
  ASSUME NEW n \in Nat, NEW S \in SUBSET (0 .. n), S # {}
  PROVE  \E m \in S : \A i \in S : i <= m
<1> DEFINE T == {x \in 0 .. n : n - x \in S}
<1>1. ASSUME NEW i \in S PROVE n - i \in T /\ i \in 0 .. n
  <2>1. i \in 0 .. n
    OBVIOUS
  <2>2. n - i \in 0 .. n /\ n - (n - i) = i
    BY <2>1
  <2> QED BY <2>1, <2>2
<1>2. T # {} /\ T \in SUBSET Nat
  <2>1. PICK i \in S : TRUE
    OBVIOUS
  <2>2. T # {}
    BY <1>1, <2>1
  <2>3. 0 .. n \subseteq Nat
    OBVIOUS
  <2> QED BY <2>2, <2>3
<1>3. PICK t \in T : \A u \in T : t <= u
  BY <1>2, LeastExists
<1>4. n - t \in S /\ t \in 0 .. n
  OBVIOUS
<1>5. ASSUME NEW i \in S PROVE i <= n - t
  BY <1>1, <1>3, <1>4
<1> QED BY <1>4, <1>5

LEMMA QueueFacts ==
  ASSUME TypeInv
  PROVE  /\ Len(ROB) \in Nat /\ DOMAIN ROB = 1 .. Len(ROB)
         /\ Len(SQ) \in Nat /\ DOMAIN SQ = 1 .. Len(SQ)
         /\ \A i \in DOMAIN ROB : ROB[i] \in RobEntry
         /\ \A q \in DOMAIN SQ : SQ[q] \in Store
         /\ \A s \in Slot : s \in Occupied <=> LQ[s] \in Load
         /\ \A s \in Slot : s \notin Occupied <=> LQ[s] = Empty
         /\ \A s \in Occupied : s \in Slot /\ LQ[s].id \in Nat \ {0} /\ LQ[s].producer_id \in Nat
                             /\ LQ[s].addr \in Address /\ LQ[s].fetch_issued \in BOOLEAN
         /\ IsFiniteSet(Occupied) /\ IsFiniteSet(Unissued) /\ IsFiniteSet(Slot)
<1>1. ASSUME NEW s \in Slot PROVE /\ s \in Occupied <=> LQ[s] \in Load
                                  /\ s \notin Occupied <=> LQ[s] = Empty
  <2>1. LQ[s] \in Load \cup {Empty}
    BY DEF TypeInv
  <2>2. Empty \notin Load
    <3>1. \A x \in Load : x.id # 0
      BY DEF Load
    <3>2. Empty.id = 0
      BY DEF Empty, None
    <3> QED BY <3>1, <3>2
  <2> QED BY <2>1, <2>2 DEF Occupied
<1>2. Occupied \in SUBSET Slot
  BY DEF Occupied
<1>3. IsFiniteSet(Slot)
  BY FS_Interval, LSQAssumption DEF Slot
<1>4. IsFiniteSet(Occupied)
  BY <1>2, <1>3, FS_Subset
<1>5. Len(SQ) \in Nat /\ DOMAIN SQ = 1 .. Len(SQ) /\ Unissued \in SUBSET (1 .. Len(SQ))
  BY DEF TypeInv, Unissued
<1>6. IsFiniteSet(Unissued)
  <2>1. IsFiniteSet(1 .. Len(SQ))
    BY <1>5, FS_Interval
  <2> QED BY <1>5, <2>1, FS_Subset
<1>7. /\ Len(ROB) \in Nat /\ DOMAIN ROB = 1 .. Len(ROB)
      /\ \A i \in DOMAIN ROB : ROB[i] \in RobEntry
      /\ \A q \in DOMAIN SQ : SQ[q] \in Store
  BY DEF TypeInv
<1>8. \A s \in Occupied : s \in Slot /\ LQ[s].id \in Nat \ {0} /\ LQ[s].producer_id \in Nat
                             /\ LQ[s].addr \in Address /\ LQ[s].fetch_issued \in BOOLEAN
  BY <1>1, <1>2 DEF Load
<1> QED BY <1>1, <1>3, <1>4, <1>5, <1>6, <1>7, <1>8

LEMMA Counts ==
  ASSUME TypeInv, NEW id
  PROVE  /\ IsFiniteSet(LoadsOf(id)) /\ Cardinality(LoadsOf(id)) \in Nat
         /\ IsFiniteSet(StoresOf(id)) /\ Cardinality(StoresOf(id)) \in Nat
<1>1. LoadsOf(id) \in SUBSET Occupied /\ StoresOf(id) \in SUBSET Unissued
  BY DEF LoadsOf, StoresOf
<1> QED BY <1>1, QueueFacts, FS_Subset, FS_CardinalityType

LEMMA Conservation ==
  MemOpsConserved <=>
    \A i \in DOMAIN ROB :
      ROB[i].completed_mem_ops + Cardinality(LoadsOf(ROB[i].id)) + Cardinality(StoresOf(ROB[i].id))
        = num_mem_ops(ROB[i].id)
BY DEF MemOpsConserved, CountOf, LoadsOf, StoresOf, Unissued

(* A subset taken out of a set. *)
LEMMA TakenOut ==
  ASSUME NEW S, IsFiniteSet(S), NEW T \in SUBSET S
  PROVE  /\ IsFiniteSet(T) /\ Cardinality(T) \in Nat
         /\ Cardinality(S \ T) \in Nat /\ Cardinality(S) \in Nat
         /\ Cardinality(S \ T) + Cardinality(T) = Cardinality(S)
<1>1. IsFiniteSet(T) /\ IsFiniteSet(S \ T)
  BY FS_Subset, FS_Difference
<1>2. Cardinality(T) \in Nat /\ Cardinality(S) \in Nat /\ Cardinality(S \ T) \in Nat
  BY <1>1, FS_CardinalityType
<1>3. S \cap T = T
  OBVIOUS
<1>4. Cardinality(S \ T) = Cardinality(S) - Cardinality(T)
  BY <1>3, FS_Difference
<1> QED BY <1>1, <1>2, <1>4
(* Greatest picks the only element that no other exceeds. *)
LEMMA GreatestIs ==
  ASSUME NEW S \in SUBSET Nat, NEW m \in S, \A i \in S : i <= m
  PROVE  Greatest(S) = m
<1>1. \A x \in S : (\A y \in S : x >= y) => x = m
  OBVIOUS
<1>2. Greatest(S) \in S /\ \A y \in S : Greatest(S) >= y
  BY DEF Greatest
<1> QED BY <1>1, <1>2

LEMMA GreatestOlder ==
  ASSUME TypeInv, NEW s \in Occupied, OlderStores(s) # {}
  PROVE  \E q \in OlderStores(s) :
           /\ SQ[q].id # None
           /\ Greatest({SQ[r].id : r \in OlderStores(s)}) = SQ[q].id
           /\ \A r \in OlderStores(s) : SQ[r].id <= SQ[q].id
<1> DEFINE Ids == {SQ[r].id : r \in OlderStores(s)}
<1>1. ASSUME NEW r \in OlderStores(s)
      PROVE  SQ[r].id \in Nat \ {0} /\ SQ[r].id < LQ[s].id
  BY QueueFacts DEF OlderStores, Store
<1>2. LQ[s].id \in Nat
  BY QueueFacts
<1>3. Ids \in SUBSET (0 .. LQ[s].id) /\ Ids \in SUBSET Nat /\ Ids # {}
  BY <1>1, <1>2
<1>4. PICK m \in Ids : \A i \in Ids : i <= m
  BY <1>2, <1>3, GreatestExists
<1>5. Greatest(Ids) = m
  BY <1>3, <1>4, GreatestIs
<1>6. PICK q \in OlderStores(s) : m = SQ[q].id
  BY <1>4
<1> QED BY <1>1, <1>4, <1>5, <1>6 DEF None

--------------------------------------------------------------------------------
(* Steps that touch the times only. *)
Quiet ==
  /\ DOMAIN ROB' = DOMAIN ROB /\ DOMAIN SQ' = DOMAIN SQ
  /\ \A i \in DOMAIN ROB : ROB'[i].id = ROB[i].id
  /\ Occupied' = Occupied
  /\ \A s \in Occupied : /\ LQ'[s].id = LQ[s].id /\ LQ'[s].addr = LQ[s].addr
                         /\ LQ'[s].producer_id = LQ[s].producer_id
  /\ \A q \in DOMAIN SQ : /\ SQ'[q].id = SQ[q].id /\ SQ'[q].addr = SQ[q].addr
                          /\ SQ'[q].fetch_issued = SQ[q].fetch_issued
                          /\ SQ'[q].lq_depend_on_me = SQ[q].lq_depend_on_me
  /\ UNCHANGED <<program, next>>

LEMMA QuietQueues ==
  ASSUME LSQInv, TypeInv', Quiet
  PROVE  /\ IdsConsecutive' /\ IdsOlder' /\ DependentsKnown' /\ DependentsWait'
         /\ StoresFinishBeforeWritten'
         /\ \A s \in Occupied : OlderStores(s)' = OlderStores(s)
         /\ \A id : LoadsOf(id)' = LoadsOf(id) /\ StoresOf(id)' = StoresOf(id)
<1>1. Len(ROB') = Len(ROB) /\ Len(ROB) \in Nat /\ DOMAIN ROB = 1 .. Len(ROB)
  BY QueueFacts DEF LSQInv, Quiet, TypeInv
<1>2. Unissued' = Unissued /\ Unissued \subseteq DOMAIN SQ
  BY DEF Unissued, Quiet
<1>3. IdsConsecutive'
  BY <1>1 DEF IdsConsecutive, LSQInv, Quiet
<1>4. IdsOlder'
  BY DEF IdsOlder, LSQInv, Quiet
<1>5. ASSUME NEW s \in Occupied PROVE OlderStores(s)' = OlderStores(s)
  BY <1>5 DEF OlderStores, Quiet
<1>6. DependentsKnown'
  <2>1. \A q \in Unissued : SQ'[q].lq_depend_on_me = SQ[q].lq_depend_on_me
    BY <1>2 DEF Quiet
  <2> QED BY <1>2, <1>5, <2>1 DEF DependentsKnown, LSQInv, Quiet
<1>7. DependentsWait'
  <2> SUFFICES ASSUME NEW q \in Unissued, NEW s \in SQ[q].lq_depend_on_me
               PROVE  LQ'[s] # Empty /\ LQ'[s].producer_id = SQ'[q].id
    BY <1>2 DEF DependentsWait, Quiet, Unissued
  <2>1. s \in Occupied /\ LQ[s].producer_id = SQ[q].id
    BY DEF DependentsWait, DependentsKnown, LSQInv, Unissued
  <2>2. s \in Occupied'
    BY <2>1 DEF Quiet
  <2> QED BY <1>2, <2>1, <2>2 DEF Quiet, Occupied
<1>8. StoresFinishBeforeWritten'
  <2>1. ROB' = <<>> <=> ROB = <<>>
    BY <1>1 DEF TypeInv, LSQInv
  <2>2. ROB # <<>> => 1 \in DOMAIN ROB
    BY <1>1 DEF TypeInv, LSQInv
  <2>3. SUFFICES ASSUME NEW q \in DOMAIN SQ, ROB' = <<>> \/ SQ'[q].id < ROB'[1].id
                 PROVE  SQ'[q].fetch_issued
    BY DEF StoresFinishBeforeWritten, Quiet
  <2>4. ROB = <<>> \/ SQ[q].id < ROB[1].id
    BY <2>1, <2>2, <2>3 DEF Quiet
  <2> QED BY <2>4 DEF StoresFinishBeforeWritten, LSQInv, Quiet
<1>9. ASSUME NEW id PROVE LoadsOf(id)' = LoadsOf(id) /\ StoresOf(id)' = StoresOf(id)
  BY <1>2 DEF LoadsOf, StoresOf, Quiet
<1> QED BY <1>3, <1>4, <1>5, <1>6, <1>7, <1>8, <1>9

LEMMA QuietLoads ==
  ASSUME LSQInv, TypeInv', Quiet,
         \A s \in Occupied : LQ'[s].fetch_issued => LQ[s].fetch_issued \/ LQ[s].producer_id = None
  PROVE  LoadWaitsForYoungestStore'
<1>1. \A s \in Occupied : OlderStores(s)' = OlderStores(s)
  BY QuietQueues
<1>2. SUFFICES ASSUME NEW s \in Occupied
               PROVE /\ LQ'[s].producer_id = LQ[s].producer_id
                     /\ LQ'[s].fetch_issued => OlderStores(s) = {}
                     /\ \A q \in OlderStores(s) : SQ'[q].id = SQ[q].id
  <2>1. Occupied' = Occupied
    BY DEF Quiet
  <2>2. ASSUME NEW s \in Occupied
        PROVE  {SQ'[q].id : q \in OlderStores(s)} = {SQ[q].id : q \in OlderStores(s)}
    BY <1>2
  <2> QED BY <1>1, <1>2, <2>1, <2>2 DEF LoadWaitsForYoungestStore, LSQInv
<1>3. LQ[s].producer_id = None => OlderStores(s) = {}
  <2> SUFFICES ASSUME OlderStores(s) # {} PROVE LQ[s].producer_id # None
    OBVIOUS
  <2> QED BY GreatestOlder DEF LoadWaitsForYoungestStore, LSQInv
<1> QED BY <1>1, <1>3 DEF Quiet, LoadWaitsForYoungestStore, LSQInv, OlderStores
--------------------------------------------------------------------------------
(* Steps that finish the loads Ls and the stores Ss. *)
LoadsIn(Ls, id) == {s \in Ls : LQ[s].id = id}
StoresIn(Ss, id) == {q \in Ss : SQ[q].id = id}

Finish(Ls, Ss) ==
  /\ ROB' = Finished(Ls, Ss)
  /\ LQ' = Reset(Ls)
  /\ DOMAIN SQ' = DOMAIN SQ
  /\ \A q \in DOMAIN SQ : /\ SQ'[q].id = SQ[q].id /\ SQ'[q].addr = SQ[q].addr
                          /\ SQ'[q].fetch_issued <=> SQ[q].fetch_issued \/ q \in Ss
                          /\ SQ'[q].lq_depend_on_me = SQ[q].lq_depend_on_me
  /\ UNCHANGED <<program, next>>

LEMMA FinishCounts ==
  ASSUME TypeInv, NEW Ls \in SUBSET Occupied, NEW Ss \in SUBSET Unissued, NEW id
  PROVE  /\ Cardinality(LoadsIn(Ls, id)) \in Nat
         /\ Cardinality(StoresIn(Ss, id)) \in Nat
         /\ Cardinality(LoadsOf(id) \ LoadsIn(Ls, id)) \in Nat
         /\ Cardinality(StoresOf(id) \ StoresIn(Ss, id)) \in Nat
         /\ Cardinality(LoadsOf(id) \ LoadsIn(Ls, id)) + Cardinality(LoadsIn(Ls, id))
              = Cardinality(LoadsOf(id))
         /\ Cardinality(StoresOf(id) \ StoresIn(Ss, id)) + Cardinality(StoresIn(Ss, id))
              = Cardinality(StoresOf(id))
<1>1. LoadsIn(Ls, id) \in SUBSET LoadsOf(id) /\ StoresIn(Ss, id) \in SUBSET StoresOf(id)
  BY DEF LoadsIn, LoadsOf, StoresIn, StoresOf
<1> QED BY <1>1, Counts, TakenOut

LEMMA FinishedEntries ==
  ASSUME TypeInv, NEW Ls \in SUBSET Occupied, NEW Ss \in SUBSET Unissued,
         ROB' = Finished(Ls, Ss)
  PROVE  /\ ROB' \in Seq(RobEntry) /\ Len(ROB') = Len(ROB) /\ DOMAIN ROB' = DOMAIN ROB
         /\ \A i \in DOMAIN ROB :
              /\ ROB'[i].id = ROB[i].id /\ ROB'[i].completed = ROB[i].completed
              /\ ROB'[i].completed_mem_ops =
                   ROB[i].completed_mem_ops + Cardinality(LoadsIn(Ls, ROB[i].id))
                     + Cardinality(StoresIn(Ss, ROB[i].id))
<1>1. ROB' = [i \in DOMAIN ROB |->
                [ROB[i] EXCEPT !.completed_mem_ops =
                   @ + Cardinality(LoadsIn(Ls, ROB[i].id)) + Cardinality(StoresIn(Ss, ROB[i].id))]]
  BY DEF Finished, CountOf, LoadsIn, StoresIn
<1>2. Len(ROB) \in Nat /\ DOMAIN ROB = 1 .. Len(ROB) /\ \A i \in DOMAIN ROB : ROB[i] \in RobEntry
  BY QueueFacts
<1>3. ASSUME NEW i \in DOMAIN ROB
      PROVE  /\ ROB'[i] \in RobEntry
             /\ ROB'[i].id = ROB[i].id /\ ROB'[i].completed = ROB[i].completed
             /\ ROB'[i].completed_mem_ops =
                  ROB[i].completed_mem_ops + Cardinality(LoadsIn(Ls, ROB[i].id))
                    + Cardinality(StoresIn(Ss, ROB[i].id))
  <2> DEFINE l == Cardinality(LoadsIn(Ls, ROB[i].id))
             t == Cardinality(StoresIn(Ss, ROB[i].id))
  <2>1. l \in Nat /\ t \in Nat
    BY FinishCounts
  <2>2. ROB'[i] = [ROB[i] EXCEPT !.completed_mem_ops = @ + l + t]
    BY <1>1
  <2> HIDE DEF l, t
  <2>3. ROB[i] \in RobEntry
    BY <1>2
  <2>4. ROB[i].completed_mem_ops + l + t \in Nat
    BY <2>1, <2>3 DEF RobEntry
  <2>5. /\ ROB'[i] \in RobEntry
        /\ ROB'[i].id = ROB[i].id /\ ROB'[i].completed = ROB[i].completed
        /\ ROB'[i].completed_mem_ops = ROB[i].completed_mem_ops + l + t
    BY <2>2, <2>3, <2>4 DEF RobEntry
  <2> QED BY <2>5 DEF l, t
<1>4. DOMAIN ROB' = DOMAIN ROB /\ ROB' \in [1 .. Len(ROB) -> RobEntry]
  BY <1>1, <1>2, <1>3
<1>5. ROB' \in Seq(RobEntry) /\ Len(ROB') = Len(ROB)
  BY <1>2, <1>4
<1> QED BY <1>3, <1>4, <1>5

LEMMA FinishKeepsInv ==
  ASSUME LSQInv, NEW Ls \in SUBSET Occupied, NEW Ss \in SUBSET Unissued,
         Finish(Ls, Ss), SQ' \in Seq(Store),
         \A q \in Ss : SQ[q].lq_depend_on_me \subseteq Ls,
         \A q \in Unissued \ Ss : SQ[q].lq_depend_on_me \cap Ls = {}
  PROVE  LSQInv'
<1>0. TypeInv
  BY DEF LSQInv
<1>1. /\ ROB' \in Seq(RobEntry) /\ Len(ROB') = Len(ROB) /\ DOMAIN ROB' = DOMAIN ROB
      /\ \A i \in DOMAIN ROB :
           /\ ROB'[i].id = ROB[i].id /\ ROB'[i].completed = ROB[i].completed
           /\ ROB'[i].completed_mem_ops =
                ROB[i].completed_mem_ops + Cardinality(LoadsIn(Ls, ROB[i].id))
                  + Cardinality(StoresIn(Ss, ROB[i].id))
  BY <1>0, FinishedEntries DEF Finish
<1>2. /\ Len(ROB) \in Nat /\ DOMAIN ROB = 1 .. Len(ROB)
      /\ \A i \in DOMAIN ROB : ROB[i] \in RobEntry
  BY <1>0, QueueFacts
<1>3. /\ Occupied' = Occupied \ Ls
      /\ \A s \in Occupied' : LQ'[s] = LQ[s]
      /\ \A s \in Slot : LQ'[s] = IF s \in Ls THEN Empty ELSE LQ[s]
      /\ LQ' = [s \in Slot |-> IF s \in Ls THEN Empty ELSE LQ[s]]
  BY DEF Finish, Reset, Occupied
<1>4. Unissued' = Unissued \ Ss /\ Unissued \subseteq DOMAIN SQ
  BY DEF Finish, Unissued
<1>5. TypeInv'
  <2>1. LQ' \in [Slot -> Load \cup {Empty}]
    BY <1>0, <1>3 DEF TypeInv
  <2> QED BY <1>0, <1>1, <2>1 DEF TypeInv, Finish
<1>6. IdsConsecutive'
  BY <1>1 DEF IdsConsecutive, LSQInv, Finish
<1>7. IdsOlder'
  BY <1>3 DEF IdsOlder, LSQInv, Finish
<1>8. ASSUME NEW s \in Occupied' PROVE OlderStores(s)' = OlderStores(s)
  BY <1>3 DEF OlderStores, Finish
<1>9. ASSUME NEW q \in Unissued', NEW s \in SQ'[q].lq_depend_on_me
      PROVE  s \in Occupied' /\ q \in OlderStores(s)' /\ LQ'[s].producer_id = SQ'[q].id
  <2>1. q \in Unissued /\ q \notin Ss /\ s \in SQ[q].lq_depend_on_me
    BY <1>4 DEF Finish
  <2>2. s \in Occupied /\ q \in OlderStores(s) /\ LQ[s].producer_id = SQ[q].id
    BY <2>1 DEF LSQInv, DependentsKnown, DependentsWait, Unissued
  <2>3. s \notin Ls
    BY <2>1
  <2>4. s \in Occupied'
    BY <1>3, <2>2, <2>3
  <2> QED BY <1>3, <1>4, <1>8, <2>1, <2>2, <2>4 DEF Finish
<1>10. DependentsWait'
  BY <1>9 DEF DependentsWait, Unissued, Occupied
<1>11. DependentsKnown'
  <2>1. ASSUME NEW q \in Unissued', NEW r \in Unissued', q # r
        PROVE  (SQ[q].lq_depend_on_me)' \cap (SQ[r].lq_depend_on_me)' = {}
    BY <1>4, <2>1 DEF LSQInv, DependentsKnown, Finish
  <2>2. ASSUME NEW s \in Occupied', (LQ[s].producer_id)' # None
        PROVE  \E q \in Unissued' : s \in (SQ[q].lq_depend_on_me)'
    <3>1. s \in Occupied /\ s \notin Ls /\ LQ[s].producer_id # None
      BY <1>3, <2>2
    <3>2. PICK q \in Unissued : s \in SQ[q].lq_depend_on_me
      BY <3>1 DEF LSQInv, DependentsKnown
    <3>3. q \notin Ss
      BY <3>1, <3>2
    <3> QED BY <1>4, <3>2, <3>3 DEF Finish
  <2> QED BY <1>9, <2>1, <2>2 DEF DependentsKnown
<1>12. LoadWaitsForYoungestStore'
  <2> SUFFICES ASSUME NEW s \in Occupied'
               PROVE  /\ (LQ[s].producer_id)' =
                           IF OlderStores(s)' = {} THEN None
                           ELSE Greatest({SQ'[q].id : q \in OlderStores(s)'})
                      /\ (LQ[s].fetch_issued)' => OlderStores(s)' = {}
    BY DEF LoadWaitsForYoungestStore
  <2>1. s \in Occupied /\ LQ'[s] = LQ[s] /\ OlderStores(s)' = OlderStores(s)
    BY <1>3, <1>8
  <2>2. {SQ'[q].id : q \in OlderStores(s)} = {SQ[q].id : q \in OlderStores(s)}
    BY DEF OlderStores, Finish
  <2> QED BY <2>1, <2>2 DEF LoadWaitsForYoungestStore, LSQInv
<1>13. StoresFinishBeforeWritten'
  <2>1. ROB' = <<>> <=> ROB = <<>>
    BY <1>0, <1>1, <1>2 DEF TypeInv
  <2>2. ROB # <<>> => 1 \in DOMAIN ROB
    BY <1>0, <1>2 DEF TypeInv
  <2>3. SUFFICES ASSUME NEW q \in DOMAIN SQ, ROB' = <<>> \/ SQ'[q].id < ROB'[1].id
                 PROVE  SQ'[q].fetch_issued
    BY DEF StoresFinishBeforeWritten, Finish
  <2>4. ROB = <<>> \/ SQ[q].id < ROB[1].id
    BY <1>1, <2>1, <2>2, <2>3 DEF Finish
  <2> QED BY <2>4 DEF StoresFinishBeforeWritten, LSQInv, Finish
<1>14. ASSUME NEW id
       PROVE  LoadsOf(id)' = LoadsOf(id) \ LoadsIn(Ls, id) /\ StoresOf(id)' = StoresOf(id) \ StoresIn(Ss, id)
  BY <1>3, <1>4 DEF LoadsOf, StoresOf, LoadsIn, StoresIn, Finish
<1>15. ASSUME NEW i \in DOMAIN ROB
       PROVE  /\ ROB'[i].completed_mem_ops + Cardinality(LoadsOf(ROB[i].id)')
                   + Cardinality(StoresOf(ROB[i].id)') = num_mem_ops(ROB[i].id)
              /\ ROB[i].completed => ROB'[i].completed_mem_ops = num_mem_ops(ROB[i].id)
  <2>1. PICK id : id = ROB[i].id
    OBVIOUS
  <2>2. PICK l, t : l = Cardinality(LoadsIn(Ls, id)) /\ t = Cardinality(StoresIn(Ss, id))
    OBVIOUS
  <2>3. PICK l1, t1 : /\ l1 = Cardinality(LoadsOf(id) \ LoadsIn(Ls, id))
                      /\ t1 = Cardinality(StoresOf(id) \ StoresIn(Ss, id))
    OBVIOUS
  <2>4. /\ l \in Nat /\ t \in Nat /\ l1 \in Nat /\ t1 \in Nat
        /\ l1 + l = Cardinality(LoadsOf(id)) /\ t1 + t = Cardinality(StoresOf(id))
    BY <1>0, <2>2, <2>3, FinishCounts
  <2>5. PICK c \in Nat : c = ROB[i].completed_mem_ops
    BY <1>2 DEF RobEntry
  <2>6. c + (l1 + l) + (t1 + t) = num_mem_ops(id)
    BY <2>1, <2>4, <2>5, Conservation DEF LSQInv
  <2>7. ROB'[i].completed_mem_ops = c + l + t
    BY <1>1, <2>1, <2>2, <2>5
  <2>8. Cardinality(LoadsOf(id)') = l1 /\ Cardinality(StoresOf(id)') = t1
    BY <1>14, <2>3
  <2>9. (c + l + t) + l1 + t1 = c + (l1 + l) + (t1 + t)
    BY <2>4
  <2>10. ASSUME ROB[i].completed PROVE c + l + t = num_mem_ops(id)
    <3>1. c = num_mem_ops(id)
      BY <2>1, <2>5, <2>10 DEF LSQInv, CompletedWhole
    <3>2. c + (l1 + l) + (t1 + t) = c
      BY <2>6, <3>1
    <3>3. l \in Nat /\ t \in Nat /\ l1 \in Nat /\ t1 \in Nat
      BY <2>4
    <3>4. l = 0 /\ t = 0
      BY <3>2, <3>3
    <3>5. c + l + t = c
      BY <3>4
    <3> QED BY <3>1, <3>5
  <2>11. LoadsOf(ROB[i].id)' = LoadsOf(id)' /\ StoresOf(ROB[i].id)' = StoresOf(id)'
    BY <1>1, <2>1 DEF LoadsOf, StoresOf
  <2> QED BY <2>1, <2>6, <2>7, <2>8, <2>9, <2>10, <2>11
<1>16. \A id : num_mem_ops(id)' = num_mem_ops(id)
  BY DEF num_mem_ops, Loads, Stores, Finish
<1>17. MemOpsConserved' /\ CompletedWhole'
  <2>1. CompletedWhole'
    BY <1>1, <1>15, <1>16 DEF CompletedWhole
  <2>2. MemOpsConserved'
    <3>1. (\A i \in DOMAIN ROB :
             ROB[i].completed_mem_ops + Cardinality(LoadsOf(ROB[i].id))
               + Cardinality(StoresOf(ROB[i].id)) = num_mem_ops(ROB[i].id))'
      BY <1>1, <1>15, <1>16
    <3> QED BY <3>1, Conservation, PTL
  <2> QED BY <2>1, <2>2
<1> QED BY <1>5, <1>6, <1>7, <1>10, <1>11, <1>12, <1>13, <1>17 DEF LSQInv
--------------------------------------------------------------------------------
(* One lemma per action. *)

LEMMA EntriesKeepTypes ==
  ASSUME TypeInv
  PROVE  /\ \A i \in DOMAIN ROB : ROB[i] \in RobEntry
         /\ \A s \in Slot : LQ[s] = Empty \/ LQ[s] \in Load
         /\ \A s \in Slot : s \in Occupied <=> LQ[s] \in Load
         /\ \A q \in DOMAIN SQ : SQ[q] \in Store
BY QueueFacts

LEMMA InitLSQ == Init => LSQInv
<1> SUFFICES ASSUME Init PROVE LSQInv
  OBVIOUS
<1>1. /\ Occupied = {} /\ DOMAIN ROB = {} /\ DOMAIN SQ = {} /\ Len(ROB) = 0
      /\ next = 1 /\ Unissued = {}
  BY DEF Init, Occupied, Unissued
<1>2. TypeInv
  BY DEF TypeInv, Init
<1>3. IdsConsecutive /\ IdsOlder /\ CompletedWhole
  BY <1>1 DEF IdsConsecutive, IdsOlder, CompletedWhole
<1>4. DependentsKnown /\ DependentsWait /\ LoadWaitsForYoungestStore
  BY <1>1 DEF DependentsKnown, DependentsWait, LoadWaitsForYoungestStore
<1>5. StoresFinishBeforeWritten /\ MemOpsConserved
  BY <1>1 DEF StoresFinishBeforeWritten, MemOpsConserved
<1> QED BY <1>2, <1>3, <1>4, <1>5 DEF LSQInv

LEMMA MemoryReturnLSQ == ASSUME LSQInv, MemoryReturn PROVE LSQInv'
<1> DEFINE n == Lesser(Len(returned), L1D_BANDWIDTH)
           S == Served({returned[i] : i \in 1 .. n})
<1>1. /\ ROB' = Finished(S, {}) /\ LQ' = Reset(S)
      /\ UNCHANGED <<program, next, SQ>>
  BY DEF MemoryReturn
<1>2. S \in SUBSET Occupied /\ \A s \in S : LQ[s].fetch_issued
  BY DEF Served
<1> HIDE DEF S
<1>3. Finish(S, {})
  BY <1>1 DEF Finish
<1>4. ASSUME NEW q \in Unissued, NEW s \in SQ[q].lq_depend_on_me PROVE s \notin S
  <2>1. s \in Occupied /\ q \in OlderStores(s)
    BY DEF LSQInv, DependentsKnown
  <2>2. ~ LQ[s].fetch_issued
    BY <2>1 DEF LSQInv, LoadWaitsForYoungestStore
  <2> QED BY <1>2, <2>2
<1>5. SQ' \in Seq(Store)
  BY <1>1 DEF LSQInv, TypeInv
<1>6. /\ \A q \in {} : SQ[q].lq_depend_on_me \subseteq S
      /\ \A q \in Unissued \ {} : SQ[q].lq_depend_on_me \cap S = {}
      /\ {} \in SUBSET Unissued
  BY <1>4
<1> QED BY <1>2, <1>3, <1>5, <1>6, FinishKeepsInv

LEMMA FinishStoresLSQ == ASSUME LSQInv, FinishStores PROVE LSQInv'
<1> DEFINE F == FetchSpan
           S == Released(F)
<1>1. /\ ROB' = Finished(S, F) /\ LQ' = Reset(S)
      /\ SQ' = [q \in DOMAIN SQ |-> IF q \in F THEN [SQ[q] EXCEPT !.fetch_issued = TRUE, !.wait = 0]
                                    ELSE SQ[q]]
      /\ UNCHANGED <<program, next>>
  BY DEF FinishStores
<1>2. F \in SUBSET Unissued
  BY DEF FetchSpan, FirstOf, Unissued
<1> HIDE DEF F
<1>3. ASSUME NEW q \in F PROVE SQ[q].lq_depend_on_me \in SUBSET Occupied /\ SQ[q].lq_depend_on_me \subseteq S
  BY <1>2 DEF Released, LSQInv, DependentsKnown
<1>4. S = UNION {SQ[q].lq_depend_on_me : q \in F}
  BY DEF Released
<1>5. S \in SUBSET Occupied
  BY <1>3, <1>4
<1>6. ASSUME NEW q \in Unissued \ F PROVE SQ[q].lq_depend_on_me \cap S = {}
  BY <1>2, <1>4, <1>6 DEF LSQInv, DependentsKnown
<1> HIDE DEF S
<1>7. /\ Len(SQ) \in Nat /\ DOMAIN SQ = 1 .. Len(SQ) /\ \A q \in DOMAIN SQ : SQ[q] \in Store
  BY QueueFacts DEF LSQInv
<1>8. ASSUME NEW q \in DOMAIN SQ
      PROVE  /\ SQ'[q].id = SQ[q].id /\ SQ'[q].addr = SQ[q].addr
             /\ SQ'[q].fetch_issued <=> SQ[q].fetch_issued \/ q \in F
             /\ SQ'[q].lq_depend_on_me = SQ[q].lq_depend_on_me
             /\ SQ'[q] \in Store
  <2>1. SQ[q] \in Store
    BY <1>7
  <2>2. CASE q \in F
    <3>1. SQ'[q] = [SQ[q] EXCEPT !.fetch_issued = TRUE, !.wait = 0]
      BY <1>1, <2>2
    <3>3. SQ[q] = [id |-> SQ[q].id, addr |-> SQ[q].addr, wait |-> SQ[q].wait,
                   fetch_issued |-> SQ[q].fetch_issued,
                   lq_depend_on_me |-> SQ[q].lq_depend_on_me]
      BY <2>1 DEF Store
    <3>4. SQ'[q] = [id |-> SQ[q].id, addr |-> SQ[q].addr, wait |-> 0,
                     fetch_issued |-> TRUE,
                     lq_depend_on_me |-> SQ[q].lq_depend_on_me]
      BY <3>3, <3>1
    <3>2. /\ SQ'[q].id = SQ[q].id /\ SQ'[q].addr = SQ[q].addr
          /\ SQ'[q].fetch_issued = TRUE
          /\ SQ'[q].lq_depend_on_me = SQ[q].lq_depend_on_me
          /\ SQ'[q] \in Store
      BY <2>1, <3>4 DEF Store
    <3> QED BY <2>2, <3>2
  <2>3. CASE q \notin F
    <3>1. SQ'[q] = SQ[q]
      BY <1>1, <2>3
    <3> QED BY <2>1, <2>3, <3>1
  <2> QED BY <2>2, <2>3
<1>9. DOMAIN SQ' = DOMAIN SQ
  BY <1>1
<1>10. Finish(S, F)
  BY <1>1, <1>8, <1>9 DEF Finish
<1>11. SQ' \in Seq(Store)
  <2>1. SQ' \in [1 .. Len(SQ) -> Store]
    BY <1>1, <1>7, <1>8
  <2> QED BY <1>7, <2>1
<1> QED BY <1>2, <1>3, <1>5, <1>6, <1>10, <1>11, FinishKeepsInv

LEMMA CompleteLSQ == ASSUME LSQInv, Complete PROVE LSQInv'
<1>1. /\ ROB' = [i \in DOMAIN ROB |-> [ROB[i] EXCEPT !.completed = @ \/ i \in Completing]]
      /\ UNCHANGED <<program, next, LQ, SQ>>
  BY DEF Complete
<1>2. /\ Len(ROB) \in Nat /\ DOMAIN ROB = 1 .. Len(ROB) /\ \A i \in DOMAIN ROB : ROB[i] \in RobEntry
  BY QueueFacts DEF LSQInv
<1>3. \A i \in Completing : ROB[i].completed_mem_ops = num_mem_ops(ROB[i].id)
  BY DEF Completing, FirstOf
<1>4. ASSUME NEW i \in DOMAIN ROB
      PROVE  /\ ROB'[i] \in RobEntry /\ ROB'[i].id = ROB[i].id
             /\ ROB'[i].completed_mem_ops = ROB[i].completed_mem_ops
             /\ ROB'[i].completed <=> ROB[i].completed \/ i \in Completing
  <2>1. PICK b \in BOOLEAN : b = (ROB[i].completed \/ i \in Completing)
    OBVIOUS
  <2>2. ROB'[i] = [ROB[i] EXCEPT !.completed = b]
    BY <1>1, <2>1
  <2>3. ROB[i] \in RobEntry
    BY <1>2
  <2> QED BY <2>1, <2>2, <2>3 DEF RobEntry
<1>5. DOMAIN ROB' = DOMAIN ROB /\ ROB' \in Seq(RobEntry)
  <2>1. ROB' \in [1 .. Len(ROB) -> RobEntry]
    BY <1>1, <1>2, <1>4
  <2> QED BY <1>1, <1>2, <2>1
<1>6. TypeInv'
  BY <1>1, <1>5 DEF LSQInv, TypeInv
<1>7. Occupied' = Occupied
  BY <1>1 DEF Occupied
<1>8. Quiet
  BY <1>1, <1>4, <1>5, <1>7 DEF Quiet
<1>9. LoadWaitsForYoungestStore'
  BY <1>1, <1>6, <1>8, QuietLoads
<1>10. \A id : num_mem_ops(id)' = num_mem_ops(id)
  BY <1>1 DEF num_mem_ops, Loads, Stores
<1>11. CompletedWhole'
  BY <1>3, <1>4, <1>5, <1>10 DEF CompletedWhole, LSQInv
<1>12. MemOpsConserved'
  <2>1. ASSUME NEW i \in DOMAIN ROB
        PROVE  LoadsOf(ROB[i].id)' = LoadsOf(ROB[i].id) /\ StoresOf(ROB[i].id)' = StoresOf(ROB[i].id)
    BY <1>1, <1>4, <1>7 DEF LoadsOf, StoresOf, Unissued
  <2>2. (\A i \in DOMAIN ROB :
           ROB[i].completed_mem_ops + Cardinality(LoadsOf(ROB[i].id))
             + Cardinality(StoresOf(ROB[i].id)) = num_mem_ops(ROB[i].id))'
    BY <1>4, <1>5, <1>10, <2>1, Conservation DEF LSQInv
  <2> QED BY <2>2, Conservation, PTL
<1> QED BY <1>6, <1>8, <1>9, <1>11, <1>12, QuietQueues DEF LSQInv
LEMMA QuietKeepsInv ==
  ASSUME LSQInv, TypeInv', Quiet,
         \A i \in DOMAIN ROB : /\ ROB'[i].completed = ROB[i].completed
                               /\ ROB'[i].completed_mem_ops = ROB[i].completed_mem_ops,
         \A s \in Occupied : LQ'[s].fetch_issued => LQ[s].fetch_issued \/ LQ[s].producer_id = None
  PROVE  LSQInv'
<1>1. DOMAIN ROB' = DOMAIN ROB /\ \A i \in DOMAIN ROB : ROB'[i].id = ROB[i].id
  BY DEF Quiet
<1>2. \A id : num_mem_ops(id)' = num_mem_ops(id)
  BY DEF num_mem_ops, Loads, Stores, Quiet
<1>3. CompletedWhole'
  BY <1>1, <1>2 DEF CompletedWhole, LSQInv
<1>4. MemOpsConserved'
  <2>1. ASSUME NEW i \in DOMAIN ROB
        PROVE  LoadsOf(ROB[i].id)' = LoadsOf(ROB[i].id) /\ StoresOf(ROB[i].id)' = StoresOf(ROB[i].id)
    <3>1. PICK id : id = ROB[i].id
      OBVIOUS
    <3>2. LoadsOf(id)' = LoadsOf(id) /\ StoresOf(id)' = StoresOf(id)
      BY QuietQueues
    <3>3. LoadsOf(ROB[i].id)' = LoadsOf(id)' /\ StoresOf(ROB[i].id)' = StoresOf(id)'
      BY <1>1, <3>1 DEF LoadsOf, StoresOf
    <3> QED BY <3>1, <3>2, <3>3
  <2>2. (\A i \in DOMAIN ROB :
           ROB[i].completed_mem_ops + Cardinality(LoadsOf(ROB[i].id))
             + Cardinality(StoresOf(ROB[i].id)) = num_mem_ops(ROB[i].id))'
    BY <1>1, <1>2, <2>1, Conservation DEF LSQInv
  <2> QED BY <2>2, Conservation, PTL
<1> QED BY <1>3, <1>4, QuietQueues, QuietLoads DEF LSQInv

LEMMA FieldsKeepInv ==
  ASSUME LSQInv, UNCHANGED <<program, next>>,
         DOMAIN ROB' = DOMAIN ROB, DOMAIN SQ' = DOMAIN SQ, DOMAIN LQ' = Slot,
         ROB' = [i \in DOMAIN ROB |-> ROB'[i]], SQ' = [q \in DOMAIN SQ |-> SQ'[q]],
         LQ' = [s \in Slot |-> LQ'[s]],
         \A i \in DOMAIN ROB :
           /\ ROB'[i] \in RobEntry /\ ROB'[i].id = ROB[i].id /\ ROB'[i].completed = ROB[i].completed
           /\ ROB'[i].completed_mem_ops = ROB[i].completed_mem_ops,
         \A q \in DOMAIN SQ :
           /\ SQ'[q] \in Store /\ SQ'[q].id = SQ[q].id /\ SQ'[q].addr = SQ[q].addr
           /\ SQ'[q].fetch_issued = SQ[q].fetch_issued
           /\ SQ'[q].lq_depend_on_me = SQ[q].lq_depend_on_me,
         \A s \in Slot : s \notin Occupied => LQ'[s] = Empty,
         \A s \in Slot : s \in Occupied =>
           /\ LQ'[s] \in Load /\ LQ'[s].id = LQ[s].id /\ LQ'[s].addr = LQ[s].addr
           /\ LQ'[s].fetch_issued => LQ[s].fetch_issued \/ LQ[s].producer_id = None
           /\ LQ'[s].producer_id = LQ[s].producer_id
  PROVE  LSQInv'
<1>1. /\ Len(ROB) \in Nat /\ DOMAIN ROB = 1 .. Len(ROB)
      /\ Len(SQ) \in Nat /\ DOMAIN SQ = 1 .. Len(SQ)
  BY QueueFacts DEF LSQInv
<1>2. ROB' \in Seq(RobEntry)
  <2>1. ROB' \in [1 .. Len(ROB) -> RobEntry]
    BY <1>1
  <2> QED BY <1>1, <2>1
<1>3. SQ' \in Seq(Store)
  <2>1. SQ' \in [1 .. Len(SQ) -> Store]
    BY <1>1
  <2> QED BY <1>1, <2>1
<1>4. LQ' \in [Slot -> Load \cup {Empty}]
  BY DEF Occupied
<1>5. TypeInv'
  BY <1>2, <1>3, <1>4 DEF LSQInv, TypeInv
<1>6. Occupied' = Occupied
  <2>1. \A s \in Slot : LQ'[s] \in Load => LQ'[s] # Empty
    <3>1. \A x \in Load : x.id # 0
      BY DEF Load
    <3>2. Empty.id = 0
      BY DEF Empty, None
    <3> QED BY <3>1, <3>2
  <2> QED BY <2>1 DEF Occupied
<1>7. Quiet
  <2>1. Occupied \subseteq Slot
    BY DEF Occupied
  <2> QED BY <1>6, <2>1 DEF Quiet
<1>8. \A s \in Occupied : LQ'[s].fetch_issued => LQ[s].fetch_issued \/ LQ[s].producer_id = None
  BY DEF Occupied
<1> QED BY <1>5, <1>7, <1>8, QuietKeepsInv

LEMMA ExecuteLSQ == ASSUME LSQInv, NEW E \in SUBSET Unexecuted, Execute(E) PROVE LSQInv'
<1> DEFINE Ids == {ROB[i].id : i \in E}
           Started(e) == IF e.id \in Ids THEN [e EXCEPT !.wait = EXEC_LATENCY] ELSE e
<1>1. /\ ROB' = [i \in DOMAIN ROB |->
                   IF i \in E THEN [ROB[i] EXCEPT !.executed = TRUE, !.wait = EXEC_LATENCY]
                   ELSE ROB[i]]
      /\ LQ' = [s \in Slot |-> IF LQ[s] = Empty THEN Empty ELSE Started(LQ[s])]
      /\ SQ' = [q \in DOMAIN SQ |-> Started(SQ[q])]
      /\ UNCHANGED <<program, next>>
  BY DEF Execute, DoExecution
<1>2. TypeInv /\ EXEC_LATENCY \in Int
  BY LSQAssumption DEF LSQInv
<1>3. ASSUME NEW i \in DOMAIN ROB
      PROVE  /\ ROB'[i] \in RobEntry /\ ROB'[i].id = ROB[i].id /\ ROB'[i].completed = ROB[i].completed
             /\ ROB'[i].completed_mem_ops = ROB[i].completed_mem_ops
  <2>1. ROB[i] \in RobEntry
    BY <1>2, EntriesKeepTypes
  <2>2. ROB'[i] = ROB[i] \/ ROB'[i] = [ROB[i] EXCEPT !.executed = TRUE, !.wait = EXEC_LATENCY]
    BY <1>1
  <2> QED BY <1>2, <2>1, <2>2 DEF RobEntry
<1>4. ASSUME NEW q \in DOMAIN SQ
      PROVE  /\ SQ'[q] \in Store /\ SQ'[q].id = SQ[q].id /\ SQ'[q].addr = SQ[q].addr
             /\ SQ'[q].fetch_issued = SQ[q].fetch_issued
             /\ SQ'[q].lq_depend_on_me = SQ[q].lq_depend_on_me
  <2>1. SQ[q] \in Store
    BY <1>2, EntriesKeepTypes
  <2>2. SQ'[q] = SQ[q] \/ SQ'[q] = [SQ[q] EXCEPT !.wait = EXEC_LATENCY]
    BY <1>1
  <2> QED BY <1>2, <2>1, <2>2 DEF Store
<1>5. ASSUME NEW s \in Slot, s \in Occupied
      PROVE  /\ LQ'[s] \in Load /\ LQ'[s].id = LQ[s].id /\ LQ'[s].addr = LQ[s].addr
             /\ LQ'[s].fetch_issued = LQ[s].fetch_issued
             /\ LQ'[s].producer_id = LQ[s].producer_id
  <2>1. LQ[s] \in Load
    BY <1>2, <1>5, EntriesKeepTypes
  <2>2. LQ'[s] = LQ[s] \/ LQ'[s] = [LQ[s] EXCEPT !.wait = EXEC_LATENCY]
    BY <1>1, <1>5 DEF Occupied
  <2> QED BY <1>2, <2>1, <2>2 DEF Load
<1>6. \A s \in Slot : s \notin Occupied => LQ'[s] = Empty
  BY <1>1 DEF Occupied
<1> HIDE DEF Started
<1>7. DOMAIN ROB' = DOMAIN ROB /\ DOMAIN SQ' = DOMAIN SQ /\ DOMAIN LQ' = Slot
  BY <1>1
<1> QED BY <1>1, <1>2, <1>3, <1>4, <1>5, <1>6, <1>7, FieldsKeepInv

LEMMA EndCycleLSQ == ASSUME LSQInv, EndCycle PROVE LSQInv'
<1> DEFINE Tick(w) == IF w \in {Never, -1} THEN w ELSE w - 1
<1>1. /\ ROB' = [i \in DOMAIN ROB |-> [ROB[i] EXCEPT !.wait = Tick(@)]]
      /\ SQ' = [q \in DOMAIN SQ |-> [SQ[q] EXCEPT !.wait = Tick(@)]]
      /\ LQ' = [s \in Slot |-> IF LQ[s] = Empty THEN Empty ELSE [LQ[s] EXCEPT !.wait = Tick(@)]]
      /\ UNCHANGED <<program, next>>
  BY DEF EndCycle
<1>2. TypeInv /\ \A w \in Int : Tick(w) \in Int
  BY DEF LSQInv
<1> HIDE DEF Tick
<1>3. ASSUME NEW i \in DOMAIN ROB
      PROVE  /\ ROB'[i] \in RobEntry /\ ROB'[i].id = ROB[i].id /\ ROB'[i].completed = ROB[i].completed
             /\ ROB'[i].completed_mem_ops = ROB[i].completed_mem_ops
  <2>1. ROB[i] \in RobEntry
    BY <1>2, EntriesKeepTypes
  <2>2. PICK t : t = Tick(ROB[i].wait)
    OBVIOUS
  <2>3. ROB'[i] = [ROB[i] EXCEPT !.wait = t]
    BY <1>1, <2>2
  <2>4. t \in Int
    BY <1>2, <2>1, <2>2 DEF RobEntry
  <2> QED BY <2>1, <2>3, <2>4 DEF RobEntry
<1>4. ASSUME NEW q \in DOMAIN SQ
      PROVE  /\ SQ'[q] \in Store /\ SQ'[q].id = SQ[q].id /\ SQ'[q].addr = SQ[q].addr
             /\ SQ'[q].fetch_issued = SQ[q].fetch_issued
             /\ SQ'[q].lq_depend_on_me = SQ[q].lq_depend_on_me
  <2>1. SQ[q] \in Store
    BY <1>2, EntriesKeepTypes
  <2>2. PICK t : t = Tick(SQ[q].wait)
    OBVIOUS
  <2>3. SQ'[q] = [SQ[q] EXCEPT !.wait = t]
    BY <1>1, <2>2
  <2>4. t \in Int
    BY <1>2, <2>1, <2>2 DEF Store
  <2> QED BY <2>1, <2>3, <2>4 DEF Store
<1>5. ASSUME NEW s \in Slot, s \in Occupied
      PROVE  /\ LQ'[s] \in Load /\ LQ'[s].id = LQ[s].id /\ LQ'[s].addr = LQ[s].addr
             /\ LQ'[s].fetch_issued = LQ[s].fetch_issued
             /\ LQ'[s].producer_id = LQ[s].producer_id
  <2>1. LQ[s] \in Load
    BY <1>2, <1>5, EntriesKeepTypes
  <2>2. PICK t : t = Tick(LQ[s].wait)
    OBVIOUS
  <2>3. LQ'[s] = [LQ[s] EXCEPT !.wait = t]
    BY <1>1, <1>5, <2>2 DEF Occupied
  <2>4. t \in Int
    BY <1>2, <2>1, <2>2 DEF Load
  <2> QED BY <2>1, <2>3, <2>4 DEF Load
<1>6. \A s \in Slot : s \notin Occupied => LQ'[s] = Empty
  BY <1>1 DEF Occupied
<1>7. DOMAIN ROB' = DOMAIN ROB /\ DOMAIN SQ' = DOMAIN SQ /\ DOMAIN LQ' = Slot
  BY <1>1
<1> QED BY <1>1, <1>2, <1>3, <1>4, <1>5, <1>6, <1>7, FieldsKeepInv

LEMMA IssueLoadsLSQ == ASSUME LSQInv, NEW S \in SUBSET Slot, IssueLoads(S) PROVE LSQInv'
<1>1. /\ LQ' = [s \in Slot |-> IF s \in S THEN [LQ[s] EXCEPT !.fetch_issued = TRUE] ELSE LQ[s]]
      /\ S \subseteq Issuable
      /\ UNCHANGED <<program, next, ROB, SQ>>
  BY DEF IssueLoads
<1>2. S \subseteq Occupied /\ \A s \in S : LQ[s].producer_id = None
  BY <1>1 DEF Issuable
<1>3. TypeInv
  BY DEF LSQInv
<1>4. ASSUME NEW s \in Slot, s \in Occupied
      PROVE  /\ LQ'[s] \in Load /\ LQ'[s].id = LQ[s].id /\ LQ'[s].addr = LQ[s].addr
             /\ LQ'[s].fetch_issued => LQ[s].fetch_issued \/ LQ[s].producer_id = None
             /\ LQ'[s].producer_id = LQ[s].producer_id
  <2>1. LQ[s] \in Load
    BY <1>3, <1>4, EntriesKeepTypes
  <2>2. CASE s \in S
    <3>1. LQ'[s] = [LQ[s] EXCEPT !.fetch_issued = TRUE]
      BY <1>1, <2>2
    <3> QED BY <1>2, <2>1, <2>2, <3>1 DEF Load
  <2>3. CASE s \notin S
    BY <1>1, <2>1, <2>3
  <2> QED BY <2>2, <2>3
<1>5. \A s \in Slot : s \notin Occupied => LQ'[s] = Empty
  BY <1>1, <1>2 DEF Occupied
<1>6. ASSUME NEW q \in DOMAIN SQ PROVE SQ[q] \in Store
  BY <1>3, EntriesKeepTypes
<1>7. ASSUME NEW i \in DOMAIN ROB PROVE ROB[i] \in RobEntry
  BY <1>3, EntriesKeepTypes
<1>8. DOMAIN LQ' = Slot /\ LQ' = [s \in Slot |-> LQ'[s]]
  BY <1>1
<1>9. ROB = [i \in DOMAIN ROB |-> ROB[i]] /\ SQ = [q \in DOMAIN SQ |-> SQ[q]]
  BY <1>3 DEF TypeInv
<1> QED BY <1>1, <1>4, <1>5, <1>6, <1>7, <1>8, <1>9, FieldsKeepInv
LEMMA SameQueues ==
  ASSUME LSQInv, UNCHANGED <<program, next, ROB, LQ, SQ>> PROVE LSQInv'
<1>1. TypeInv
  BY DEF LSQInv
<1>2. \A s \in Slot : (s \in Occupied => LQ[s] \in Load) /\ (s \notin Occupied => LQ[s] = Empty)
  BY <1>1, QueueFacts
<1>3. /\ \A q \in DOMAIN SQ : SQ[q] \in Store
      /\ \A i \in DOMAIN ROB : ROB[i] \in RobEntry
  BY <1>1, EntriesKeepTypes
<1>4. /\ ROB = [i \in DOMAIN ROB |-> ROB[i]] /\ SQ = [q \in DOMAIN SQ |-> SQ[q]]
      /\ LQ = [s \in Slot |-> LQ[s]] /\ DOMAIN LQ = Slot
  BY <1>1 DEF TypeInv
<1> QED BY <1>2, <1>3, <1>4, FieldsKeepInv

(* A queue without its first n entries. *)
LEMMA Dropped ==
  ASSUME NEW T, NEW Q \in Seq(T), NEW n \in 0 .. Len(Q), NEW R, R = SubSeq(Q, n + 1, Len(Q))
  PROVE  /\ R \in Seq(T) /\ Len(R) = Len(Q) - n /\ DOMAIN R = 1 .. Len(R) /\ Len(Q) \in Nat
         /\ \A i \in DOMAIN R : i + n \in DOMAIN Q /\ R[i] = Q[i + n]
         /\ \A i \in DOMAIN Q : i > n => i - n \in DOMAIN R
<1>1. Len(Q) \in Nat /\ n \in Nat /\ n <= Len(Q) /\ DOMAIN Q = 1 .. Len(Q)
  OBVIOUS
<1> DEFINE a == Len(Q)
<1>10. a \in Nat /\ n \in Nat /\ n <= a /\ DOMAIN Q = 1 .. a
  BY <1>1
<1>11. \A i \in n + 1 .. a : Q[i] \in T
  <2>1. \A i \in 1 .. a : Q[i] \in T
    OBVIOUS
  <2> QED BY <1>10, <2>1
<1>12. R = SubSeq(Q, n + 1, a)
  OBVIOUS
<1> HIDE DEF a
<1>13. /\ R \in Seq(T) /\ Len(R) = IF n + 1 <= a THEN a - (n + 1) + 1 ELSE 0
      /\ \A i \in 1 .. a - (n + 1) + 1 : R[i] = Q[(n + 1) + i - 1]
  BY <1>10, <1>11, <1>12, SubSeqProperties
<1>14. Len(R) = a - n /\ a - (n + 1) + 1 = a - n
  BY <1>10, <1>13
<1>2. R \in Seq(T) /\ Len(R) = a - n
  BY <1>13, <1>14
<1>3. DOMAIN R = 1 .. a - n
  BY <1>2
<1>4. ASSUME NEW i \in DOMAIN R PROVE i + n \in DOMAIN Q /\ R[i] = Q[i + n]
  <2>1. i \in 1 .. a - n
    BY <1>3
  <2>2. i + n \in 1 .. a /\ (n + 1) + i - 1 = i + n
    BY <1>10, <2>1
  <2>3. R[i] = Q[(n + 1) + i - 1]
    BY <1>13, <1>14, <2>1
  <2> QED BY <1>10, <2>2, <2>3
<1>5. ASSUME NEW i \in DOMAIN Q, i > n PROVE i - n \in DOMAIN R
  BY <1>10, <1>3, <1>5
<1>6. Len(R) = Len(Q) - n /\ DOMAIN R = 1 .. Len(R) /\ Len(Q) \in Nat
  BY <1>10, <1>2, <1>3 DEF a
<1> QED BY <1>2, <1>4, <1>5, <1>6

(* Sets of integers that differ by a shift have the same size. *)
LEMMA ShiftedSet ==
  ASSUME NEW n \in Int, NEW S, NEW T, IsFiniteSet(T),
         \A i \in S : i + n \in T /\ i \in Int, \A q \in T : q - n \in S /\ q \in Int
  PROVE  Cardinality(S) = Cardinality(T)
<1> DEFINE f == [q \in T |-> q - n]
<1>1. f \in [T -> S]
  OBVIOUS
<1>2. \A q, r \in T : f[q] = f[r] => q = r
  OBVIOUS
<1>3. \A i \in S : \E q \in T : f[q] = i
  <2> SUFFICES ASSUME NEW i \in S PROVE f[i + n] = i /\ i + n \in T
    OBVIOUS
  <2> QED OBVIOUS
<1> HIDE DEF f
<1>4. f \in Bijection(T, S)
  BY <1>1, <1>2, <1>3 DEF Bijection, Injection, IsInjective, Surjection
<1>5. ExistsBijection(T, S)
  BY <1>4 DEF ExistsBijection
<1> QED BY <1>5, FS_Bijection

LEMMA CompleteStoresLSQ ==
  ASSUME LSQInv, NEW n \in 0 .. Len(SQ), CompleteStores(n) PROVE LSQInv'
<1>1. /\ SQ' = SubSeq(SQ, n + 1, Len(SQ)) /\ UNCHANGED <<program, next, ROB, LQ>>
      /\ \A q \in 1 .. n : ROB = <<>> \/ SQ[q].id < ROB[1].id
  BY DEF CompleteStores, Writable
<1>2. TypeInv
  BY DEF LSQInv
<1>3. /\ SQ' \in Seq(Store) /\ DOMAIN SQ = 1 .. Len(SQ) /\ Len(SQ) \in Nat /\ n \in Nat
      /\ \A i \in DOMAIN SQ' : i + n \in DOMAIN SQ /\ SQ'[i] = SQ[i + n]
      /\ \A i \in DOMAIN SQ : i > n => i - n \in DOMAIN SQ'
      /\ DOMAIN SQ' \subseteq Int
  <2>1. SQ \in Seq(Store)
    BY <1>2 DEF TypeInv
  <2>2. DOMAIN SQ' = 1 .. Len(SQ') /\ Len(SQ') = Len(SQ) - n /\ Len(SQ) \in Nat
    BY <1>1, <2>1, Dropped
  <2> QED BY <1>1, <2>1, <2>2, Dropped
<1>4. ASSUME NEW q \in DOMAIN SQ, q <= n PROVE SQ[q].fetch_issued
  <2>1. q \in 1 .. n
    BY <1>3, <1>4
  <2> QED BY <1>1, <2>1 DEF LSQInv, StoresFinishBeforeWritten
<1>5. ASSUME NEW q \in Unissued PROVE q - n \in Unissued' /\ SQ'[q - n] = SQ[q] /\ q \in Int
  <2>1. q \in DOMAIN SQ /\ ~SQ[q].fetch_issued
    BY DEF Unissued
  <2>2. q > n /\ q \in Int
    BY <1>3, <1>4, <2>1
  <2>3. q - n \in DOMAIN SQ' /\ (q - n) + n = q
    BY <1>3, <2>1, <2>2
  <2>4. SQ'[q - n] = SQ[q]
    BY <1>3, <2>3
  <2> QED BY <2>1, <2>2, <2>3, <2>4 DEF Unissued
<1>6. ASSUME NEW i \in Unissued' PROVE i + n \in Unissued /\ SQ'[i] = SQ[i + n] /\ i \in Int
  BY <1>3, <1>6 DEF Unissued
<1>7. Occupied' = Occupied
  BY <1>1 DEF Occupied
<1>8. TypeInv'
  BY <1>1, <1>2, <1>3 DEF TypeInv
<1>9. IdsConsecutive' /\ IdsOlder' /\ CompletedWhole'
  <2>1. IdsConsecutive' /\ CompletedWhole'
    BY <1>1 DEF IdsConsecutive, CompletedWhole, LSQInv, num_mem_ops, Loads, Stores
  <2>2. IdsOlder'
    BY <1>1, <1>3, <1>7 DEF IdsOlder, LSQInv
  <2> QED BY <2>1, <2>2
<1>10. StoresFinishBeforeWritten'
  BY <1>1, <1>3 DEF StoresFinishBeforeWritten, LSQInv
<1>11. ASSUME NEW s \in Occupied, NEW i \in DOMAIN SQ'
       PROVE  i \in OlderStores(s)' <=> i + n \in OlderStores(s)
  BY <1>1, <1>3 DEF OlderStores
<1>12. ASSUME NEW i \in Unissued', NEW s \in SQ'[i].lq_depend_on_me
       PROVE  s \in Occupied' /\ i \in OlderStores(s)' /\ LQ'[s] # Empty /\ LQ'[s].producer_id = SQ'[i].id
  <2>1. i + n \in Unissued /\ SQ'[i] = SQ[i + n] /\ i \in DOMAIN SQ'
    BY <1>6 DEF Unissued
  <2>2. s \in Occupied /\ i + n \in OlderStores(s) /\ LQ[s] # Empty /\ LQ[s].producer_id = SQ[i + n].id
    BY <2>1 DEF LSQInv, DependentsKnown, DependentsWait, Unissued
  <2> QED BY <1>1, <1>7, <1>11, <2>1, <2>2
<1>13. DependentsWait'
  BY <1>12 DEF DependentsWait, Unissued
<1>14. DependentsKnown'
  <2>1. ASSUME NEW i \in Unissued', NEW j \in Unissued', i # j
        PROVE  SQ'[i].lq_depend_on_me \cap SQ'[j].lq_depend_on_me = {}
    <3>1. i + n # j + n
      BY <1>3, <1>6, <2>1
    <3> QED BY <1>6, <3>1 DEF LSQInv, DependentsKnown
  <2>2. ASSUME NEW s \in Occupied', LQ'[s].producer_id # None
        PROVE  \E i \in Unissued' : s \in SQ'[i].lq_depend_on_me
    <3>1. PICK q \in Unissued : s \in SQ[q].lq_depend_on_me
      BY <1>1, <1>7, <2>2 DEF LSQInv, DependentsKnown
    <3> QED BY <1>5, <3>1
  <2> QED BY <1>12, <2>1, <2>2 DEF DependentsKnown
<1>15. LoadWaitsForYoungestStore'
  <2> SUFFICES ASSUME NEW s \in Occupied
               PROVE  /\ LQ[s].producer_id =
                           IF OlderStores(s)' = {} THEN None
                           ELSE Greatest({SQ'[q].id : q \in OlderStores(s)'})
                      /\ LQ[s].fetch_issued => OlderStores(s)' = {}
    BY <1>1, <1>7 DEF LoadWaitsForYoungestStore
  <2>1. ASSUME NEW i \in OlderStores(s)' PROVE i \in DOMAIN SQ' /\ i + n \in OlderStores(s) /\ SQ'[i] = SQ[i + n]
    <3>1. i \in DOMAIN SQ'
      BY DEF OlderStores
    <3> QED BY <1>3, <1>11, <3>1
  <2>2. CASE OlderStores(s) = {}
    BY <2>1, <2>2 DEF LoadWaitsForYoungestStore, LSQInv
  <2>3. CASE OlderStores(s) # {}
    <3>1. PICK q \in OlderStores(s) :
             /\ SQ[q].id # None
             /\ Greatest({SQ[r].id : r \in OlderStores(s)}) = SQ[q].id
             /\ \A r \in OlderStores(s) : SQ[r].id <= SQ[q].id
      BY <1>2, <2>3, GreatestOlder
    <3>2. LQ[s].producer_id = SQ[q].id /\ ~LQ[s].fetch_issued
      BY <2>3, <3>1 DEF LoadWaitsForYoungestStore, LSQInv
    <3>3. PICK p \in Unissued : s \in SQ[p].lq_depend_on_me
      BY <3>1, <3>2 DEF LSQInv, DependentsKnown
    <3>4. p \in OlderStores(s) /\ SQ[p].id = SQ[q].id
      BY <3>2, <3>3 DEF LSQInv, DependentsKnown, DependentsWait, Unissued
    <3>5. p - n \in Unissued' /\ SQ'[p - n] = SQ[p] /\ (p - n) + n = p
      BY <1>3, <1>5
    <3>6. p - n \in OlderStores(s)'
      BY <1>11, <3>4, <3>5 DEF Unissued
    <3> DEFINE Ids == {SQ'[i].id : i \in OlderStores(s)'}
    <3>7. SQ[p].id \in Ids
      BY <3>5, <3>6
    <3>8. \A i \in OlderStores(s)' : SQ'[i].id \in Nat /\ SQ'[i].id <= SQ[p].id
      <4>1. \A r \in DOMAIN SQ : SQ[r].id \in Nat
        BY <1>2, QueueFacts DEF Store
      <4> QED BY <2>1, <3>1, <3>4, <4>1 DEF OlderStores
    <3>9. Ids \in SUBSET Nat /\ \A i \in Ids : i <= SQ[p].id
      BY <3>8
    <3>10. Greatest(Ids) = SQ[p].id
      BY <3>7, <3>9, GreatestIs
    <3> QED BY <3>2, <3>4, <3>6, <3>10
  <2> QED BY <2>2, <2>3
<1>16. MemOpsConserved'
  <2>1. ASSUME NEW id PROVE LoadsOf(id)' = LoadsOf(id) /\ Cardinality(StoresOf(id)') = Cardinality(StoresOf(id))
    <3>1. LoadsOf(id)' = LoadsOf(id)
      BY <1>1, <1>7 DEF LoadsOf
    <3>2. PICK S, T : S = StoresOf(id)' /\ T = StoresOf(id)
      OBVIOUS
    <3>3. \A i \in S : i + n \in T /\ i \in Int
      BY <1>6, <3>2 DEF StoresOf
    <3>4. \A q \in T : q - n \in S /\ q \in Int
      BY <1>5, <3>2 DEF StoresOf
    <3>5. IsFiniteSet(T)
      BY <1>2, <3>2, Counts
    <3>6. Cardinality(S) = Cardinality(T)
      <4>1. n \in Int
        BY <1>3
      <4> QED BY <3>3, <3>4, <3>5, <4>1, ShiftedSet
    <3> QED BY <3>1, <3>2, <3>6
  <2>2. (\A i \in DOMAIN ROB :
           ROB[i].completed_mem_ops + Cardinality(LoadsOf(ROB[i].id))
             + Cardinality(StoresOf(ROB[i].id)) = num_mem_ops(ROB[i].id))'
    <3> SUFFICES ASSUME NEW i \in DOMAIN ROB
                 PROVE  (ROB[i].completed_mem_ops + Cardinality(LoadsOf(ROB[i].id))
                           + Cardinality(StoresOf(ROB[i].id)) = num_mem_ops(ROB[i].id))'
      BY <1>1
    <3>1. PICK id : id = ROB[i].id
      OBVIOUS
    <3>2. LoadsOf(ROB[i].id)' = LoadsOf(id)' /\ StoresOf(ROB[i].id)' = StoresOf(id)'
      BY <1>1, <3>1 DEF LoadsOf, StoresOf
    <3>3. num_mem_ops(ROB[i].id)' = num_mem_ops(ROB[i].id)
      BY <1>1 DEF num_mem_ops, Loads, Stores
    <3> QED BY <1>1, <2>1, <3>1, <3>2, <3>3, Conservation DEF LSQInv
  <2> QED BY <2>2, Conservation, PTL
<1> QED BY <1>8, <1>9, <1>10, <1>13, <1>14, <1>15, <1>16 DEF LSQInv
LEMMA RetireLSQ == ASSUME LSQInv, Retire PROVE LSQInv'
<1> DEFINE K == {k \in 0 .. Lesser(Len(ROB), RETIRE_WIDTH) : \A i \in 1 .. k : ROB[i].completed}
<1>1. /\ ROB' = SubSeq(ROB, Greatest(K) + 1, Len(ROB))
      /\ UNCHANGED <<program, next, LQ, SQ>>
  BY DEF Retire
<1>2. TypeInv
  BY DEF LSQInv
<1>3. Len(ROB) \in Nat /\ DOMAIN ROB = 1 .. Len(ROB)
  BY <1>2, QueueFacts
<1>4. PICK n \in 0 .. Len(ROB) : n = Greatest(K) /\ \A i \in 1 .. n : ROB[i].completed
  <2>1. PICK m : m = Lesser(Len(ROB), RETIRE_WIDTH)
    OBVIOUS
  <2>2. m \in Nat /\ m <= Len(ROB)
    BY <1>3, <2>1, LSQAssumption DEF Lesser
  <2>3. K \in SUBSET (0 .. m) /\ K \in SUBSET Nat
    BY <2>1, <2>2
  <2>4. 0 \in K
    BY <2>1, <2>2
  <2>5. PICK x \in K : \A y \in K : y <= x
    BY <2>2, <2>3, <2>4, GreatestExists
  <2>6. Greatest(K) = x
    BY <2>3, <2>5, GreatestIs
  <2>7. x \in 0 .. Len(ROB)
    BY <1>3, <2>2, <2>3, <2>5
  <2> QED BY <2>5, <2>6, <2>7
<1>5. /\ ROB' \in Seq(RobEntry) /\ Len(ROB') = Len(ROB) - n /\ DOMAIN ROB' = 1 .. Len(ROB')
      /\ \A i \in DOMAIN ROB' : i + n \in DOMAIN ROB /\ ROB'[i] = ROB[i + n]
  <2>1. ROB \in Seq(RobEntry)
    BY <1>2 DEF TypeInv
  <2>2. ROB' = SubSeq(ROB, n + 1, Len(ROB))
    BY <1>1, <1>4
  <2> HIDE DEF K
  <2> QED BY <2>1, <2>2, Dropped
<1> DEFINE base == next - 1 - Len(ROB)
<1>6. base \in Nat /\ next \in Nat \ {0} /\ \A i \in DOMAIN ROB : ROB[i].id = base + i
  BY <1>2 DEF LSQInv, IdsConsecutive, TypeInv
<1>7. next' - 1 - Len(ROB') = base + n
  BY <1>1, <1>3, <1>4, <1>5, <1>6
<1> HIDE DEF base
<1>8. ASSUME NEW i \in DOMAIN ROB' PROVE ROB'[i].id = base + n + i /\ i \in Nat
  <2>1. ROB'[i].id = base + (i + n)
    BY <1>5, <1>6
  <2> QED BY <1>3, <1>4, <1>5, <1>6, <2>1
<1>9. IdsConsecutive'
  <2>1. base + n \in Nat
    BY <1>4, <1>6
  <2> QED BY <1>7, <1>8, <2>1 DEF IdsConsecutive
<1>10. Occupied' = Occupied /\ Unissued' = Unissued /\ \A s : OlderStores(s)' = OlderStores(s)
  BY <1>1 DEF Occupied, Unissued, OlderStores
<1>11. IdsOlder' /\ DependentsKnown' /\ DependentsWait' /\ LoadWaitsForYoungestStore'
  BY <1>1, <1>10 DEF LSQInv, IdsOlder, DependentsKnown, DependentsWait, LoadWaitsForYoungestStore
<1>12. TypeInv'
  BY <1>1, <1>2, <1>5 DEF TypeInv
<1>13. \A id : num_mem_ops(id)' = num_mem_ops(id)
  BY <1>1 DEF num_mem_ops, Loads, Stores
<1>14. CompletedWhole'
  BY <1>5, <1>13 DEF CompletedWhole, LSQInv
<1>15. MemOpsConserved'
  <2>0. SUFFICES (\A i \in DOMAIN ROB :
                    ROB[i].completed_mem_ops + Cardinality(LoadsOf(ROB[i].id))
                      + Cardinality(StoresOf(ROB[i].id)) = num_mem_ops(ROB[i].id))'
    BY Conservation, PTL
  <2> SUFFICES ASSUME NEW i \in DOMAIN ROB'
               PROVE  (ROB[i].completed_mem_ops + Cardinality(LoadsOf(ROB[i].id))
                         + Cardinality(StoresOf(ROB[i].id)) = num_mem_ops(ROB[i].id))'
    OBVIOUS
  <2>1. PICK id : id = ROB[i + n].id
    OBVIOUS
  <2>2. /\ ROB'[i] = ROB[i + n] /\ i + n \in DOMAIN ROB
        /\ LoadsOf(ROB[i].id)' = LoadsOf(id) /\ StoresOf(ROB[i].id)' = StoresOf(id)
    BY <1>1, <1>5, <1>10, <2>1 DEF LoadsOf, StoresOf
  <2>3. num_mem_ops(ROB[i].id)' = num_mem_ops(id)
    BY <1>5, <1>13, <2>1 DEF num_mem_ops, Loads, Stores
  <2>4. ROB[i + n].completed_mem_ops + Cardinality(LoadsOf(id)) + Cardinality(StoresOf(id))
          = num_mem_ops(id)
    BY <2>1, <2>2, Conservation DEF LSQInv
  <2> QED BY <2>2, <2>3, <2>4
<1>16. StoresFinishBeforeWritten'
  <2> SUFFICES ASSUME NEW q \in DOMAIN SQ, ROB' = <<>> \/ SQ[q].id < ROB'[1].id, ~SQ[q].fetch_issued
               PROVE  FALSE
    BY <1>1 DEF StoresFinishBeforeWritten
  <2>1. SQ[q].id \in Nat /\ SQ[q].id < next
    BY <1>2, QueueFacts DEF LSQInv, IdsOlder, Store
  <2>2. ROB # <<>> /\ ~(SQ[q].id < ROB[1].id)
    BY DEF LSQInv, StoresFinishBeforeWritten
  <2>3. 1 \in DOMAIN ROB
    BY <1>2, <1>3, <2>2 DEF TypeInv
  <2>4. SQ[q].id >= base + 1
    BY <1>6, <2>1, <2>2, <2>3
  <2>5. next = base + Len(ROB) + 1
    BY <1>3, <1>6 DEF base
  <2>6. PICK j \in DOMAIN ROB : ROB[j].id = SQ[q].id /\ j \in Nat /\ SQ[q].id = base + j
    <3>1. SQ[q].id - base \in 1 .. Len(ROB)
      BY <1>3, <1>6, <2>1, <2>4, <2>5
    <3>2. base + (SQ[q].id - base) = SQ[q].id
      BY <1>6, <2>1
    <3> QED BY <1>3, <1>6, <3>1, <3>2
  <2>7. CASE j <= n
    <3>1. ROB[j].completed
      BY <1>3, <1>4, <2>7
    <3>2. ROB[j].completed_mem_ops = num_mem_ops(ROB[j].id)
      BY <3>1 DEF LSQInv, CompletedWhole
    <3>3. PICK c, l, t, u : /\ c = ROB[j].completed_mem_ops /\ l = Cardinality(LoadsOf(ROB[j].id))
                            /\ t = Cardinality(StoresOf(ROB[j].id)) /\ u = num_mem_ops(ROB[j].id)
      OBVIOUS
    <3>4. c + l + t = u /\ c = u
      BY <3>2, <3>3, Conservation DEF LSQInv
    <3>5. c \in Nat /\ l \in Nat /\ t \in Nat
      <4>1. ROB[j] \in RobEntry
        BY <1>2, QueueFacts
      <4> QED BY <1>2, <3>3, <4>1, Counts DEF RobEntry
    <3>6. t = 0
      BY <3>4, <3>5
    <3>7. StoresOf(ROB[j].id) = {}
      BY <1>2, <3>3, <3>6, Counts, FS_EmptySet
    <3>8. q \in StoresOf(ROB[j].id)
      BY <2>6 DEF StoresOf, Unissued
    <3> QED BY <3>7, <3>8
  <2>8. CASE j > n
    <3>1. Len(ROB') # 0 /\ 1 \in DOMAIN ROB'
      BY <1>3, <1>4, <1>5, <2>6, <2>8
    <3>2. ROB' # <<>>
      BY <3>1
    <3>3. ROB'[1].id = base + n + 1
      BY <1>8, <3>1
    <3> QED BY <1>3, <1>4, <1>6, <2>1, <2>6, <2>8, <3>2, <3>3
  <2> QED BY <1>3, <1>4, <2>6, <2>7, <2>8
<1> QED BY <1>9, <1>11, <1>12, <1>14, <1>15, <1>16 DEF LSQInv

--------------------------------------------------------------------------------
(* Dispatch: the free slots are taken one by one. *)

LEMMA Ranked ==
  ASSUME NEW F \in SUBSET Int, IsFiniteSet(F), NEW k \in 1 .. Cardinality(F)
  PROVE  \E s \in F : Cardinality({t \in F : t < s}) = k - 1
<1> DEFINE n == Cardinality(F)
           Before(s) == {t \in F : t < s}
           f == [s \in F |-> Cardinality(Before(s))]
<1>1. n \in Nat /\ k \in 1 .. n
  BY FS_CardinalityType
<1>2. ASSUME NEW s \in F PROVE Before(s) \in SUBSET (F \ {s}) /\ IsFiniteSet(Before(s))
  <2>1. Before(s) \in SUBSET (F \ {s}) /\ Before(s) \in SUBSET F
    OBVIOUS
  <2> QED BY <2>1, FS_Subset
<1>3. ASSUME NEW s \in F PROVE f[s] \in 0 .. n - 1
  <2>1. IsFiniteSet(F \ {s}) /\ Cardinality(F \ {s}) = n - 1
    BY FS_RemoveElement
  <2>2. Cardinality(Before(s)) <= n - 1 /\ Cardinality(Before(s)) \in Nat
    BY <1>2, <2>1, FS_Subset, FS_CardinalityType
  <2> QED BY <1>1, <2>2
<1>4. ASSUME NEW s \in F, NEW t \in F, s < t PROVE f[s] # f[t]
  <2>0. \A u \in F : u \in Int
    OBVIOUS
  <2>1. Before(s) \in SUBSET Before(t) /\ s \in Before(t) /\ s \notin Before(s)
    <3>1. \A u \in Before(s) : u \in Before(t)
      BY <1>4, <2>0
    <3>2. s \in Before(t) /\ s \notin Before(s)
      BY <1>4, <2>0
    <3> QED BY <3>1, <3>2
  <2>2. IsFiniteSet(Before(t))
    BY <1>2
  <2>3. Cardinality(Before(s)) # Cardinality(Before(t))
    BY <2>1, <2>2, FS_Subset
  <2> QED BY <2>3
<1>5. f \in [F -> 0 .. n - 1]
  BY <1>3
<1>6. \A s, t \in F : f[s] = f[t] => s = t
  BY <1>4
<1> HIDE DEF f, n
<1>7. f \in Injection(F, 0 .. n - 1)
  BY <1>5, <1>6 DEF Injection, IsInjective
<1>8. IsFiniteSet(0 .. n - 1) /\ Cardinality(0 .. n - 1) = n
  <2>1. n >= 1
    BY <1>1
  <2> QED BY <1>1, <2>1, FS_Interval
<1>9. f \in Surjection(F, 0 .. n - 1)
  BY <1>7, <1>8, FS_Injection DEF n
<1>10. k - 1 \in 0 .. n - 1
  BY <1>1
<1>11. PICK s \in F : f[s] = k - 1
  BY <1>9, <1>10 DEF Surjection
<1> QED BY <1>11 DEF f

LEMMA SlotsTaken ==
  ASSUME TypeInv, NEW W \in SUBSET Nat, IsFiniteSet(W),
         Cardinality(W) <= Cardinality(Slot \ Occupied),
         NEW f, f = [k \in W |-> SlotOf(Cardinality({j \in W : j <= k}))]
  PROVE  /\ f \in [W -> Slot \ Occupied]
         /\ \A j, k \in W : f[j] = f[k] => j = k
<1> DEFINE Free == Slot \ Occupied
           UpTo(k) == {j \in W : j <= k}
           c(k) == Cardinality(UpTo(k))
<1>1. Free \in SUBSET Int /\ IsFiniteSet(Free) /\ Cardinality(Free) \in Nat
  <2>1. Free \in SUBSET Slot /\ IsFiniteSet(Slot) /\ Slot \subseteq Int
    BY QueueFacts DEF Slot
  <2> QED BY <2>1, FS_Subset, FS_CardinalityType
<1>2. ASSUME NEW k \in W
      PROVE  c(k) \in 1 .. Cardinality(Free) /\ IsFiniteSet(UpTo(k))
  <2>1. UpTo(k) \in SUBSET W /\ k \in UpTo(k)
    OBVIOUS
  <2>2. IsFiniteSet(UpTo(k)) /\ Cardinality(UpTo(k)) <= Cardinality(W)
    BY <2>1, FS_Subset
  <2>3. Cardinality(UpTo(k)) # 0 /\ Cardinality(UpTo(k)) \in Nat /\ Cardinality(W) \in Nat
    BY <2>1, <2>2, FS_EmptySet, FS_CardinalityType
  <2> QED BY <1>1, <2>2, <2>3
<1>3. ASSUME NEW j \in W, NEW k \in W, j < k PROVE c(j) # c(k)
  <2>1. \A t \in W : t \in Nat
    OBVIOUS
  <2>2. \A t \in UpTo(j) : t \in UpTo(k)
    BY <1>3, <2>1
  <2>3. k \in UpTo(k) /\ k \notin UpTo(j)
    BY <1>3, <2>1
  <2>4. UpTo(j) \in SUBSET UpTo(k) /\ UpTo(j) # UpTo(k)
    BY <2>2, <2>3
  <2> HIDE DEF UpTo
  <2> QED BY <1>2, <2>4, FS_Subset
<1>4. ASSUME NEW i \in 1 .. Cardinality(Free)
      PROVE  SlotOf(i) \in Free /\ Cardinality({t \in Free : t < SlotOf(i)}) = i - 1
  <2>1. \E s \in Free : Cardinality({t \in Free : t < s}) = i - 1
    BY <1>1, Ranked
  <2> QED BY <2>1 DEF SlotOf
<1>5. ASSUME NEW k \in W PROVE f[k] = SlotOf(c(k)) /\ f[k] \in Free
                               /\ Cardinality({t \in Free : t < f[k]}) = c(k) - 1
  BY <1>2, <1>4
<1>6. ASSUME NEW j \in W, NEW k \in W, j < k PROVE f[j] # f[k]
  <2>1. c(j) # c(k) /\ c(j) \in Int /\ c(k) \in Int
    BY <1>1, <1>2, <1>3, <1>6
  <2>2. c(j) - 1 # c(k) - 1
    BY <2>1
  <2> QED BY <1>5, <2>2
<1>7. f \in [W -> Slot \ Occupied]
  BY <1>5
<1>8. ASSUME NEW j \in W, NEW k \in W, f[j] = f[k] PROVE j = k
  <2>1. j \in Nat /\ k \in Nat
    OBVIOUS
  <2> QED BY <1>6, <1>8, <2>1
<1> QED BY <1>7, <1>8
(* What ForwardFrom finds. *)
Found(g, address) ==
  /\ g = None => \A q \in DOMAIN SQ : SQ[q].addr # address
  /\ g # None => /\ g \in DOMAIN SQ /\ SQ[g].addr = address
                 /\ \A r \in DOMAIN SQ : SQ[r].addr = address => SQ[r].id <= SQ[g].id

(* The stores have ids below a bound, so one of a set of them is youngest. *)
LEMMA YoungestExists ==
  ASSUME TypeInv, IdsOlder, NEW S \in SUBSET DOMAIN SQ, S # {}
  PROVE  \E y \in S : \A r \in S : SQ[r].id <= SQ[y].id
<1> DEFINE Ids == {SQ[q].id : q \in S}
<1>1. next \in Nat /\ \A q \in S : SQ[q].id \in 0 .. next
  BY QueueFacts DEF TypeInv, IdsOlder, Store
<1>2. Ids \in SUBSET (0 .. next) /\ Ids # {}
  BY <1>1
<1>3. PICK m \in Ids : \A i \in Ids : i <= m
  BY <1>1, <1>2, GreatestExists
<1> QED BY <1>3

LEMMA ForwardFromFinds == ASSUME TypeInv, IdsOlder, NEW a PROVE Found(ForwardFrom(a), a)
<1> DEFINE Same == {q \in DOMAIN SQ : SQ[q].addr = a}
           Youngest == {q \in Same : \A r \in Same : SQ[r].id <= SQ[q].id}
<1>1. Len(SQ) \in Nat /\ DOMAIN SQ = 1 .. Len(SQ) /\ \A q \in DOMAIN SQ : SQ[q].id \in Nat
  BY QueueFacts DEF Store
<1>2. CASE Same = {}
  <2>1. ForwardFrom(a) = None
    BY <1>2 DEF ForwardFrom
  <2> QED BY <1>2, <2>1 DEF Found
<1>3. CASE Same # {}
  <2>3. PICK y \in Same : \A r \in Same : SQ[r].id <= SQ[y].id
    BY <1>3, YoungestExists
  <2>4. Youngest \in SUBSET Nat /\ Youngest # {}
    BY <1>1, <2>3
  <2>5. PICK m \in Youngest : \A x \in Youngest : m <= x
    BY <2>4, LeastExists
  <2>6. Least(Youngest) \in Youngest
    BY <2>5 DEF Least
  <2>7. ForwardFrom(a) = Least(Youngest)
    BY <1>3 DEF ForwardFrom
  <2>8. ForwardFrom(a) \in Same /\ \A r \in Same : SQ[r].id <= SQ[ForwardFrom(a)].id
    BY <2>6, <2>7
  <2>9. ForwardFrom(a) \in DOMAIN SQ
    BY <2>8
  <2> QED BY <1>1, <2>8, <2>9 DEF Found, None
<1> QED BY <1>2, <1>3

NewLoad(k, g) ==
  [id |-> next, addr |-> Loads(next)[k], wait |-> Never, fetch_issued |-> FALSE,
   producer_id |-> IF g[k] = None THEN None ELSE SQ[g[k]].id]
NewStore(k) ==
  [id |-> next, addr |-> Stores(next)[k], wait |-> Never, fetch_issued |-> FALSE,
   lq_depend_on_me |-> {}]

LEMMA NewLoadFields ==
  \A k, g : /\ NewLoad(k, g).id = next
            /\ g[k] = None => NewLoad(k, g).producer_id = None
            /\ g[k] # None => NewLoad(k, g).producer_id = SQ[g[k]].id
<1> SUFFICES ASSUME NEW k, NEW g
             PROVE  /\ NewLoad(k, g).id = next
                    /\ g[k] = None => NewLoad(k, g).producer_id = None
                    /\ g[k] # None => NewLoad(k, g).producer_id = SQ[g[k]].id
  OBVIOUS
<1>1. PICK p : p = IF g[k] = None THEN None ELSE SQ[g[k]].id
  OBVIOUS
<1>2. NewLoad(k, g) = [id |-> next, addr |-> Loads(next)[k], wait |-> Never,
                       fetch_issued |-> FALSE, producer_id |-> p]
  BY <1>1 DEF NewLoad
<1>3. NewLoad(k, g).id = next /\ NewLoad(k, g).producer_id = p
  BY <1>2
<1> QED BY <1>1, <1>3

(* Dispatch with its local choices named: load k takes slot f[k] when k is in *)
(* W, and finds the store g[k].                                               *)
Dispatched(W, f, g) ==
  /\ W = {k \in DOMAIN Loads(next) : g[k] = None \/ ~SQ[g[k]].fetch_issued}
  /\ f \in [W -> Slot \ Occupied]
  /\ \A j, k \in W : f[j] = f[k] => j = k
  /\ \A k \in DOMAIN Loads(next) : Found(g[k], Loads(next)[k])
  /\ LQ' = [s \in Slot |-> LQ'[s]]
  /\ \A k \in W : LQ'[f[k]] = NewLoad(k, g)
  /\ \A s \in Slot : (\A k \in W : f[k] # s) => LQ'[s] = LQ[s]
  /\ SQ' = [q \in DOMAIN SQ |->
              [SQ[q] EXCEPT !.lq_depend_on_me = @ \cup {f[k] : k \in {j \in W : g[j] = q}}]]
           \o [k \in DOMAIN Stores(next) |-> NewStore(k)]
  /\ ROB' = Append(ROB, [id |-> next, executed |-> FALSE, completed |-> FALSE, wait |-> Never,
                         completed_mem_ops |-> Cardinality(DOMAIN Loads(next) \ W)])
  /\ next' = next + 1 /\ program' = program

LEMMA ProgramTypes ==
  ASSUME TypeInv, next <= Len(program)
  PROVE  /\ Loads(next) \in Seq(Address) /\ Stores(next) \in Seq(Address)
         /\ Len(Loads(next)) \in Nat /\ DOMAIN Loads(next) = 1 .. Len(Loads(next))
         /\ Len(Stores(next)) \in Nat /\ DOMAIN Stores(next) = 1 .. Len(Stores(next))
<1> DEFINE Mem == [loads : Seq(Address), stores : Seq(Address)]
<1>1. program \in Programs /\ next \in Nat \ {0}
  BY DEF TypeInv
<1>2. \A p \in Programs : p \in Seq(Mem)
  BY LSQAssumption, Zenon DEF Address
<1>3. \A m \in Mem : m.loads \in Seq(Address) /\ m.stores \in Seq(Address)
  OBVIOUS
<1> HIDE DEF Mem
<1>4. program \in Seq(Mem)
  BY <1>1, <1>2
<1>5. program[next] \in Mem
  BY <1>1, <1>4
<1>6. Loads(next) \in Seq(Address) /\ Stores(next) \in Seq(Address)
  BY <1>3, <1>5 DEF Loads, Stores
<1> QED BY <1>6

LEMMA IntervalSize ==
  ASSUME NEW n \in Nat PROVE IsFiniteSet(1 .. n) /\ Cardinality(1 .. n) = n
<1>1. IsFiniteSet(1 .. n) /\ Cardinality(1 .. n) = IF 1 > n THEN 0 ELSE n - 1 + 1
  BY FS_Interval
<1>2. (IF 1 > n THEN 0 ELSE n - 1 + 1) = n
  OBVIOUS
<1> QED BY <1>1, <1>2

LEMMA DispatchFacts ==
  ASSUME LSQInv, Dispatch PROVE \E W, f, g : Dispatched(W, f, g)
<1> DEFINE source(k) == ForwardFrom(Loads(next)[k])
           Done == {k \in DOMAIN Loads(next) : source(k) # None /\ SQ[source(k)].fetch_issued}
           Waiting == DOMAIN Loads(next) \ Done
           slot(k) == SlotOf(Cardinality({j \in Waiting : j <= k}))
           load(k) == [id |-> next, addr |-> Loads(next)[k], wait |-> Never,
                       fetch_issued |-> FALSE,
                       producer_id |-> IF source(k) = None THEN None ELSE SQ[source(k)].id]
           store(k) == [id |-> next, addr |-> Stores(next)[k], wait |-> Never,
                        fetch_issued |-> FALSE, lq_depend_on_me |-> {}]
<1>1. /\ LQ' = [s \in Slot |-> IF \E k \in Waiting : slot(k) = s
                               THEN load(CHOOSE k \in Waiting : slot(k) = s)
                               ELSE LQ[s]]
      /\ SQ' = [q \in DOMAIN SQ |->
                 [SQ[q] EXCEPT !.lq_depend_on_me =
                    @ \cup {slot(k) : k \in {j \in Waiting : source(j) = q}}]]
               \o [k \in DOMAIN Stores(next) |-> store(k)]
      /\ ROB' = Append(ROB, [id |-> next, executed |-> FALSE, completed |-> FALSE,
                             wait |-> Never, completed_mem_ops |-> Cardinality(Done)])
      /\ next' = next + 1 /\ program' = program
  BY DEF Dispatch
<1>2. /\ next <= Len(program)
      /\ Cardinality(Slot \ Occupied) >= Len(Loads(next))
  BY DEF Dispatch, HasRoom
<1>3. TypeInv
  BY DEF LSQInv
<1>4. Len(Loads(next)) \in Nat /\ DOMAIN Loads(next) = 1 .. Len(Loads(next))
  BY <1>2, <1>3, ProgramTypes
<1>5. PICK W : W = Waiting
  OBVIOUS
<1>6. PICK f : f = [k \in W |-> SlotOf(Cardinality({j \in W : j <= k}))]
  OBVIOUS
<1>7. PICK g : g = [k \in DOMAIN Loads(next) |-> source(k)]
  OBVIOUS
<1>8. \A k \in W : f[k] = slot(k)
  BY <1>5, <1>6
<1>9. \A k \in DOMAIN Loads(next) : g[k] = source(k) /\ Found(g[k], Loads(next)[k])
  BY <1>3, <1>7, ForwardFromFinds DEF LSQInv
<1>10. f \in [W -> Slot \ Occupied] /\ \A j, k \in W : f[j] = f[k] => j = k
  <2>0. Waiting \subseteq DOMAIN Loads(next)
    OBVIOUS
  <2>1. W \in SUBSET (1 .. Len(Loads(next))) /\ W \in SUBSET Nat
    <3> HIDE DEF Waiting
    <3> QED BY <1>4, <1>5, <2>0
  <2>2. /\ IsFiniteSet(1 .. Len(Loads(next)))
        /\ Cardinality(1 .. Len(Loads(next))) = Len(Loads(next))
    BY <1>4, IntervalSize
  <2>3. IsFiniteSet(W) /\ Cardinality(W) <= Len(Loads(next)) /\ Cardinality(W) \in Nat
    BY <2>1, <2>2, FS_Subset, FS_CardinalityType
  <2>4. Cardinality(Slot \ Occupied) \in Nat
    BY <1>3, QueueFacts, FS_Difference, FS_CardinalityType
  <2>5. Cardinality(W) <= Cardinality(Slot \ Occupied)
    BY <1>2, <1>4, <2>3, <2>4
  <2> HIDE DEF Waiting, slot, source
  <2> QED BY <1>3, <1>6, <2>1, <2>3, <2>5, SlotsTaken
<1>11. W = {k \in DOMAIN Loads(next) : g[k] = None \/ ~SQ[g[k]].fetch_issued}
  BY <1>5, <1>9
<1>12. Done = DOMAIN Loads(next) \ W
  BY <1>5
<1> HIDE DEF source, slot, Done, Waiting
<1>13. ASSUME NEW k \in W PROVE load(k) = NewLoad(k, g)
  BY <1>9, <1>11, <1>13 DEF NewLoad
<1> HIDE DEF load
<1>14. ASSUME NEW k \in W PROVE LQ'[f[k]] = NewLoad(k, g)
  <2>1. f[k] \in Slot /\ slot(k) = f[k]
    BY <1>8, <1>10
  <2>2. PICK c : c = (CHOOSE j \in Waiting : slot(j) = f[k])
    OBVIOUS
  <2>3. c \in Waiting /\ slot(c) = f[k]
    BY <1>5, <2>1, <2>2
  <2>4. c = k
    BY <1>5, <1>8, <1>10, <2>3
  <2>5. LQ'[f[k]] = load(CHOOSE j \in Waiting : slot(j) = f[k])
    BY <1>1, <1>5, <2>1
  <2> QED BY <1>13, <2>2, <2>4, <2>5
<1>15. ASSUME NEW s \in Slot, \A k \in W : f[k] # s PROVE LQ'[s] = LQ[s]
  BY <1>1, <1>5, <1>8, <1>15
<1>16. LQ' = [s \in Slot |-> LQ'[s]]
  BY <1>1
<1>17. SQ' = [q \in DOMAIN SQ |->
               [SQ[q] EXCEPT !.lq_depend_on_me = @ \cup {f[k] : k \in {j \in W : g[j] = q}}]]
             \o [k \in DOMAIN Stores(next) |-> NewStore(k)]
  <2>1. ASSUME NEW q \in DOMAIN SQ
        PROVE  {slot(k) : k \in {j \in Waiting : source(j) = q}} = {f[k] : k \in {j \in W : g[j] = q}}
    <3>1. {j \in Waiting : source(j) = q} = {j \in W : g[j] = q}
      BY <1>5, <1>9, <1>11
    <3> QED BY <1>8, <3>1
  <2>2. [q \in DOMAIN SQ |->
           [SQ[q] EXCEPT !.lq_depend_on_me =
              @ \cup {slot(k) : k \in {j \in Waiting : source(j) = q}}]]
        = [q \in DOMAIN SQ |->
             [SQ[q] EXCEPT !.lq_depend_on_me = @ \cup {f[k] : k \in {j \in W : g[j] = q}}]]
    BY <2>1
  <2>3. [k \in DOMAIN Stores(next) |-> store(k)] = [k \in DOMAIN Stores(next) |-> NewStore(k)]
    BY DEF NewStore
  <2> HIDE DEF store
  <2> QED BY <1>1, <2>2, <2>3
<1>18. ROB' = Append(ROB, [id |-> next, executed |-> FALSE, completed |-> FALSE, wait |-> Never,
                           completed_mem_ops |-> Cardinality(DOMAIN Loads(next) \ W)])
  BY <1>1, <1>12
<1>19. Dispatched(W, f, g)
  BY <1>1, <1>9, <1>10, <1>11, <1>14, <1>15, <1>16, <1>17, <1>18 DEF Dispatched
<1> QED BY <1>19
(* The queues after the dispatch of the instruction `next'. *)
LEMMA DispatchedQueues ==
  ASSUME LSQInv, next <= Len(program), NEW W, NEW f, NEW g, Dispatched(W, f, g)
  PROVE  /\ SQ' \in Seq(Store) /\ DOMAIN SQ' = 1 .. Len(SQ) + Len(Stores(next))
         /\ Len(SQ) \in Nat /\ Len(Stores(next)) \in Nat /\ DOMAIN SQ = 1 .. Len(SQ)
         /\ \A q \in DOMAIN SQ :
              /\ q \in DOMAIN SQ' /\ SQ'[q].id = SQ[q].id /\ SQ'[q].addr = SQ[q].addr
              /\ SQ'[q].fetch_issued = SQ[q].fetch_issued
              /\ SQ'[q].lq_depend_on_me =
                   SQ[q].lq_depend_on_me \cup {f[k] : k \in {j \in W : g[j] = q}}
         /\ \A q \in DOMAIN SQ' : q \notin DOMAIN SQ =>
              SQ'[q].id = next /\ ~SQ'[q].fetch_issued /\ SQ'[q].lq_depend_on_me = {}
<1>1. TypeInv /\ next \in Nat \ {0}
  BY DEF LSQInv, TypeInv
<1>2. /\ Len(Stores(next)) \in Nat /\ DOMAIN Stores(next) = 1 .. Len(Stores(next))
      /\ \A k \in DOMAIN Stores(next) : Stores(next)[k] \in Address
  <2>1. Stores(next) \in Seq(Address)
    BY <1>1, ProgramTypes
  <2> QED BY <1>1, <2>1, ProgramTypes
<1>3. /\ Len(SQ) \in Nat /\ DOMAIN SQ = 1 .. Len(SQ) /\ \A q \in DOMAIN SQ : SQ[q] \in Store
  BY <1>1, QueueFacts
<1> DEFINE m == Len(SQ)
           n == Len(Stores(next))
           Old == [q \in DOMAIN SQ |->
                    [SQ[q] EXCEPT !.lq_depend_on_me = @ \cup {f[k] : k \in {j \in W : g[j] = q}}]]
           New == [k \in DOMAIN Stores(next) |-> NewStore(k)]
<1>4. m \in Nat /\ n \in Nat /\ DOMAIN SQ = 1 .. m /\ DOMAIN Stores(next) = 1 .. n
  BY <1>2, <1>3
<1>5. SQ' = Old \o New
  BY DEF Dispatched
<1>6. ASSUME NEW q \in 1 .. m
      PROVE  /\ Old[q].id = SQ[q].id /\ Old[q].addr = SQ[q].addr
             /\ Old[q].fetch_issued = SQ[q].fetch_issued
             /\ Old[q].lq_depend_on_me =
                  SQ[q].lq_depend_on_me \cup {f[k] : k \in {j \in W : g[j] = q}}
             /\ Old[q] \in Store
  <2>1. PICK D : D = {f[k] : k \in {j \in W : g[j] = q}}
    OBVIOUS
  <2>2. D \in SUBSET Slot
    BY <2>1 DEF Dispatched
  <2>3. Old[q] = [SQ[q] EXCEPT !.lq_depend_on_me = @ \cup D]
    BY <1>4, <2>1
  <2>4. SQ[q] \in Store
    BY <1>3, <1>4
  <2>5. PICK T : T = SQ[q].lq_depend_on_me \cup D
    OBVIOUS
  <2>6. Old[q] = [SQ[q] EXCEPT !.lq_depend_on_me = T] /\ T \in SUBSET Slot
    BY <2>2, <2>3, <2>4, <2>5 DEF Store
  <2> HIDE DEF Old
  <2>7. /\ Old[q].id = SQ[q].id /\ Old[q].addr = SQ[q].addr
        /\ Old[q].fetch_issued = SQ[q].fetch_issued
        /\ Old[q].lq_depend_on_me = T
        /\ Old[q] \in Store
    BY <2>4, <2>6 DEF Store
  <2> QED BY <2>1, <2>5, <2>7
<1>7. ASSUME NEW k \in 1 .. n
      PROVE  /\ New[k].id = next /\ New[k].fetch_issued = FALSE /\ New[k].lq_depend_on_me = {}
             /\ New[k] \in Store
  <2>1. New[k] = [id |-> next, addr |-> Stores(next)[k], wait |-> Never,
                  fetch_issued |-> FALSE, lq_depend_on_me |-> {}]
    BY <1>4 DEF NewStore
  <2>2. Stores(next)[k] \in Address /\ Never \in Int
    BY <1>2, <1>4, LSQAssumption DEF Never
  <2> HIDE DEF New
  <2> QED BY <1>1, <2>1, <2>2 DEF Store
<1>8. Old \in Seq(Store) /\ Len(Old) = m
  <2>1. Old \in [1 .. m -> Store] /\ DOMAIN Old = 1 .. m
    BY <1>4, <1>6
  <2> HIDE DEF Old, m
  <2> QED BY <1>4, <2>1
<1>9. New \in Seq(Store) /\ Len(New) = n
  <2>1. New \in [1 .. n -> Store] /\ DOMAIN New = 1 .. n
    BY <1>4, <1>7
  <2> HIDE DEF New, n
  <2> QED BY <1>4, <2>1
<1> HIDE DEF Old, New
<1>10. /\ SQ' \in Seq(Store) /\ Len(SQ') = m + n
       /\ \A q \in 1 .. m + n : SQ'[q] = IF q <= m THEN Old[q] ELSE New[q - m]
  <2> HIDE DEF m, n
  <2> QED BY <1>4, <1>5, <1>8, <1>9, ConcatProperties
<1> HIDE DEF m, n
<1>11. DOMAIN SQ' = 1 .. m + n
  BY <1>4, <1>10
<1>12. ASSUME NEW q \in DOMAIN SQ
       PROVE  /\ q \in DOMAIN SQ' /\ SQ'[q].id = SQ[q].id /\ SQ'[q].addr = SQ[q].addr
              /\ SQ'[q].fetch_issued = SQ[q].fetch_issued
              /\ SQ'[q].lq_depend_on_me =
                   SQ[q].lq_depend_on_me \cup {f[k] : k \in {j \in W : g[j] = q}}
  <2>1. q \in 1 .. m /\ q \in 1 .. m + n /\ q <= m
    BY <1>4
  <2>2. SQ'[q] = Old[q]
    BY <1>10, <2>1
  <2> QED BY <1>6, <1>11, <2>1, <2>2
<1>13. ASSUME NEW q \in DOMAIN SQ', q \notin DOMAIN SQ
       PROVE  SQ'[q].id = next /\ ~SQ'[q].fetch_issued /\ SQ'[q].lq_depend_on_me = {}
  <2>1. q \in 1 .. m + n /\ ~(q <= m) /\ q - m \in 1 .. n
    BY <1>4, <1>11, <1>13
  <2>2. SQ'[q] = New[q - m]
    BY <1>10, <2>1
  <2> QED BY <1>7, <2>1, <2>2
<1> QED BY <1>3, <1>4, <1>10, <1>11, <1>12, <1>13 DEF m, n

LEMMA DispatchedSlots ==
  ASSUME LSQInv, next <= Len(program), NEW W, NEW f, NEW g, Dispatched(W, f, g)
  PROVE  /\ LQ' \in [Slot -> Load \cup {Empty}]
         /\ Occupied' = Occupied \cup {f[k] : k \in W}
         /\ \A s \in Occupied : LQ'[s] = LQ[s] /\ \A k \in W : f[k] # s
         /\ \A k \in W : /\ f[k] \in Slot /\ f[k] \notin Occupied /\ k \in DOMAIN Loads(next)
                         /\ LQ'[f[k]] = NewLoad(k, g) /\ LQ'[f[k]] # Empty
<1>1. TypeInv /\ next \in Nat \ {0}
  BY DEF LSQInv, TypeInv
<1>2. \A k \in DOMAIN Loads(next) : Loads(next)[k] \in Address
  <2>1. Loads(next) \in Seq(Address)
    BY <1>1, ProgramTypes
  <2> QED BY <2>1
<1>3. \A x \in Load : x # Empty
  <2>1. \A x \in Load : x.id # 0
    BY DEF Load
  <2>2. Empty.id = 0
    BY DEF Empty, None
  <2> QED BY <2>1, <2>2
<1>4. ASSUME NEW k \in W
      PROVE  /\ f[k] \in Slot /\ f[k] \notin Occupied /\ k \in DOMAIN Loads(next)
             /\ LQ'[f[k]] = NewLoad(k, g) /\ NewLoad(k, g) \in Load
  <2>1. /\ f[k] \in Slot /\ f[k] \notin Occupied /\ k \in DOMAIN Loads(next)
        /\ LQ'[f[k]] = NewLoad(k, g) /\ Found(g[k], Loads(next)[k])
    BY DEF Dispatched
  <2>2. PICK p : p = IF g[k] = None THEN None ELSE SQ[g[k]].id
    OBVIOUS
  <2>3. p \in Nat
    <3>1. \A q \in DOMAIN SQ : SQ[q].id \in Nat
      BY <1>1, QueueFacts DEF Store
    <3> QED BY <2>1, <2>2, <3>1 DEF Found, None
  <2>4. NewLoad(k, g) = [id |-> next, addr |-> Loads(next)[k], wait |-> Never,
                         fetch_issued |-> FALSE, producer_id |-> p]
    BY <2>2 DEF NewLoad
  <2>5. Loads(next)[k] \in Address /\ Never \in Int
    BY <1>2, <2>1, LSQAssumption DEF Never
  <2>6. NewLoad(k, g) \in Load
    BY <1>1, <2>3, <2>4, <2>5 DEF Load
  <2> QED BY <2>1, <2>6
<1>5. ASSUME NEW s \in Slot, \A k \in W : f[k] # s PROVE LQ'[s] = LQ[s]
  BY <1>5 DEF Dispatched
<1>6. ASSUME NEW s \in Occupied PROVE LQ'[s] = LQ[s] /\ \A k \in W : f[k] # s
  BY <1>4, <1>5 DEF Occupied
<1>7. LQ' = [s \in Slot |-> LQ'[s]]
  BY DEF Dispatched
<1>8. ASSUME NEW s \in Slot PROVE LQ'[s] \in Load \cup {Empty}
  BY <1>1, <1>4, <1>5 DEF TypeInv
<1>9. LQ' \in [Slot -> Load \cup {Empty}]
  BY <1>7, <1>8
<1>10. ASSUME NEW s \in Slot PROVE s \in Occupied' <=> s \in Occupied \cup {f[k] : k \in W}
  <2>1. CASE \A k \in W : f[k] # s
    BY <1>5, <2>1 DEF Occupied
  <2>2. CASE \E k \in W : f[k] = s
    <3>1. LQ'[s] # Empty
      BY <1>3, <1>4, <2>2
    <3> QED BY <2>2, <3>1 DEF Occupied
  <2> QED BY <2>1, <2>2
<1>11. Occupied' \subseteq Slot /\ Occupied \subseteq Slot /\ {f[k] : k \in W} \subseteq Slot
  BY <1>4 DEF Occupied
<1>12. Occupied' = Occupied \cup {f[k] : k \in W}
  BY <1>10, <1>11
<1> QED BY <1>3, <1>4, <1>6, <1>9, <1>12

LEMMA DispatchedEntries ==
  ASSUME LSQInv, NEW W, NEW f, NEW g, Dispatched(W, f, g), next <= Len(program)
  PROVE  /\ ROB' \in Seq(RobEntry) /\ Len(ROB') = Len(ROB) + 1
         /\ Len(ROB) \in Nat /\ DOMAIN ROB = 1 .. Len(ROB) /\ DOMAIN ROB' = 1 .. Len(ROB) + 1
         /\ \A i \in DOMAIN ROB : i \in DOMAIN ROB' /\ ROB'[i] = ROB[i]
         /\ ROB'[Len(ROB) + 1].id = next /\ ROB'[Len(ROB) + 1].completed = FALSE
         /\ ROB'[Len(ROB) + 1].completed_mem_ops = Cardinality(DOMAIN Loads(next) \ W)
         /\ IsFiniteSet(W) /\ Cardinality(W) \in Nat
         /\ Cardinality(DOMAIN Loads(next) \ W) \in Nat
         /\ Cardinality(DOMAIN Loads(next) \ W) + Cardinality(W) = Len(Loads(next))
<1>1. TypeInv /\ next \in Nat \ {0} /\ Never \in Int
  BY LSQAssumption DEF LSQInv, TypeInv, Never
<1>2. ROB \in Seq(RobEntry) /\ Len(ROB) \in Nat /\ DOMAIN ROB = 1 .. Len(ROB)
  BY <1>1 DEF TypeInv
<1>3. /\ IsFiniteSet(W) /\ Cardinality(W) \in Nat
      /\ Cardinality(DOMAIN Loads(next) \ W) \in Nat
      /\ Cardinality(DOMAIN Loads(next) \ W) + Cardinality(W) = Len(Loads(next))
  <2>1. Len(Loads(next)) \in Nat /\ DOMAIN Loads(next) = 1 .. Len(Loads(next))
    BY <1>1, ProgramTypes
  <2>2. IsFiniteSet(DOMAIN Loads(next)) /\ Cardinality(DOMAIN Loads(next)) = Len(Loads(next))
    BY <2>1, IntervalSize
  <2>3. W \in SUBSET DOMAIN Loads(next)
    BY DEF Dispatched
  <2> QED BY <2>2, <2>3, TakenOut
<1> DEFINE e == [id |-> next, executed |-> FALSE, completed |-> FALSE, wait |-> Never,
                 completed_mem_ops |-> Cardinality(DOMAIN Loads(next) \ W)]
<1>4. e \in RobEntry
  BY <1>1, <1>3 DEF RobEntry
<1>5. ROB' = Append(ROB, e)
  BY DEF Dispatched
<1>6. e.id = next /\ e.completed = FALSE
      /\ e.completed_mem_ops = Cardinality(DOMAIN Loads(next) \ W)
  OBVIOUS
<1> HIDE DEF e
<1>7. /\ ROB' \in Seq(RobEntry) /\ Len(ROB') = Len(ROB) + 1
      /\ ROB'[Len(ROB) + 1] = e /\ \A i \in 1 .. Len(ROB) : ROB'[i] = ROB[i]
  BY <1>2, <1>4, <1>5, AppendProperties
<1>8. DOMAIN ROB' = 1 .. Len(ROB) + 1
  BY <1>7
<1>9. \A i \in DOMAIN ROB : i \in DOMAIN ROB'
  BY <1>2, <1>8
<1> QED BY <1>2, <1>3, <1>6, <1>7, <1>8, <1>9
LEMMA DispatchedOlder ==
  ASSUME LSQInv, NEW W, NEW f, NEW g, Dispatched(W, f, g), next <= Len(program)
  PROVE  /\ Unissued' = Unissued \cup (DOMAIN SQ' \ DOMAIN SQ)
         /\ \A s \in Occupied : OlderStores(s)' = OlderStores(s)
         /\ \A k \in W : OlderStores(f[k])' = {q \in DOMAIN SQ : SQ[q].addr = Loads(next)[k]}
<1>1. next \in Nat /\ \A q \in DOMAIN SQ : SQ[q].id \in Nat /\ SQ[q].id < next
  BY QueueFacts DEF LSQInv, TypeInv, IdsOlder, Store
<1>2. \A s \in Occupied : LQ[s].id \in Nat /\ LQ[s].id < next
  BY QueueFacts DEF LSQInv, IdsOlder
<1>3. /\ \A q \in DOMAIN SQ :
           /\ q \in DOMAIN SQ' /\ SQ'[q].id = SQ[q].id /\ SQ'[q].addr = SQ[q].addr
           /\ SQ'[q].fetch_issued = SQ[q].fetch_issued
      /\ \A q \in DOMAIN SQ' : q \notin DOMAIN SQ => SQ'[q].id = next /\ ~SQ'[q].fetch_issued
  BY DispatchedQueues
<1>4. Unissued' = Unissued \cup (DOMAIN SQ' \ DOMAIN SQ)
  BY <1>3 DEF Unissued
<1>5. ASSUME NEW s \in Occupied PROVE OlderStores(s)' = OlderStores(s)
  <2>1. LQ'[s] = LQ[s]
    BY DispatchedSlots
  <2>2. ASSUME NEW q \in DOMAIN SQ' PROVE q \in OlderStores(s)' <=> q \in OlderStores(s)
    BY <1>1, <1>2, <1>3, <2>1 DEF OlderStores
  <2>3. OlderStores(s)' \subseteq DOMAIN SQ' /\ OlderStores(s) \subseteq DOMAIN SQ'
    BY <1>3 DEF OlderStores
  <2> QED BY <2>2, <2>3
<1>6. ASSUME NEW k \in W
      PROVE  OlderStores(f[k])' = {q \in DOMAIN SQ : SQ[q].addr = Loads(next)[k]}
  <2>1. LQ'[f[k]].id = next /\ LQ'[f[k]].addr = Loads(next)[k]
    <3>1. LQ'[f[k]] = NewLoad(k, g)
      BY DispatchedSlots
    <3> QED BY <3>1 DEF NewLoad
  <2>2. PICK s : s = f[k]
    OBVIOUS
  <2>3. OlderStores(s)' = {q \in DOMAIN SQ' : SQ'[q].addr = Loads(next)[k] /\ SQ'[q].id < next}
    BY <2>1, <2>2 DEF OlderStores
  <2> QED BY <1>1, <1>3, <2>2, <2>3
<1> QED BY <1>4, <1>5, <1>6

LEMMA DispatchedDependents ==
  ASSUME LSQInv, NEW W, NEW f, NEW g, Dispatched(W, f, g), next <= Len(program)
  PROVE  DependentsKnown' /\ DependentsWait'
<1>1. /\ \A q \in DOMAIN SQ :
           /\ q \in DOMAIN SQ' /\ SQ'[q].id = SQ[q].id /\ SQ'[q].fetch_issued = SQ[q].fetch_issued
           /\ SQ'[q].lq_depend_on_me =
                SQ[q].lq_depend_on_me \cup {f[k] : k \in {j \in W : g[j] = q}}
      /\ \A q \in DOMAIN SQ' : q \notin DOMAIN SQ => SQ'[q].lq_depend_on_me = {}
      /\ \A q \in DOMAIN SQ : q # None
  BY DispatchedQueues DEF None
<1>2. /\ Occupied' = Occupied \cup {f[k] : k \in W}
      /\ \A s \in Occupied : LQ'[s] = LQ[s] /\ \A k \in W : f[k] # s
      /\ \A k \in W : /\ f[k] \notin Occupied /\ k \in DOMAIN Loads(next)
                      /\ LQ'[f[k]] = NewLoad(k, g) /\ LQ'[f[k]] # Empty
  BY DispatchedSlots
<1>3. /\ Unissued' = Unissued \cup (DOMAIN SQ' \ DOMAIN SQ) /\ Unissued \subseteq DOMAIN SQ
      /\ \A s \in Occupied : OlderStores(s)' = OlderStores(s)
      /\ \A k \in W : OlderStores(f[k])' = {q \in DOMAIN SQ : SQ[q].addr = Loads(next)[k]}
  BY DispatchedOlder DEF Unissued
<1>4. \A k \in DOMAIN Loads(next) : Found(g[k], Loads(next)[k])
  BY DEF Dispatched
<1>5. ASSUME NEW q \in Unissued', NEW s \in SQ'[q].lq_depend_on_me
      PROVE  /\ s \in Occupied' /\ q \in OlderStores(s)'
             /\ LQ'[s] # Empty /\ LQ'[s].producer_id = SQ'[q].id
             /\ q \in Unissued
             /\ s \in SQ[q].lq_depend_on_me \/ \E k \in W : g[k] = q /\ s = f[k]
  <2>1. q \in Unissued /\ q \in DOMAIN SQ
    BY <1>1, <1>3
  <2>2. CASE s \in SQ[q].lq_depend_on_me
    <3>1. s \in Occupied /\ q \in OlderStores(s) /\ LQ[s] # Empty /\ LQ[s].producer_id = SQ[q].id
      BY <2>1, <2>2 DEF LSQInv, DependentsKnown, DependentsWait, Unissued
    <3> QED BY <1>1, <1>2, <1>3, <2>1, <2>2, <3>1
  <2>3. CASE \E k \in W : g[k] = q /\ s = f[k]
    <3>1. PICK k \in W : g[k] = q /\ s = f[k]
      BY <2>3
    <3>2. k \in DOMAIN Loads(next) /\ g[k] # None
      BY <1>1, <1>2, <2>1, <3>1
    <3>3. SQ[q].addr = Loads(next)[k]
      BY <1>4, <3>1, <3>2 DEF Found
    <3>4. q \in OlderStores(f[k])'
      BY <1>3, <2>1, <3>3
    <3>5. LQ'[f[k]].producer_id = SQ[q].id
      BY <1>2, <3>1, <3>2, NewLoadFields
    <3>6. OlderStores(s)' = OlderStores(f[k])'
      <4>1. LQ'[s] = LQ'[f[k]]
        BY <3>1
      <4> QED BY <3>1
    <3> QED BY <1>1, <1>2, <2>1, <3>1, <3>4, <3>5, <3>6
  <2>4. s \in SQ[q].lq_depend_on_me \/ \E k \in W : g[k] = q /\ s = f[k]
    BY <1>1, <2>1
  <2> QED BY <2>2, <2>3, <2>4
<1>6. ASSUME NEW q \in Unissued', NEW r \in Unissued', q # r,
             NEW s \in SQ'[q].lq_depend_on_me, s \in SQ'[r].lq_depend_on_me
      PROVE  FALSE
  <2>1. /\ q \in Unissued /\ r \in Unissued
        /\ s \in SQ[q].lq_depend_on_me \/ \E k \in W : g[k] = q /\ s = f[k]
        /\ s \in SQ[r].lq_depend_on_me \/ \E k \in W : g[k] = r /\ s = f[k]
    BY <1>5, <1>6
  <2>2. s \in SQ[q].lq_depend_on_me => s \in Occupied
    BY <2>1 DEF LSQInv, DependentsKnown
  <2>3. s \in SQ[r].lq_depend_on_me => s \in Occupied
    BY <2>1 DEF LSQInv, DependentsKnown
  <2>4. \A j, k \in W : f[j] = f[k] => j = k
    BY DEF Dispatched
  <2>5. ~(s \in SQ[q].lq_depend_on_me /\ s \in SQ[r].lq_depend_on_me)
    BY <1>6, <2>1 DEF LSQInv, DependentsKnown
  <2> QED BY <1>2, <1>6, <2>1, <2>2, <2>3, <2>4, <2>5
<1>7. ASSUME NEW s \in Occupied', LQ'[s].producer_id # None
      PROVE  \E q \in Unissued' : s \in SQ'[q].lq_depend_on_me
  <2>1. CASE s \in Occupied
    <3>1. LQ[s].producer_id # None
      BY <1>2, <1>7, <2>1
    <3>2. PICK q \in Unissued : s \in SQ[q].lq_depend_on_me
      BY <2>1, <3>1 DEF LSQInv, DependentsKnown
    <3> QED BY <1>1, <1>3, <3>2
  <2>2. CASE s \notin Occupied
    <3>1. PICK k \in W : s = f[k]
      BY <1>2, <2>2
    <3>2. g[k] # None
      BY <1>2, <1>7, <3>1, NewLoadFields
    <3>3. g[k] \in DOMAIN SQ /\ ~SQ[g[k]].fetch_issued
      BY <1>2, <1>4, <3>2 DEF Found, Dispatched
    <3>4. g[k] \in Unissued'
      BY <1>3, <3>3 DEF Unissued
    <3> QED BY <1>1, <3>1, <3>3, <3>4
  <2> QED BY <2>1, <2>2
<1>8. DependentsWait'
  BY <1>5 DEF DependentsWait, Unissued
<1>9. DependentsKnown'
  BY <1>5, <1>6, <1>7 DEF DependentsKnown
<1> QED BY <1>8, <1>9

LEMMA DispatchedLoads ==
  ASSUME LSQInv, NEW W, NEW f, NEW g, Dispatched(W, f, g), next <= Len(program)
  PROVE  LoadWaitsForYoungestStore'
<1>1. \A q \in DOMAIN SQ : SQ'[q].id = SQ[q].id /\ SQ[q].id \in Nat /\ q # None
  <2>1. \A q \in DOMAIN SQ : SQ'[q].id = SQ[q].id
    BY DispatchedQueues
  <2>2. Len(SQ) \in Nat /\ DOMAIN SQ = 1 .. Len(SQ) /\ \A q \in DOMAIN SQ : SQ[q] \in Store
    BY QueueFacts DEF LSQInv
  <2>3. \A q \in DOMAIN SQ : SQ[q].id \in Nat
    BY <2>2 DEF Store
  <2>4. \A q \in DOMAIN SQ : q # None
    BY <2>2 DEF None
  <2> QED BY <2>1, <2>3, <2>4
<1>2. /\ Occupied' = Occupied \cup {f[k] : k \in W}
      /\ \A s \in Occupied : LQ'[s] = LQ[s]
      /\ \A k \in W : k \in DOMAIN Loads(next) /\ LQ'[f[k]] = NewLoad(k, g)
  BY DispatchedSlots
<1>3. /\ \A s \in Occupied : OlderStores(s)' = OlderStores(s)
      /\ \A k \in W : OlderStores(f[k])' = {q \in DOMAIN SQ : SQ[q].addr = Loads(next)[k]}
  BY DispatchedOlder
<1> SUFFICES ASSUME NEW s \in Occupied'
             PROVE  /\ LQ'[s].producer_id =
                         IF OlderStores(s)' = {} THEN None
                         ELSE Greatest({SQ'[q].id : q \in OlderStores(s)'})
                    /\ LQ'[s].fetch_issued => OlderStores(s)' = {}
  BY DEF LoadWaitsForYoungestStore
<1>4. CASE s \in Occupied
  <2>1. {SQ'[q].id : q \in OlderStores(s)} = {SQ[q].id : q \in OlderStores(s)}
    BY <1>1 DEF OlderStores
  <2> QED BY <1>2, <1>3, <1>4, <2>1 DEF LoadWaitsForYoungestStore, LSQInv
<1>5. CASE s \notin Occupied
  <2>1. PICK k \in W : s = f[k]
    BY <1>2, <1>5
  <2>2. PICK O : O = {q \in DOMAIN SQ : SQ[q].addr = Loads(next)[k]}
    OBVIOUS
  <2>3. OlderStores(s)' = O
    BY <1>3, <2>1, <2>2
  <2>4. LQ'[s] = NewLoad(k, g) /\ Found(g[k], Loads(next)[k])
    BY <1>2, <2>1 DEF Dispatched
  <2>5. ~LQ'[s].fetch_issued
    BY <2>4 DEF NewLoad
  <2>6. CASE g[k] = None
    <3>1. O = {}
      BY <2>2, <2>4, <2>6 DEF Found
    <3>2. LQ'[s].producer_id = None
      BY <2>4, <2>6 DEF NewLoad
    <3> QED BY <2>3, <2>5, <3>1, <3>2
  <2>7. CASE g[k] # None
    <3>1. g[k] \in O /\ \A r \in O : SQ[r].id <= SQ[g[k]].id
      BY <2>2, <2>4, <2>7 DEF Found
    <3> DEFINE Ids == {SQ'[q].id : q \in O}
    <3>2. Ids \in SUBSET Nat /\ SQ[g[k]].id \in Ids /\ \A i \in Ids : i <= SQ[g[k]].id
      BY <1>1, <2>2, <3>1
    <3>3. Greatest(Ids) = SQ[g[k]].id
      BY <3>2, GreatestIs
    <3>4. LQ'[s].producer_id = SQ[g[k]].id
      BY <2>4, <2>7 DEF NewLoad
    <3> QED BY <2>3, <2>5, <3>1, <3>3, <3>4
  <2> QED BY <2>6, <2>7
<1> QED BY <1>4, <1>5

LEMMA DispatchedConserved ==
  ASSUME LSQInv, NEW W, NEW f, NEW g, Dispatched(W, f, g), next <= Len(program)
  PROVE  MemOpsConserved'
<1>1. /\ Occupied' = Occupied \cup {f[k] : k \in W}
      /\ \A s \in Occupied : LQ'[s] = LQ[s] /\ LQ[s].id # next
      /\ \A k \in W : LQ'[f[k]].id = next /\ f[k] \notin Occupied
  <2>1. \A s \in Occupied : LQ[s].id # next
    BY QueueFacts DEF LSQInv, TypeInv, IdsOlder
  <2>2. \A k \in W : LQ'[f[k]].id = next
    BY DispatchedSlots, NewLoadFields
  <2> QED BY <2>1, <2>2, DispatchedSlots
<1>2. /\ \A q \in DOMAIN SQ : q \in DOMAIN SQ' /\ SQ'[q].id = SQ[q].id /\ SQ[q].id # next
      /\ \A q \in DOMAIN SQ' : q \notin DOMAIN SQ => SQ'[q].id = next
      /\ Unissued' = Unissued \cup (DOMAIN SQ' \ DOMAIN SQ) /\ Unissued \subseteq DOMAIN SQ
  <2>1. \A q \in DOMAIN SQ : SQ[q].id # next
    BY QueueFacts DEF LSQInv, TypeInv, IdsOlder, Store
  <2> QED BY <2>1, DispatchedQueues, DispatchedOlder DEF Unissued
<1>3. ASSUME NEW id, id # next PROVE LoadsOf(id)' = LoadsOf(id) /\ StoresOf(id)' = StoresOf(id)
  <2>1. LoadsOf(id)' = LoadsOf(id)
    BY <1>1, <1>3 DEF LoadsOf
  <2>2. StoresOf(id)' = StoresOf(id)
    BY <1>2, <1>3 DEF StoresOf
  <2> QED BY <2>1, <2>2
<1>4. PICK n : n = next
  OBVIOUS
<1>5. LoadsOf(n)' = {f[k] : k \in W} /\ StoresOf(n)' = DOMAIN SQ' \ DOMAIN SQ
  <2>1. LoadsOf(n)' = {f[k] : k \in W}
    BY <1>1, <1>4 DEF LoadsOf
  <2>2. StoresOf(n)' = DOMAIN SQ' \ DOMAIN SQ
    BY <1>2, <1>4 DEF StoresOf
  <2> QED BY <2>1, <2>2
<1>6. Cardinality(LoadsOf(n)') = Cardinality(W)
  <2>1. PICK T : T = {f[k] : k \in W}
    OBVIOUS
  <2>2. f \in [W -> T] /\ \A j, k \in W : f[j] = f[k] => j = k
    BY <2>1 DEF Dispatched
  <2>3. f \in Bijection(W, T)
    BY <2>1, <2>2 DEF Bijection, Injection, IsInjective, Surjection
  <2>4. ExistsBijection(W, T) /\ IsFiniteSet(W)
    BY <2>3, DispatchedEntries DEF ExistsBijection
  <2>5. Cardinality(T) = Cardinality(W)
    BY <2>4, FS_Bijection
  <2> QED BY <1>5, <2>1, <2>5
<1>7. Cardinality(StoresOf(n)') = Len(Stores(next))
  <2>1. PICK a, b : a = Len(SQ) /\ b = Len(Stores(next))
    OBVIOUS
  <2>2. a \in Nat /\ b \in Nat /\ DOMAIN SQ' = 1 .. a + b /\ DOMAIN SQ = 1 .. a
    BY <2>1, DispatchedQueues
  <2>3. DOMAIN SQ' \ DOMAIN SQ = a + 1 .. a + b
    BY <2>2
  <2>4. Cardinality(a + 1 .. a + b) = IF a + 1 > a + b THEN 0 ELSE (a + b) - (a + 1) + 1
    BY <2>2, FS_Interval
  <2>5. (IF a + 1 > a + b THEN 0 ELSE (a + b) - (a + 1) + 1) = b
    BY <2>2
  <2> QED BY <1>5, <2>1, <2>3, <2>4, <2>5
<1>8. \A id : num_mem_ops(id)' = num_mem_ops(id)
  BY DEF num_mem_ops, Loads, Stores, Dispatched
<1>9. ASSUME NEW i \in DOMAIN ROB'
      PROVE  (ROB[i].completed_mem_ops + Cardinality(LoadsOf(ROB[i].id))
                + Cardinality(StoresOf(ROB[i].id)) = num_mem_ops(ROB[i].id))'
  <2>1. PICK id : id = ROB'[i].id
    OBVIOUS
  <2>2. /\ LoadsOf(ROB[i].id)' = LoadsOf(id)' /\ StoresOf(ROB[i].id)' = StoresOf(id)'
        /\ num_mem_ops(ROB[i].id)' = num_mem_ops(id)
    BY <1>8, <2>1 DEF LoadsOf, StoresOf, num_mem_ops, Loads, Stores
  <2>3. CASE i \in DOMAIN ROB
    <3>1. ROB'[i] = ROB[i]
      BY <2>3, DispatchedEntries
    <3>2. id = ROB[i].id /\ id # next
      <4>1. ROB[i].id = next - 1 - Len(ROB) + i /\ next \in Nat /\ Len(ROB) \in Nat /\ i \in 1 .. Len(ROB)
        BY <2>3, DispatchedEntries DEF LSQInv, IdsConsecutive, TypeInv
      <4>2. ROB[i].id # next
        BY <4>1
      <4> QED BY <2>1, <3>1, <4>2
    <3>3. LoadsOf(id)' = LoadsOf(id) /\ StoresOf(id)' = StoresOf(id)
      BY <1>3, <3>2
    <3>4. ROB[i].completed_mem_ops + Cardinality(LoadsOf(id)) + Cardinality(StoresOf(id))
            = num_mem_ops(id)
      BY <2>3, <3>2, Conservation DEF LSQInv
    <3> QED BY <2>2, <3>1, <3>3, <3>4
  <2>4. CASE i \notin DOMAIN ROB
    <3>1. i = Len(ROB) + 1
      <4>1. i \in 1 .. Len(ROB) + 1 /\ i \notin 1 .. Len(ROB) /\ Len(ROB) \in Nat
        BY <2>4, DispatchedEntries
      <4> QED BY <4>1
    <3>2. id = n /\ ROB'[i].completed_mem_ops = Cardinality(DOMAIN Loads(next) \ W)
      BY <1>4, <2>1, <3>1, DispatchedEntries
    <3>3. PICK d, w, t : /\ d = Cardinality(DOMAIN Loads(next) \ W) /\ w = Cardinality(W)
                         /\ t = Len(Stores(next))
      OBVIOUS
    <3>4. d \in Nat /\ w \in Nat /\ t \in Nat /\ d + w = Len(Loads(next))
      BY <3>3, DispatchedEntries, DispatchedQueues
    <3>5. num_mem_ops(id) = d + w + t
      BY <1>4, <3>2, <3>3, <3>4 DEF num_mem_ops
    <3>6. Cardinality(LoadsOf(id)') = w /\ Cardinality(StoresOf(id)') = t
      BY <1>6, <1>7, <3>2, <3>3
    <3> QED BY <2>2, <3>2, <3>3, <3>5, <3>6
  <2> QED BY <2>3, <2>4
<1>10. (\A i \in DOMAIN ROB :
          ROB[i].completed_mem_ops + Cardinality(LoadsOf(ROB[i].id))
            + Cardinality(StoresOf(ROB[i].id)) = num_mem_ops(ROB[i].id))'
  BY <1>9
<1> QED BY <1>10, Conservation, PTL

LEMMA DispatchLSQ == ASSUME LSQInv, Dispatch PROVE LSQInv'
<1>1. PICK W, f, g : Dispatched(W, f, g)
  BY DispatchFacts
<1>2. next <= Len(program)
  BY DEF Dispatch
<1>3. next' = next + 1 /\ program' = program
  BY <1>1 DEF Dispatched
<1>4. /\ ROB' \in Seq(RobEntry) /\ Len(ROB') = Len(ROB) + 1
      /\ Len(ROB) \in Nat /\ DOMAIN ROB = 1 .. Len(ROB) /\ DOMAIN ROB' = 1 .. Len(ROB) + 1
      /\ \A i \in DOMAIN ROB : i \in DOMAIN ROB' /\ ROB'[i] = ROB[i]
      /\ ROB'[Len(ROB) + 1].id = next /\ ROB'[Len(ROB) + 1].completed = FALSE
  BY <1>1, <1>2, DispatchedEntries
<1>5. /\ next \in Nat \ {0} /\ program \in Programs
      /\ next - 1 - Len(ROB) \in Nat /\ \A i \in DOMAIN ROB : ROB[i].id = next - 1 - Len(ROB) + i
  BY DEF LSQInv, TypeInv, IdsConsecutive
<1>6. TypeInv'
  <2>1. LQ' \in [Slot -> Load \cup {Empty}] /\ SQ' \in Seq(Store)
    BY <1>1, <1>2, DispatchedSlots, DispatchedQueues
  <2> QED BY <1>3, <1>4, <1>5, <2>1 DEF TypeInv
<1>7. IdsConsecutive'
  <2>1. next' - 1 - Len(ROB') = next - 1 - Len(ROB)
    BY <1>3, <1>4, <1>5
  <2>2. ASSUME NEW i \in DOMAIN ROB' PROVE ROB'[i].id = next - 1 - Len(ROB) + i
    <3>1. CASE i \in DOMAIN ROB
      BY <1>4, <1>5, <3>1
    <3>2. CASE i = Len(ROB) + 1
      BY <1>4, <1>5, <3>2
    <3> QED BY <1>4, <3>1, <3>2
  <2> QED BY <1>5, <2>1, <2>2 DEF IdsConsecutive
<1>8. IdsOlder'
  <2>1. ASSUME NEW s \in Occupied' PROVE LQ'[s].id < next'
    <3>1. CASE s \in Occupied
      <4>1. LQ'[s] = LQ[s] /\ LQ[s].id \in Nat /\ LQ[s].id < next
        BY <1>1, <1>2, <3>1, DispatchedSlots, QueueFacts DEF LSQInv, IdsOlder
      <4> QED BY <1>3, <1>5, <4>1
    <3>2. CASE \E k \in W : s = f[k]
      <4>1. LQ'[s].id = next
        BY <1>1, <1>2, <3>2, DispatchedSlots, NewLoadFields
      <4> QED BY <1>3, <1>5, <4>1
    <3> QED BY <1>1, <1>2, <3>1, <3>2, DispatchedSlots
  <2>2. ASSUME NEW q \in DOMAIN SQ' PROVE SQ'[q].id < next'
    <3>1. CASE q \in DOMAIN SQ
      <4>1. SQ'[q].id = SQ[q].id /\ SQ[q].id \in Nat /\ SQ[q].id < next
        BY <1>1, <1>2, <3>1, DispatchedQueues, QueueFacts DEF LSQInv, IdsOlder, Store
      <4> QED BY <1>3, <1>5, <4>1
    <3>2. CASE q \notin DOMAIN SQ
      <4>1. SQ'[q].id = next
        BY <1>1, <1>2, <3>2, DispatchedQueues
      <4> QED BY <1>3, <1>5, <4>1
    <3> QED BY <3>1, <3>2
  <2> QED BY <2>1, <2>2 DEF IdsOlder
<1>9. CompletedWhole'
  <2>1. \A id : num_mem_ops(id)' = num_mem_ops(id)
    BY <1>3 DEF num_mem_ops, Loads, Stores
  <2>2. \A i \in DOMAIN ROB' : i \in DOMAIN ROB \/ i = Len(ROB) + 1
    BY <1>4
  <2> QED BY <1>4, <2>1, <2>2 DEF CompletedWhole, LSQInv
<1>10. StoresFinishBeforeWritten'
  <2> SUFFICES ASSUME NEW q \in DOMAIN SQ', ROB' = <<>> \/ SQ'[q].id < ROB'[1].id
               PROVE  SQ'[q].fetch_issued
    BY DEF StoresFinishBeforeWritten
  <2>1. ROB' # <<>>
    BY <1>4
  <2>2. CASE q \in DOMAIN SQ
    <3>1. SQ'[q].id = SQ[q].id /\ SQ'[q].fetch_issued = SQ[q].fetch_issued
      BY <1>1, <1>2, <2>2, DispatchedQueues
    <3>2. ROB = <<>> \/ SQ[q].id < ROB[1].id
      <4>1. ROB # <<>> => 1 \in DOMAIN ROB
        BY <1>4 DEF LSQInv, TypeInv
      <4> QED BY <1>4, <2>1, <3>1, <4>1
    <3> QED BY <2>2, <3>1, <3>2 DEF LSQInv, StoresFinishBeforeWritten
  <2>3. CASE q \notin DOMAIN SQ
    <3>1. SQ'[q].id = next
      BY <1>1, <1>2, <2>3, DispatchedQueues
    <3>2. 1 \in DOMAIN ROB'
      BY <1>4
    <3>3. ROB'[1].id = next - 1 - Len(ROB) + 1
      <4>1. CASE 1 \in DOMAIN ROB
        BY <1>4, <1>5, <4>1
      <4>2. CASE 1 \notin DOMAIN ROB
        <5>1. Len(ROB) = 0
          BY <1>4, <4>2
        <5> QED BY <1>4, <1>5, <5>1
      <4> QED BY <4>1, <4>2
    <3>4. ~(next < ROB'[1].id)
      BY <1>4, <1>5, <3>3
    <3> QED BY <2>1, <3>1, <3>4
  <2> QED BY <2>2, <2>3
<1> QED BY <1>1, <1>2, <1>6, <1>7, <1>8, <1>9, <1>10, DispatchedDependents, DispatchedLoads,
           DispatchedConserved DEF LSQInv

--------------------------------------------------------------------------------
(* The invariant of the load and store queues: for every program, every queue *)
(* size and every order of answers.                                           *)
THEOREM LSQInvariant == Spec => []LSQInv
<1>1. Init => LSQInv
  BY InitLSQ
<1>2. LSQInv /\ [Next]_vars => LSQInv'
  <2> SUFFICES ASSUME LSQInv, [Next]_vars PROVE LSQInv'
    OBVIOUS
  <2>1. CASE Retire BY <2>1, RetireLSQ
  <2>2. CASE Complete BY <2>2, CompleteLSQ
  <2>3. CASE MemoryReturn BY <2>3, MemoryReturnLSQ
  <2>4. CASE FinishStores BY <2>4, FinishStoresLSQ
  <2>5. CASE Dispatch BY <2>5, DispatchLSQ
  <2>6. CASE EndCycle BY <2>6, EndCycleLSQ
  <2>7. ASSUME NEW E \in SUBSET Unexecuted, Execute(E) PROVE LSQInv'
    BY <2>7, ExecuteLSQ
  <2>8. ASSUME NEW n \in 0 .. Len(SQ), CompleteStores(n) PROVE LSQInv'
    BY <2>8, CompleteStoresLSQ
  <2>9. ASSUME NEW S \in SUBSET Slot, IssueLoads(S) PROVE LSQInv'
    BY <2>9, IssueLoadsLSQ
  <2>10. ASSUME NEW b \in Block, NEW k \in 1 .. asked[b], Answer(b, k) PROVE LSQInv'
    BY <2>10, SameQueues DEF Answer
  <2>11. CASE UNCHANGED vars
    BY <2>11, SameQueues DEF vars
  <2> QED BY <2>1, <2>2, <2>3, <2>4, <2>5, <2>6, <2>7, <2>8, <2>9, <2>10, <2>11 DEF Next
<1> QED BY <1>1, <1>2, PTL DEF Spec

(* No access of an instruction is finished twice or forgotten, so that the  *)
(* assertion of LSQ_ENTRY::finish never fails and every instruction whose   *)
(* accesses are done can complete.                                          *)
THEOREM AccessesConserved == Spec => []MemOpsConserved
<1>1. LSQInv => MemOpsConserved
  BY DEF LSQInv
<1> QED BY <1>1, LSQInvariant, PTL

(* The slots of lq_depend_on_me always hold the loads that wait for the     *)
(* store: the assertions of do_finish_store never fail.                     *)
THEOREM DependentsStay == Spec => []DependentsWait
<1>1. LSQInv => DependentsWait
  BY DEF LSQInv
<1> QED BY <1>1, LSQInvariant, PTL

(* Every load waits for the youngest older store of its address and goes to *)
(* the cache only when there is none.                                       *)
THEOREM MemoryOrder == Spec => []LoadWaitsForYoungestStore
<1>1. LSQInv => LoadWaitsForYoungestStore
  BY DEF LSQInv
<1> QED BY <1>1, LSQInvariant, PTL

(* do_complete_store writes no store that did not finish before.            *)
THEOREM WrittenStoresFinished == Spec => []StoresFinishBeforeWritten
<1>1. LSQInv => StoresFinishBeforeWritten
  BY DEF LSQInv
<1> QED BY <1>1, LSQInvariant, PTL
===============================================================================
