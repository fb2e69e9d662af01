----------------------------- MODULE FrontEndProofs -----------------------------
(***************************************************************************)
(* Proofs about the front end, for every program, every size of the        *)
(* buffers, every width and latency, whatever is predicted, hit or refused.*)
(*                                                                         *)
(* ProgramOrder comes first: each of the two buffers before decode is      *)
(* rising, they share no instruction, and together they hold every one     *)
(* between the dispatch buffer and the fetch buffer.  What one call of     *)
(* decode_instruction takes of the two is then closed towards the older,   *)
(* so it is the next stretch of the program and leaves a suffix of each.   *)
(* StopsBehindMispredict rests on it: there is one instruction with the    *)
(* number of the branch that stopped fetch, so it is cleared once and by   *)
(* one of decode and execution.                                            *)
(***************************************************************************)
EXTENDS FrontEnd, PositionProofs, FunctionTheorems, SequenceTheorems

Entry == [id : Nat, dib_checked : BOOLEAN, fetch_issued : BOOLEAN, fetch_completed : BOOLEAN,
          decoded : BOOLEAN, wait : Nat, branch_prediction : BOOLEAN,
          branch_mispredicted : BOOLEAN]

TypeInv ==
  /\ input \in Nat /\ dispatched \in Nat
  /\ IFETCH \in Seq(Entry) /\ DIB_HIT \in Seq(Entry)
  /\ DECODE \in Seq(Entry) /\ DISPATCH \in Seq(Entry)
  /\ fetch_resume \in 0 .. Never
  /\ Len(DIB_HIT) <= DIB_HIT_BUFFER_SIZE /\ Len(DECODE) <= DECODE_BUFFER_SIZE

Ids(s) == {s[i].id : i \in DOMAIN s}
Rising(s) == \A i, j \in DOMAIN s : i < j => s[i].id < s[j].id

(* The instructions between the dispatch buffer and the fetch buffer. *)
Oldest == dispatched + Len(DISPATCH) + 1
Youngest == input - 1 - Len(IFETCH)

OrderInv ==
  /\ \A i \in DOMAIN DISPATCH : DISPATCH[i].id = dispatched + i
  /\ \A i \in DOMAIN IFETCH : IFETCH[i].id = Youngest + i
  /\ Rising(DIB_HIT) /\ Rising(DECODE)
  /\ Ids(DIB_HIT) \cap Ids(DECODE) = {}
  /\ Ids(DIB_HIT) \cup Ids(DECODE) = Oldest .. Youngest
  /\ Oldest <= Youngest + 1

(* What waits for execution has been dispatched. *)
UnresolvedOld == unresolved \subseteq 1 .. dispatched

FrontInv == TypeInv /\ OrderInv /\ UnresolvedOld /\ StopsBehindMispredict

--------------------------------------------------------------------------------
(* The operators *)

LEMMA Sizes ==
  /\ Never \in Nat /\ Never = BRANCH_MISPREDICT_PENALTY + 1
  /\ BRANCH_MISPREDICT_PENALTY \in Nat
  /\ DECODE_LATENCY \in Nat /\ DIB_HIT_LATENCY \in Nat /\ DISPATCH_LATENCY \in Nat
  /\ DIB_HIT_BUFFER_SIZE \in Nat /\ DECODE_BUFFER_SIZE \in Nat /\ FETCH_WIDTH \in Nat
  BY FrontEndAssumption DEF FrontEndAssumption, Never

(* At(s, I) has the entries at the positions I and is rising if s is. *)
LEMMA Chosen ==
  ASSUME NEW s \in Seq(Entry), Rising(s), NEW I \in SUBSET DOMAIN s
  PROVE  /\ IsFiniteSet(I) /\ Cardinality(I) \in Nat
         /\ At(s, I) \in Seq(Entry) /\ Len(At(s, I)) = Cardinality(I)
         /\ Rising(At(s, I))
         /\ \A k \in DOMAIN At(s, I) : \E i \in I : At(s, I)[k] = s[i]
         /\ \A i \in I : \E k \in DOMAIN At(s, I) : At(s, I)[k] = s[i]
<1> DEFINE n == Cardinality(I)
           t == At(s, I)
<1>1. /\ IsFiniteSet(I) /\ n \in Nat /\ t \in Seq(Entry) /\ Len(t) = n
      /\ \A k \in DOMAIN t : \E i \in I : t[k] = s[i]
      /\ \A i \in I : \E k \in DOMAIN t : t[k] = s[i]
  BY Selected
<1>2. I \in SUBSET Int
  OBVIOUS
<1>3. \A k \in 1 .. n : Nth(I, k) \in I
  BY <1>1, <1>2, NthElement
<1>4. \A k \in 1 .. n : t[k] = s[Nth(I, k)]
  BY DEF At
<1>5. DOMAIN t = 1 .. n
  <2> HIDE DEF t, n
  <2> QED BY <1>1
<1>6. Rising(t)
  <2> SUFFICES ASSUME NEW k \in 1 .. n, NEW l \in 1 .. n, k < l
               PROVE  t[k].id < t[l].id
    BY <1>5 DEF Rising
  <2>1. Nth(I, k) < Nth(I, l)
    BY <1>1, <1>2, NthRises
  <2> QED BY <1>3, <1>4, <2>1 DEF Rising
<1> QED BY <1>1, <1>6

(* A stretch of the program, put in order. *)
LEMMA Merged ==
  ASSUME NEW S \in SUBSET Entry, \A e, f \in S : e.id = f.id => e = f,
         NEW a \in Int, NEW b \in Int, a <= b + 1,
         \A e \in S : e.id \in a .. b, \A x \in a .. b : \E e \in S : e.id = x
  PROVE  /\ InOrder(S) \in Seq(Entry) /\ Len(InOrder(S)) = b - a + 1
         /\ \A k \in DOMAIN InOrder(S) : InOrder(S)[k] \in S /\ InOrder(S)[k].id = a + k - 1
         /\ \A e \in S : \E k \in DOMAIN InOrder(S) : InOrder(S)[k] = e
<1> DEFINE t == InOrder(S)
           n == b - a + 1
           ids == {e.id : e \in S}
<1>1. n \in Nat /\ Cardinality(ids) = n /\ ids = a .. b
  <2>1. Cardinality(a .. b) = b - a + 1
    BY IntervalSize
  <2>2. ids = a .. b
    OBVIOUS
  <2> HIDE DEF ids
  <2> QED BY <2>1, <2>2
<1>2. t = [k \in 1 .. Cardinality(ids) |-> CHOOSE e \in S : e.id = Nth(ids, k)]
  BY DEF InOrder
<1> HIDE DEF ids
<1>3. ASSUME NEW k \in 1 .. n PROVE t[k] \in S /\ t[k].id = a + k - 1
  <2>1. Nth(ids, k) = a + k - 1
    BY <1>1, NthOfInterval
  <2>2. a + k - 1 \in a .. b
    OBVIOUS
  <2>3. \E e \in S : e.id = a + k - 1
    BY <1>1, <2>2 DEF ids
  <2>4. t[k] = CHOOSE e \in S : e.id = a + k - 1
    BY <1>1, <1>2, <2>1
  <2> HIDE DEF t
  <2> QED BY <2>3, <2>4
<1> HIDE DEF t
<1>4. t \in Seq(Entry) /\ Len(t) = n /\ DOMAIN t = 1 .. n
  <2>1. \A k \in 1 .. n : t[k] \in Entry
    BY <1>3
  <2>2. DOMAIN t = 1 .. n /\ t = [k \in 1 .. n |-> t[k]]
    BY <1>1, <1>2
  <2> HIDE DEF n
  <2> QED BY <1>1, <2>1, <2>2
<1>5. ASSUME NEW e \in S PROVE \E k \in DOMAIN t : t[k] = e
  <2>1. e.id \in a .. b
    OBVIOUS
  <2>2. e.id - a + 1 \in 1 .. n /\ a + (e.id - a + 1) - 1 = e.id
    BY <2>1
  <2>3. t[e.id - a + 1] \in S /\ t[e.id - a + 1].id = e.id
    BY <1>3, <2>2
  <2>4. t[e.id - a + 1] = e
    BY <2>3
  <2> QED BY <1>4, <2>2, <2>4
<1> QED BY <1>3, <1>4, <1>5 DEF t

(* A rising buffer holds what is older than a given instruction in front. *)
LEMMA OlderInFront ==
  ASSUME NEW s \in Seq(Entry), Rising(s), NEW m \in Int,
         NEW P, P = {i \in DOMAIN s : s[i].id <= m}
  PROVE  Cardinality(P) \in 0 .. Len(s) /\ P = 1 .. Cardinality(P)
<1>1. DOMAIN s = 1 .. Len(s) /\ Len(s) \in Nat /\ \A i \in DOMAIN s : s[i].id \in Nat
  <2>1. \A i \in 1 .. Len(s) : s[i] \in Entry
    OBVIOUS
  <2> QED BY <2>1 DEF Entry
<1>2. P \in SUBSET (1 .. Len(s))
  BY <1>1
<1>3. ASSUME NEW x \in P, NEW y \in 1 .. Len(s), y <= x PROVE y \in P
  <2>1. s[y].id <= s[x].id
    <3>1. CASE y = x
      BY <1>1, <1>2, <3>1
    <3>2. CASE y < x
      BY <1>1, <1>2, <3>2 DEF Rising
    <3> QED BY <1>2, <1>3, <3>1, <3>2
  <2>2. s[y].id <= m
    <3>1. s[x].id <= m /\ s[x].id \in Int /\ s[y].id \in Int
      BY <1>1, <1>2
    <3> QED BY <2>1, <3>1
  <2> QED BY <1>1, <2>2

<1>4. \A x \in P : \A y \in 1 .. Len(s) : y <= x => y \in P
  BY <1>3
<1> DEFINE c == Cardinality(P)
<1>5. c \in Nat /\ P = 1 .. (1 + c - 1) /\ (1 + c - 1 <= Len(s) \/ P = {})
  <2>1. 1 \in Int /\ Len(s) \in Int
    BY <1>1
  <2> QED BY <1>2, <1>4, <2>1, ClosedBelow
<1>6. P = {} => c = 0
  BY FS_EmptySet
<1> HIDE DEF c
<1>7. 1 + c - 1 = c
  BY <1>5
<1>8. c \in 0 .. Len(s) /\ P = 1 .. c
  BY <1>1, <1>5, <1>6, <1>7
<1> QED BY <1>8 DEF c

LEMMA Front ==
  ASSUME NEW s \in Seq(Entry), NEW n \in 0 .. Len(s)
  PROVE  /\ SubSeq(s, 1, n) \in Seq(Entry) /\ Len(SubSeq(s, 1, n)) = n
         /\ \A i \in 1 .. n : SubSeq(s, 1, n)[i] = s[i]
<1>1. \A i \in 1 .. n : s[i] \in Entry
  OBVIOUS
<1> QED BY <1>1

LEMMA Rest ==
  ASSUME NEW s \in Seq(Entry), NEW n \in 0 .. Len(s)
  PROVE  /\ Drop(s, n) \in Seq(Entry) /\ Len(Drop(s, n)) = Len(s) - n
         /\ \A i \in 1 .. Len(s) - n : Drop(s, n)[i] = s[n + i]
<1>1. \A i \in n + 1 .. Len(s) : s[i] \in Entry
  OBVIOUS
<1>2. Len(SubSeq(s, n + 1, Len(s))) = Len(s) - n
  OBVIOUS
<1>3. \A i \in 1 .. Len(s) - n : SubSeq(s, n + 1, Len(s))[i] = s[n + i]
  OBVIOUS
<1>4. SubSeq(s, n + 1, Len(s)) \in Seq(Entry)
  BY <1>1
<1> QED BY <1>2, <1>3, <1>4 DEF Drop

LEMMA Joined ==
  ASSUME NEW s \in Seq(Entry), NEW t \in Seq(Entry)
  PROVE  /\ s \o t \in Seq(Entry) /\ Len(s \o t) = Len(s) + Len(t)
         /\ \A i \in DOMAIN s : i \in DOMAIN (s \o t) /\ (s \o t)[i] = s[i]
         /\ \A i \in DOMAIN t : Len(s) + i \in DOMAIN (s \o t) /\ (s \o t)[Len(s) + i] = t[i]
         /\ \A i \in DOMAIN (s \o t) :
              \/ i \in DOMAIN s
              \/ i - Len(s) \in DOMAIN t /\ (s \o t)[i] = t[i - Len(s)]
  OBVIOUS

--------------------------------------------------------------------------------
(* decode_instruction *)

Waiting == Entries(DIB_HIT) \cup Entries(DECODE)

LEMMA EntriesFacts ==
  ASSUME NEW s \in Seq(Entry)
  PROVE  /\ Entries(s) \in SUBSET Entry /\ IsFiniteSet(Entries(s))
         /\ DOMAIN s = 1 .. Len(s) /\ Len(s) \in Nat
         /\ \A i \in DOMAIN s : s[i] \in Entry /\ s[i].id \in Nat
         /\ \A e \in Entries(s) : e.id \in Nat /\ \E i \in DOMAIN s : s[i] = e
<1>1. DOMAIN s = 1 .. Len(s) /\ Len(s) \in Nat /\ \A i \in DOMAIN s : s[i] \in Entry
  OBVIOUS
<1>2. IsFiniteSet(DOMAIN s)
  BY <1>1, FS_Interval
<1>3. s \in Surjection(DOMAIN s, Entries(s))
  BY <1>1 DEF Surjection, Entries
<1>4. IsFiniteSet(Entries(s))
  BY <1>2, <1>3, FS_Surjection
<1>5. \A e \in Entries(s) : \E i \in DOMAIN s : s[i] = e
  BY DEF Entries
<1>6. \A e \in Entry : e.id \in Nat
  BY DEF Entry
<1> QED BY <1>1, <1>4, <1>5, <1>6

(* A rising buffer has one entry for each instruction. *)
LEMMA RisingApart ==
  ASSUME NEW s \in Seq(Entry), Rising(s)
  PROVE  \A i, j \in DOMAIN s : s[i].id = s[j].id => i = j
<1> SUFFICES ASSUME NEW i \in DOMAIN s, NEW j \in DOMAIN s, s[i].id = s[j].id PROVE i = j
  OBVIOUS
<1>1. i \in Int /\ j \in Int /\ s[i].id \in Int /\ s[j].id \in Int
  BY EntriesFacts
<1>2. ~(i < j) /\ ~(j < i)
  BY <1>1 DEF Rising
<1> QED BY <1>1, <1>2

LEMMA WaitingFacts ==
  ASSUME TypeInv, OrderInv
  PROVE  /\ Oldest \in Int /\ Youngest \in Int /\ Oldest <= Youngest + 1
         /\ Waiting \in SUBSET Entry /\ IsFiniteSet(Waiting)
         /\ {e.id : e \in Waiting} = Oldest .. Youngest
         /\ \A e, f \in Waiting : e.id = f.id => e = f
<1>1. DIB_HIT \in Seq(Entry) /\ DECODE \in Seq(Entry)
  BY DEF TypeInv
<1>2. Oldest \in Int /\ Youngest \in Int /\ Oldest <= Youngest + 1
  BY DEF TypeInv, OrderInv, Oldest, Youngest
<1>3. Waiting \in SUBSET Entry /\ IsFiniteSet(Waiting)
  BY <1>1, EntriesFacts, FS_Union DEF Waiting
<1>4. {e.id : e \in Waiting} = Ids(DIB_HIT) \cup Ids(DECODE)
  BY DEF Waiting, Ids, Entries
<1>5. ASSUME NEW e \in Waiting, NEW f \in Waiting, e.id = f.id PROVE e = f
  <2>1. Ids(DIB_HIT) \cap Ids(DECODE) = {} /\ Rising(DIB_HIT) /\ Rising(DECODE)
    BY DEF OrderInv
  <2>2. CASE e \in Entries(DIB_HIT) /\ f \in Entries(DIB_HIT)
    BY <1>1, <1>5, <2>1, <2>2, RisingApart DEF Entries
  <2>3. CASE e \in Entries(DECODE) /\ f \in Entries(DECODE)
    BY <1>1, <1>5, <2>1, <2>3, RisingApart DEF Entries
  <2>4. CASE e \in Entries(DIB_HIT) /\ f \in Entries(DECODE)
    BY <1>5, <2>1, <2>4 DEF Entries, Ids
  <2>5. CASE e \in Entries(DECODE) /\ f \in Entries(DIB_HIT)
    BY <1>5, <2>1, <2>5 DEF Entries, Ids
  <2> QED BY <2>2, <2>3, <2>4, <2>5 DEF Waiting
<1> QED BY <1>2, <1>3, <1>4, <1>5 DEF OrderInv

(* What decode takes is the next stretch of the program. *)
LEMMA DecodingStretch ==
  ASSUME TypeInv, OrderInv
  PROVE  \E m \in Oldest - 1 .. Youngest :
           /\ Decoding \subseteq Waiting
           /\ \A e \in Waiting : e \in Decoding <=> e.id <= m
           /\ {e.id : e \in Decoding} = Oldest .. m
<1> DEFINE Ahead(e) == {f \in Waiting : f.id <= e.id}
           D == {e.id : e \in Decoding}
           m == Oldest + Cardinality(D) - 1
<1>1. Decoding = {e \in Waiting :
                    /\ \A f \in Ahead(e) : f.wait = 0
                    /\ Cardinality(Ahead(e)) <= Room
                    /\ Cardinality(Ahead(e) \cap Entries(DECODE)) <= DECODE_WIDTH}
  BY DEF Decoding, Waiting
<1>2. Decoding \subseteq Waiting
  BY <1>1
<1>3. /\ Oldest \in Int /\ Youngest \in Int /\ Oldest <= Youngest + 1
      /\ \A e \in Waiting : e.id \in Oldest .. Youngest /\ e.id \in Int
      /\ \A e, f \in Waiting : e.id = f.id => e = f
      /\ {e.id : e \in Waiting} = Oldest .. Youngest
  BY WaitingFacts
<1>4. ASSUME NEW e \in Decoding, NEW f \in Waiting, f.id <= e.id PROVE f \in Decoding
  <2>1. e \in Waiting /\ e.id \in Int /\ f.id \in Int
    BY <1>2, <1>3
  <2>2. Ahead(f) \subseteq Ahead(e)
    <3>1. ASSUME NEW g \in Ahead(f) PROVE g \in Ahead(e)
      <4>1. g.id \in Int /\ g.id <= f.id
        BY <1>3
      <4>2. g.id <= e.id
        BY <1>4, <2>1, <4>1
      <4> QED BY <4>2
    <3> QED BY <3>1
  <2>3. IsFiniteSet(Ahead(e)) /\ IsFiniteSet(Ahead(e) \cap Entries(DECODE))
    <3>1. Ahead(e) \in SUBSET Waiting /\ Ahead(e) \cap Entries(DECODE) \in SUBSET Waiting
      OBVIOUS
    <3> QED BY <3>1, WaitingFacts, FS_Subset
  <2> HIDE DEF Ahead
  <2>4. /\ Cardinality(Ahead(f)) <= Cardinality(Ahead(e))
        /\ Cardinality(Ahead(f) \cap Entries(DECODE)) <= Cardinality(Ahead(e) \cap Entries(DECODE))
    <3>1. Ahead(f) \cap Entries(DECODE) \in SUBSET (Ahead(e) \cap Entries(DECODE))
      BY <2>2
    <3> QED BY <2>2, <2>3, <3>1, FS_Subset
  <2>5. /\ Cardinality(Ahead(e)) \in Int /\ Cardinality(Ahead(f)) \in Int
        /\ Cardinality(Ahead(e) \cap Entries(DECODE)) \in Int
        /\ Cardinality(Ahead(f) \cap Entries(DECODE)) \in Int
    <3>1. Ahead(f) \cap Entries(DECODE) \in SUBSET (Ahead(e) \cap Entries(DECODE))
      BY <2>2
    <3>2. IsFiniteSet(Ahead(f)) /\ IsFiniteSet(Ahead(f) \cap Entries(DECODE))
      BY <2>2, <2>3, <3>1, FS_Subset
    <3> QED BY <2>3, <3>2, FS_CardinalityType
  <2>6. Room \in Int /\ DECODE_WIDTH \in Int
    <3>1. Len(DISPATCH) \in Int
      BY EntriesFacts DEF TypeInv
    <3>2. DISPATCH_BUFFER_SIZE \in Int /\ DIB_INORDER_WIDTH \in Int /\ DECODE_WIDTH \in Int
      BY FrontEndAssumption DEF FrontEndAssumption
    <3> QED BY <3>1, <3>2 DEF Room, Lesser
  <2>7. /\ \A g \in Ahead(f) : g.wait = 0
        /\ Cardinality(Ahead(f)) <= Room
        /\ Cardinality(Ahead(f) \cap Entries(DECODE)) <= DECODE_WIDTH
    <3>1. /\ \A g \in Ahead(e) : g.wait = 0
          /\ Cardinality(Ahead(e)) <= Room
          /\ Cardinality(Ahead(e) \cap Entries(DECODE)) <= DECODE_WIDTH
      BY <1>1
    <3> QED BY <2>2, <2>4, <2>5, <2>6, <3>1
  <2> QED BY <1>1, <2>7
<1>5. D \in SUBSET (Oldest .. Youngest)
  BY <1>2, <1>3
<1>6. ASSUME NEW x \in D, NEW y \in Oldest .. Youngest, y <= x PROVE y \in D
  <2>1. PICK e \in Decoding : e.id = x
    OBVIOUS
  <2>2. PICK f \in Waiting : f.id = y
    BY <1>3
  <2>3. f \in Decoding
    BY <1>4, <1>6, <2>1, <2>2
  <2> QED BY <2>2, <2>3
<1>7. \A x \in D : \A y \in Oldest .. Youngest : y <= x => y \in D
  BY <1>6
<1> DEFINE c == Cardinality(D)
<1> HIDE DEF D, Ahead
<1>8. c \in Nat /\ D = Oldest .. (Oldest + c - 1) /\ (Oldest + c - 1 <= Youngest \/ D = {})
  BY <1>3, <1>5, <1>7, ClosedBelow
<1>9. D = {} => c = 0
  BY FS_EmptySet
<1> HIDE DEF c
<1>10. m \in Oldest - 1 .. Youngest /\ D = Oldest .. m
  <2>1. m = Oldest + c - 1
    BY DEF c
  <2> HIDE DEF m
  <2> QED BY <1>3, <1>8, <1>9, <2>1
<1> HIDE DEF m
<1>11. ASSUME NEW e \in Waiting PROVE e \in Decoding <=> e.id <= m
  <2>1. ASSUME e \in Decoding PROVE e.id <= m
    <3>1. e.id \in D
      BY <2>1 DEF D
    <3> QED BY <1>10, <3>1
  <2>2. ASSUME e.id <= m PROVE e \in Decoding
    <3>1. e.id \in D
      BY <1>3, <1>10, <2>2
    <3>2. PICK f \in Decoding : f.id = e.id
      BY <3>1 DEF D
    <3> QED BY <1>2, <1>3, <3>2
  <2> QED BY <2>1, <2>2
<1> QED BY <1>2, <1>10, <1>11 DEF D

--------------------------------------------------------------------------------
(* Steps that leave every instruction where it is *)

Flagged(s) == {e.id : e \in {f \in Entries(s) : f.branch_mispredicted}}

LEMMA InFlight ==
  MispredictedInFlight = unresolved \cup Flagged(DISPATCH) \cup Flagged(DIB_HIT)
                           \cup Flagged(DECODE) \cup Flagged(IFETCH)
<1>1. UNION {Entries(Pipeline[k]) : k \in 1 .. 4}
        = Entries(DISPATCH) \cup Entries(DIB_HIT) \cup Entries(DECODE) \cup Entries(IFETCH)
  <2>1. /\ Pipeline[1] = DISPATCH /\ Pipeline[2] = DIB_HIT
        /\ Pipeline[3] = DECODE /\ Pipeline[4] = IFETCH
    BY DEF Pipeline
  <2>2. 1 .. 4 = {1, 2, 3, 4}
    OBVIOUS
  <2> HIDE DEF Pipeline
  <2>3. {Entries(Pipeline[k]) : k \in 1 .. 4}
          = {Entries(DISPATCH), Entries(DIB_HIT), Entries(DECODE), Entries(IFETCH)}
    BY <2>1, <2>2
  <2> QED BY <2>3
<1> DEFINE All == UNION {Entries(Pipeline[k]) : k \in 1 .. 4}
<1>2. MispredictedInFlight = unresolved \cup {e.id : e \in {f \in All : f.branch_mispredicted}}
  BY DEF MispredictedInFlight
<1> HIDE DEF All
<1>3. All = Entries(DISPATCH) \cup Entries(DIB_HIT) \cup Entries(DECODE) \cup Entries(IFETCH)
  BY <1>1 DEF All
<1> QED BY <1>2, <1>3 DEF Flagged

LEMMA InFlightNext ==
  MispredictedInFlight' = unresolved' \cup Flagged(DISPATCH') \cup Flagged(DIB_HIT')
                            \cup Flagged(DECODE') \cup Flagged(IFETCH')
<1>1. (MispredictedInFlight = unresolved \cup Flagged(DISPATCH) \cup Flagged(DIB_HIT)
                                \cup Flagged(DECODE) \cup Flagged(IFETCH))'
  BY InFlight, PTL
<1> QED BY <1>1

Alike(s, t) ==
  /\ t \in Seq(Entry) /\ DOMAIN t = DOMAIN s
  /\ \A i \in DOMAIN s : t[i].id = s[i].id /\ t[i].branch_mispredicted = s[i].branch_mispredicted

LEMMA AlikeFacts ==
  ASSUME NEW s \in Seq(Entry), NEW t, Alike(s, t)
  PROVE  /\ t \in Seq(Entry) /\ Len(t) = Len(s) /\ Ids(t) = Ids(s)
         /\ Rising(s) => Rising(t)
         /\ Flagged(t) = Flagged(s)
<1>1. /\ t \in Seq(Entry) /\ DOMAIN t = DOMAIN s
      /\ \A i \in DOMAIN s : t[i].id = s[i].id /\ t[i].branch_mispredicted = s[i].branch_mispredicted
  BY DEF Alike
<1>2. Len(t) = Len(s)
  BY <1>1
<1>3. Ids(t) = Ids(s)
  BY <1>1 DEF Ids
<1>4. Rising(s) => Rising(t)
  BY <1>1 DEF Rising
<1>5. Flagged(t) = Flagged(s)
  BY <1>1 DEF Flagged, Entries
<1> QED BY <1>1, <1>2, <1>3, <1>4, <1>5

LEMMA SameIsAlike == ASSUME NEW s \in Seq(Entry) PROVE Alike(s, s)
  BY DEF Alike

QuietStep ==
  /\ Alike(IFETCH, IFETCH') /\ Alike(DIB_HIT, DIB_HIT')
  /\ Alike(DECODE, DECODE') /\ Alike(DISPATCH, DISPATCH')
  /\ input' = input /\ dispatched' = dispatched
  /\ unresolved' = unresolved
  /\ fetch_resume' \in 0 .. Never /\ (fetch_resume' = Never <=> fetch_resume = Never)

LEMMA QuietKeepsInv == ASSUME FrontInv, QuietStep PROVE FrontInv'
<1>1. /\ IFETCH \in Seq(Entry) /\ DIB_HIT \in Seq(Entry)
      /\ DECODE \in Seq(Entry) /\ DISPATCH \in Seq(Entry)
  BY DEF FrontInv, TypeInv
<1>2. /\ input' = input /\ dispatched' = dispatched /\ unresolved' = unresolved
      /\ fetch_resume' \in 0 .. Never /\ (fetch_resume' = Never <=> fetch_resume = Never)
  BY DEF QuietStep
<1>3. /\ IFETCH' \in Seq(Entry) /\ Len(IFETCH') = Len(IFETCH) /\ Flagged(IFETCH') = Flagged(IFETCH)
      /\ DOMAIN IFETCH' = DOMAIN IFETCH /\ \A i \in DOMAIN IFETCH : IFETCH'[i].id = IFETCH[i].id
  BY <1>1, AlikeFacts DEF QuietStep, Alike
<1>4. /\ DISPATCH' \in Seq(Entry) /\ Len(DISPATCH') = Len(DISPATCH)
      /\ Flagged(DISPATCH') = Flagged(DISPATCH) /\ DOMAIN DISPATCH' = DOMAIN DISPATCH
      /\ \A i \in DOMAIN DISPATCH : DISPATCH'[i].id = DISPATCH[i].id
  BY <1>1, AlikeFacts DEF QuietStep, Alike
<1>5. /\ DIB_HIT' \in Seq(Entry) /\ Len(DIB_HIT') = Len(DIB_HIT)
      /\ Flagged(DIB_HIT') = Flagged(DIB_HIT) /\ Ids(DIB_HIT') = Ids(DIB_HIT)
      /\ Rising(DIB_HIT) => Rising(DIB_HIT')
  BY <1>1, AlikeFacts DEF QuietStep
<1>6. /\ DECODE' \in Seq(Entry) /\ Len(DECODE') = Len(DECODE)
      /\ Flagged(DECODE') = Flagged(DECODE) /\ Ids(DECODE') = Ids(DECODE)
      /\ Rising(DECODE) => Rising(DECODE')
  BY <1>1, AlikeFacts DEF QuietStep
<1>7. TypeInv'
  BY <1>2, <1>3, <1>4, <1>5, <1>6 DEF FrontInv, TypeInv
<1>8. Oldest' = Oldest /\ Youngest' = Youngest
  BY <1>2, <1>3, <1>4 DEF Oldest, Youngest
<1>9. OrderInv'
  <2>1. \A i \in DOMAIN DISPATCH' : DISPATCH'[i].id = dispatched' + i
    BY <1>2, <1>4 DEF FrontInv, OrderInv
  <2>2. \A i \in DOMAIN IFETCH' : IFETCH'[i].id = Youngest' + i
    BY <1>3, <1>8 DEF FrontInv, OrderInv
  <2>3. /\ Rising(DIB_HIT') /\ Rising(DECODE')
        /\ Ids(DIB_HIT') \cap Ids(DECODE') = {}
        /\ Ids(DIB_HIT') \cup Ids(DECODE') = Oldest' .. Youngest'
        /\ Oldest' <= Youngest' + 1
    BY <1>5, <1>6, <1>8 DEF FrontInv, OrderInv
  <2> QED BY <2>1, <2>2, <2>3 DEF OrderInv
<1>10. UnresolvedOld'
  BY <1>2 DEF FrontInv, UnresolvedOld
<1>11. StopsBehindMispredict'
  <2>1. MispredictedInFlight' = MispredictedInFlight
    BY <1>2, <1>3, <1>4, <1>5, <1>6, InFlight, InFlightNext
  <2>2. MispredictedInFlight = IF fetch_resume = Never THEN {input - 1} ELSE {}
    BY DEF FrontInv, StopsBehindMispredict
  <2>3. MispredictedInFlight' = IF fetch_resume' = Never THEN {input' - 1} ELSE {}
    BY <1>2, <2>1, <2>2
  <2> QED BY <2>3 DEF StopsBehindMispredict
<1> QED BY <1>7, <1>9, <1>10, <1>11 DEF FrontInv

LEMMA InitFront == Init => FrontInv
<1> SUFFICES ASSUME Init PROVE FrontInv
  OBVIOUS
<1>1. /\ input = 1 /\ IFETCH = <<>> /\ DIB_HIT = <<>> /\ DECODE = <<>> /\ DISPATCH = <<>>
      /\ fetch_resume = 0 /\ dispatched = 0 /\ unresolved = {}
  BY DEF Init
<1>2. TypeInv
  BY <1>1, Sizes DEF TypeInv
<1>3. OrderInv
  BY <1>1 DEF OrderInv, Oldest, Youngest, Rising, Ids
<1>4. StopsBehindMispredict
  <2>1. MispredictedInFlight = {}
    BY <1>1, InFlight DEF Flagged, Entries
  <2> QED BY <1>1, <2>1, Sizes DEF StopsBehindMispredict
<1> QED BY <1>1, <1>2, <1>3, <1>4 DEF FrontInv, UnresolvedOld

(* Updating fields other than these two leaves a buffer alike. *)
LEMMA UpdatedAlike ==
  ASSUME NEW s \in Seq(Entry), NEW t \in [DOMAIN s -> Entry],
         \A i \in DOMAIN s : /\ t[i].id = s[i].id
                             /\ t[i].branch_mispredicted = s[i].branch_mispredicted
  PROVE  Alike(s, t)
<1>1. DOMAIN s = 1 .. Len(s) /\ Len(s) \in Nat
  OBVIOUS
<1>2. t \in Seq(Entry) /\ DOMAIN t = DOMAIN s
  BY <1>1
<1> QED BY <1>2 DEF Alike

LEMMA QuietInv ==
  ASSUME FrontInv, NEW s, Alike(IFETCH, s), IFETCH' = s,
         UNCHANGED <<input, DIB_HIT, DECODE, DISPATCH, fetch_resume, dispatched, unresolved>>
  PROVE  FrontInv'
<1>1. /\ DIB_HIT \in Seq(Entry) /\ DECODE \in Seq(Entry) /\ DISPATCH \in Seq(Entry)
      /\ fetch_resume \in 0 .. Never
  BY DEF FrontInv, TypeInv
<1>2. QuietStep
  BY <1>1, SameIsAlike DEF QuietStep
<1> QED BY <1>2, QuietKeepsInv

LEMMA FetchAlike == TypeInv => Alike(IFETCH, IFETCH)
  BY SameIsAlike DEF TypeInv

LEMMA ServeFront == ASSUME FrontInv, ServeInstruction PROVE FrontInv'
<1> DEFINE r == Head(returned)
           hit == {i \in DOMAIN IFETCH : Completes(IFETCH[i], r)}
           t == [i \in DOMAIN IFETCH |->
                   IF i \in hit THEN [IFETCH[i] EXCEPT !.fetch_completed = TRUE] ELSE IFETCH[i]]
<1>1. IFETCH' = t
  BY DEF ServeInstruction
<1>2. IFETCH \in Seq(Entry) /\ \A i \in DOMAIN IFETCH : IFETCH[i] \in Entry
  BY EntriesFacts DEF FrontInv, TypeInv
<1> HIDE DEF hit
<1>3. Alike(IFETCH, t)
  <2>1. \A i \in DOMAIN IFETCH : /\ t[i] \in Entry /\ t[i].id = IFETCH[i].id
                                 /\ t[i].branch_mispredicted = IFETCH[i].branch_mispredicted
    BY <1>2 DEF Entry
  <2>2. t \in [DOMAIN IFETCH -> Entry]
    BY <2>1
  <2> QED BY <1>2, <2>1, <2>2, UpdatedAlike
<1> HIDE DEF t
<1> QED BY <1>1, <1>3, QuietInv DEF ServeInstruction

LEMMA FetchChunkFront ==
  ASSUME FrontInv, NEW accepted \in BOOLEAN, FetchChunk(accepted) PROVE FrontInv'
<1> DEFINE b == Least(ChunkStarts)
           e == ChunkEnd(b)
           t == [i \in DOMAIN IFETCH |->
                   IF accepted /\ i \in b .. e
                   THEN [IFETCH[i] EXCEPT !.fetch_issued = TRUE] ELSE IFETCH[i]]
<1>1. IFETCH' = t
  BY DEF FetchChunk
<1>2. IFETCH \in Seq(Entry) /\ \A i \in DOMAIN IFETCH : IFETCH[i] \in Entry
  BY EntriesFacts DEF FrontInv, TypeInv
<1> HIDE DEF b, e
<1>3. Alike(IFETCH, t)
  <2>1. \A i \in DOMAIN IFETCH : /\ t[i] \in Entry /\ t[i].id = IFETCH[i].id
                                 /\ t[i].branch_mispredicted = IFETCH[i].branch_mispredicted
    BY <1>2 DEF Entry
  <2>2. t \in [DOMAIN IFETCH -> Entry]
    BY <2>1
  <2> QED BY <1>2, <2>1, <2>2, UpdatedAlike
<1> HIDE DEF t
<1> QED BY <1>1, <1>3, QuietInv DEF FetchChunk

LEMMA CheckDibFront == ASSUME FrontInv, CheckDib PROVE FrontInv'
<1> DEFINE unchecked == {i \in DOMAIN IFETCH : ~IFETCH[i].dib_checked}
           first  == IF unchecked = {} THEN Len(IFETCH) + 1 ELSE Least(unchecked)
           last   == Lesser(Len(IFETCH), first + FETCH_WIDTH - 1)
           Hit(i) == program[IFETCH[i].id].window \in Entries(DIB)
           t == [i \in DOMAIN IFETCH |->
                   IF i \in first .. last
                   THEN [IFETCH[i] EXCEPT !.dib_checked = TRUE,
                           !.fetch_completed = @ \/ Hit(i),
                           !.decoded = @ \/ Hit(i)]
                   ELSE IFETCH[i]]
<1>1. IFETCH' = t
  BY DEF CheckDib
<1>2. IFETCH \in Seq(Entry) /\ \A i \in DOMAIN IFETCH : IFETCH[i] \in Entry
  BY EntriesFacts DEF FrontInv, TypeInv
<1> HIDE DEF first, last, Hit
<1>3. Alike(IFETCH, t)
  <2>1. \A i \in DOMAIN IFETCH : /\ t[i] \in Entry /\ t[i].id = IFETCH[i].id
                                 /\ t[i].branch_mispredicted = IFETCH[i].branch_mispredicted
    BY <1>2 DEF Entry
  <2>2. t \in [DOMAIN IFETCH -> Entry]
    BY <2>1
  <2> QED BY <1>2, <2>1, <2>2, UpdatedAlike
<1> HIDE DEF t
<1> QED BY <1>1, <1>3, QuietInv DEF CheckDib

LEMMA EndCycleFront == ASSUME FrontInv, EndCycle PROVE FrontInv'
<1> DEFINE Tick(w) == IF w = 0 THEN 0 ELSE w - 1
           Ticked(s) == [i \in DOMAIN s |-> [s[i] EXCEPT !.wait = Tick(@)]]
<1>1. /\ DIB_HIT' = Ticked(DIB_HIT) /\ DECODE' = Ticked(DECODE) /\ DISPATCH' = Ticked(DISPATCH)
      /\ fetch_resume' = IF fetch_resume = Never THEN Never ELSE Tick(fetch_resume)
      /\ UNCHANGED <<input, IFETCH, dispatched, unresolved>>
  BY DEF EndCycle
<1>2. ASSUME NEW s \in Seq(Entry) PROVE Alike(s, Ticked(s))
  <2>1. \A i \in DOMAIN s : s[i] \in Entry
    BY EntriesFacts
  <2>2. \A i \in DOMAIN s : /\ Ticked(s)[i] \in Entry /\ Ticked(s)[i].id = s[i].id
                            /\ Ticked(s)[i].branch_mispredicted = s[i].branch_mispredicted
    <3>1. ASSUME NEW e \in Entry, NEW w \in Nat
          PROVE  /\ [e EXCEPT !.wait = w] \in Entry /\ [e EXCEPT !.wait = w].id = e.id
                 /\ [e EXCEPT !.wait = w].branch_mispredicted = e.branch_mispredicted
      BY DEF Entry
    <3>2. \A i \in DOMAIN s : Tick(s[i].wait) \in Nat
      BY <2>1 DEF Entry
    <3>3. \A i \in DOMAIN s : Ticked(s)[i] = [s[i] EXCEPT !.wait = Tick(s[i].wait)]
      OBVIOUS
    <3> HIDE DEF Ticked, Tick
    <3>4. ASSUME NEW i \in DOMAIN s
          PROVE  /\ Ticked(s)[i] \in Entry /\ Ticked(s)[i].id = s[i].id
                 /\ Ticked(s)[i].branch_mispredicted = s[i].branch_mispredicted
      <4>1. s[i] \in Entry /\ Tick(s[i].wait) \in Nat
        BY <2>1, <3>2
      <4>2. Ticked(s)[i] = [s[i] EXCEPT !.wait = Tick(s[i].wait)]
        BY <3>3
      <4>3. /\ [s[i] EXCEPT !.wait = Tick(s[i].wait)] \in Entry
            /\ [s[i] EXCEPT !.wait = Tick(s[i].wait)].id = s[i].id
            /\ [s[i] EXCEPT !.wait = Tick(s[i].wait)].branch_mispredicted = s[i].branch_mispredicted
        BY <3>1, <4>1
      <4> QED BY <4>2, <4>3
    <3> QED BY <3>4
  <2>3. Ticked(s) \in [DOMAIN s -> Entry]
    BY <2>2
  <2> HIDE DEF Ticked
  <2> QED BY <2>2, <2>3, UpdatedAlike
<1>3. /\ IFETCH \in Seq(Entry) /\ DIB_HIT \in Seq(Entry) /\ DECODE \in Seq(Entry)
      /\ DISPATCH \in Seq(Entry) /\ fetch_resume \in 0 .. Never
  BY DEF FrontInv, TypeInv
<1>4. fetch_resume' \in 0 .. Never /\ (fetch_resume' = Never <=> fetch_resume = Never)
  <2>1. CASE fetch_resume = Never
    BY <1>1, <2>1, Sizes
  <2>2. CASE fetch_resume # Never
    <3>1. fetch_resume' = Tick(fetch_resume) /\ fetch_resume \in Nat /\ fetch_resume < Never
      BY <1>1, <1>3, <2>2, Sizes
    <3>2. fetch_resume' \in Nat /\ fetch_resume' <= fetch_resume
      BY <3>1
    <3> QED BY <2>2, <3>1, <3>2, Sizes
  <2> QED BY <2>1, <2>2
<1> HIDE DEF Ticked
<1>5. /\ Alike(DIB_HIT, DIB_HIT') /\ Alike(DECODE, DECODE') /\ Alike(DISPATCH, DISPATCH')
      /\ Alike(IFETCH, IFETCH')
  BY <1>1, <1>2, <1>3, SameIsAlike
<1> QED BY <1>1, <1>4, <1>5, QuietKeepsInv DEF QuietStep

--------------------------------------------------------------------------------
(* Where each instruction is *)

LEMMA Places ==
  ASSUME TypeInv, OrderInv
  PROVE  /\ dispatched \in Nat /\ input \in Nat /\ Oldest \in Int /\ Youngest \in Int
         /\ Oldest = dispatched + Len(DISPATCH) + 1 /\ Youngest = input - 1 - Len(IFETCH)
         /\ Len(DISPATCH) \in Nat /\ Len(IFETCH) \in Nat /\ Oldest <= Youngest + 1
         /\ \A e \in Entries(DISPATCH) : e.id \in Int /\ dispatched < e.id /\ e.id < Oldest
         /\ \A e \in Waiting : e.id \in Int /\ Oldest <= e.id /\ e.id <= Youngest
         /\ \A e \in Entries(IFETCH) : e.id \in Int /\ Youngest < e.id /\ e.id < input
<1>1. /\ DISPATCH \in Seq(Entry) /\ IFETCH \in Seq(Entry)
      /\ dispatched \in Nat /\ input \in Nat
  BY DEF TypeInv
<1>2. /\ DOMAIN DISPATCH = 1 .. Len(DISPATCH) /\ Len(DISPATCH) \in Nat
      /\ DOMAIN IFETCH = 1 .. Len(IFETCH) /\ Len(IFETCH) \in Nat
  BY <1>1, EntriesFacts
<1>3. Oldest = dispatched + Len(DISPATCH) + 1 /\ Youngest = input - 1 - Len(IFETCH)
  BY DEF Oldest, Youngest
<1>4. ASSUME NEW e \in Entries(DISPATCH)
      PROVE  e.id \in Int /\ dispatched < e.id /\ e.id < Oldest
  <2>1. PICK i \in DOMAIN DISPATCH : DISPATCH[i] = e
    BY DEF Entries
  <2>2. e.id = dispatched + i
    BY <2>1 DEF OrderInv
  <2>3. i \in 1 .. Len(DISPATCH)
    BY <1>2, <2>1
  <2> QED BY <1>1, <1>2, <1>3, <2>2, <2>3
<1>5. ASSUME NEW e \in Entries(IFETCH)
      PROVE  e.id \in Int /\ Youngest < e.id /\ e.id < input
  <2>1. PICK i \in DOMAIN IFETCH : IFETCH[i] = e
    BY DEF Entries
  <2>2. e.id = Youngest + i
    BY <2>1 DEF OrderInv
  <2>3. i \in 1 .. Len(IFETCH)
    BY <1>2, <2>1
  <2> QED BY <1>1, <1>2, <1>3, <2>2, <2>3
<1>6. /\ Oldest \in Int /\ Youngest \in Int /\ Oldest <= Youngest + 1
      /\ {e.id : e \in Waiting} = Oldest .. Youngest
  BY WaitingFacts
<1>7. ASSUME NEW e \in Waiting PROVE e.id \in Int /\ Oldest <= e.id /\ e.id <= Youngest
  <2>1. e.id \in Oldest .. Youngest
    BY <1>6
  <2> QED BY <1>6, <2>1
<1> QED BY <1>1, <1>2, <1>3, <1>4, <1>5, <1>6, <1>7

LEMMA FlaggedIn ==
  ASSUME NEW s, NEW x \in Flagged(s)
  PROVE  \E e \in Entries(s) : e.branch_mispredicted /\ e.id = x
  BY DEF Flagged

(* do_complete_execution of the branch that stopped fetch: it has been      *)
(* dispatched, so no buffer knows it any more.                              *)
LEMMA CompleteFront ==
  ASSUME FrontInv, NEW B \in SUBSET unresolved, Complete(B) PROVE FrontInv'
<1>1. /\ unresolved' = unresolved \ B
      /\ fetch_resume' = IF B = {} THEN fetch_resume ELSE BRANCH_MISPREDICT_PENALTY
      /\ UNCHANGED <<input, IFETCH, DIB_HIT, DECODE, DISPATCH, dispatched>>
  BY DEF Complete, Resumes, buffers
<1>2. TypeInv /\ OrderInv /\ UnresolvedOld /\ StopsBehindMispredict
  BY DEF FrontInv
<1>3. CASE B = {}
  <2>1. UNCHANGED <<input, IFETCH, DIB_HIT, DECODE, DISPATCH, fetch_resume, dispatched, unresolved>>
    BY <1>1, <1>3
  <2>2. Alike(IFETCH, IFETCH) /\ IFETCH' = IFETCH
    BY <1>2, <2>1, FetchAlike
  <2> QED BY <2>1, <2>2, QuietInv
<1>4. CASE B # {}
  <2>1. PICK b \in B : b \in unresolved /\ b \in 1 .. dispatched
    BY <1>2, <1>4 DEF UnresolvedOld
  <2>2. b \in MispredictedInFlight
    BY <2>1, InFlight
  <2>3. MispredictedInFlight = {b}
    BY <1>2, <2>2 DEF StopsBehindMispredict
  <2>4. b \in Int /\ b <= dispatched
    BY <1>2, <2>1 DEF TypeInv
  <2>5. \A e \in Entries(DISPATCH) \cup Waiting \cup Entries(IFETCH) : e.id # b
    BY <1>2, <2>4, Places
  <2>6. Flagged(DISPATCH) = {} /\ Flagged(DIB_HIT) = {} /\ Flagged(DECODE) = {} /\ Flagged(IFETCH) = {}
    <3>1. /\ \A x \in Flagged(DISPATCH) : x = b /\ \E e \in Entries(DISPATCH) : e.id = x
          /\ \A x \in Flagged(DIB_HIT) : x = b /\ \E e \in Waiting : e.id = x
          /\ \A x \in Flagged(DECODE) : x = b /\ \E e \in Waiting : e.id = x
          /\ \A x \in Flagged(IFETCH) : x = b /\ \E e \in Entries(IFETCH) : e.id = x
      BY <2>3, InFlight DEF Flagged, Waiting
    <3> QED BY <2>5, <3>1
  <2>7. unresolved' = {}
    BY <1>1, <2>1, <2>3, InFlight
  <2>9. MispredictedInFlight' = {}
    <3>1. /\ Flagged(DISPATCH') = {} /\ Flagged(DIB_HIT') = {}
          /\ Flagged(DECODE') = {} /\ Flagged(IFETCH') = {}
      BY <1>1, <2>6
    <3> QED BY <2>7, <3>1, InFlightNext
  <2>10. fetch_resume' # Never /\ fetch_resume' \in 0 .. Never
    BY <1>1, <1>4, Sizes
  <2>11. StopsBehindMispredict'
    BY <2>9, <2>10 DEF StopsBehindMispredict, Never
  <2>12. TypeInv'
    BY <1>1, <1>2, <2>10 DEF TypeInv, Never
  <2>13. OrderInv'
    <3>1. Oldest' = Oldest /\ Youngest' = Youngest
      BY <1>1 DEF Oldest, Youngest
    <3> QED BY <1>1, <1>2, <3>1 DEF OrderInv
  <2> QED BY <2>7, <2>11, <2>12, <2>13 DEF FrontInv, UnresolvedOld
<1> QED BY <1>3, <1>4

(* do_init_instruction: fetch is not stopped, so nothing is in flight. *)
LEMMA InitInstructionFront ==
  ASSUME FrontInv, NEW taken \in BOOLEAN, NEW right \in BOOLEAN, InitInstruction(taken, right)
  PROVE  FrontInv'
<1> DEFINE wrong == Mispredicted(program[input], taken, right)
           e == [id |-> input, dib_checked |-> FALSE, fetch_issued |-> FALSE,
                 fetch_completed |-> FALSE, decoded |-> FALSE, wait |-> 0,
                 branch_prediction |-> taken, branch_mispredicted |-> wrong]
<1>1. /\ IFETCH' = Append(IFETCH, e)
      /\ fetch_resume = 0 /\ fetch_resume' = IF wrong THEN Never ELSE fetch_resume
      /\ input' = input + 1
      /\ UNCHANGED <<DIB_HIT, DECODE, DISPATCH, dispatched, unresolved>>
  BY DEF InitInstruction, Reading, ResumeTime
<1>2. TypeInv /\ OrderInv /\ UnresolvedOld /\ StopsBehindMispredict
  BY DEF FrontInv
<1>3. wrong \in BOOLEAN
  BY DEF Mispredicted
<1> HIDE DEF wrong
<1>4. e \in Entry /\ e.id = input /\ e.branch_mispredicted = wrong
  BY <1>2, <1>3 DEF Entry, TypeInv
<1> HIDE DEF e
<1>5. IFETCH \in Seq(Entry) /\ Len(IFETCH) \in Nat /\ DOMAIN IFETCH = 1 .. Len(IFETCH)
  BY <1>2, EntriesFacts DEF TypeInv
<1>6. /\ IFETCH' \in Seq(Entry) /\ Len(IFETCH') = Len(IFETCH) + 1
      /\ DOMAIN IFETCH' = 1 .. Len(IFETCH) + 1
      /\ \A i \in 1 .. Len(IFETCH) : IFETCH'[i] = IFETCH[i]
      /\ IFETCH'[Len(IFETCH) + 1] = e
  BY <1>1, <1>4, <1>5
<1>7. TypeInv'
  <2>1. fetch_resume' \in 0 .. Never /\ input' \in Nat
    BY <1>1, <1>2, <1>3, Sizes DEF TypeInv
  <2> QED BY <1>1, <1>2, <1>6, <2>1 DEF TypeInv
<1>8. Oldest' = Oldest /\ Youngest' = Youngest
  BY <1>1, <1>2, <1>5, <1>6 DEF Oldest, Youngest, TypeInv
<1>9. \A i \in DOMAIN IFETCH' : IFETCH'[i].id = Youngest' + i
  <2>1. \A i \in 1 .. Len(IFETCH) : IFETCH[i].id = Youngest + i
    BY <1>2, <1>5 DEF OrderInv
  <2>2. e.id = Youngest + (Len(IFETCH) + 1)
    <3>1. input \in Nat /\ Youngest = input - 1 - Len(IFETCH)
      BY <1>2 DEF TypeInv, Youngest
    <3> QED BY <1>4, <1>5, <3>1
  <2>3. \A i \in 1 .. Len(IFETCH) + 1 : i \in 1 .. Len(IFETCH) \/ i = Len(IFETCH) + 1
    BY <1>5
  <2> QED BY <1>6, <1>8, <2>1, <2>2, <2>3
<1>10. OrderInv'
  BY <1>1, <1>2, <1>8, <1>9 DEF OrderInv
<1>11. /\ unresolved = {} /\ Flagged(DISPATCH) = {} /\ Flagged(DIB_HIT) = {}
       /\ Flagged(DECODE) = {} /\ Flagged(IFETCH) = {}
  <2>1. MispredictedInFlight = {}
    <3>1. fetch_resume # Never
      BY <1>1, Sizes
    <3> QED BY <1>2, <3>1 DEF StopsBehindMispredict
  <2> QED BY <2>1, InFlight
<1>12. Flagged(IFETCH') = IF wrong THEN {input} ELSE {}
  <2>1. \A i \in 1 .. Len(IFETCH) : ~IFETCH[i].branch_mispredicted
    BY <1>5, <1>11 DEF Flagged, Entries
  <2>2. Entries(IFETCH') = Entries(IFETCH) \cup {e}
    BY <1>5, <1>6 DEF Entries
  <2>3. Flagged(IFETCH') = Flagged(IFETCH) \cup {x.id : x \in {f \in {e} : f.branch_mispredicted}}
    BY <2>2 DEF Flagged
  <2> QED BY <1>4, <1>11, <2>3
<1>13. MispredictedInFlight' = IF wrong THEN {input} ELSE {}
  <2>1. /\ Flagged(DISPATCH') = {} /\ Flagged(DIB_HIT') = {} /\ Flagged(DECODE') = {}
        /\ unresolved' = {}
    BY <1>1, <1>11
  <2> QED BY <1>12, <2>1, InFlightNext
<1>14. StopsBehindMispredict'
  <2>1. input' - 1 = input
    BY <1>1, <1>2 DEF TypeInv
  <2>2. wrong <=> fetch_resume' = Never
    BY <1>1, <1>3, Sizes
  <2>3. MispredictedInFlight' = IF fetch_resume' = Never THEN {input' - 1} ELSE {}
    BY <1>13, <2>1, <2>2
  <2> QED BY <2>3 DEF StopsBehindMispredict, Never
<1> QED BY <1>1, <1>2, <1>7, <1>10, <1>14 DEF FrontInv, UnresolvedOld

--------------------------------------------------------------------------------
(* Buffers taken apart *)

LEMMA Halves ==
  ASSUME NEW s \in Seq(Entry), NEW n \in 0 .. Len(s)
  PROVE  /\ Drop(s, n) \in Seq(Entry) /\ Len(Drop(s, n)) = Len(s) - n
         /\ DOMAIN Drop(s, n) = 1 .. Len(s) - n
         /\ \A i \in 1 .. Len(s) - n : Drop(s, n)[i] = s[n + i] /\ n + i \in DOMAIN s
         /\ Rising(s) => Rising(Drop(s, n))
         /\ Entries(Drop(s, n)) = {s[i] : i \in n + 1 .. Len(s)}
         /\ Entries(SubSeq(s, 1, n)) = {s[i] : i \in 1 .. n}
<1> DEFINE t == Drop(s, n)
<1>1. /\ t \in Seq(Entry) /\ Len(t) = Len(s) - n
      /\ \A i \in 1 .. Len(s) - n : t[i] = s[n + i]
  BY Rest
<1>2. Len(s) \in Nat /\ DOMAIN s = 1 .. Len(s) /\ n \in Nat /\ n <= Len(s)
  BY EntriesFacts
<1>3. DOMAIN t = 1 .. Len(s) - n
  BY <1>1, EntriesFacts
<1> HIDE DEF t
<1>4. \A i \in 1 .. Len(s) - n : n + i \in DOMAIN s /\ i \in Int
  BY <1>2
<1>5. Rising(s) => Rising(t)
  <2> SUFFICES ASSUME Rising(s), NEW i \in 1 .. Len(s) - n, NEW j \in 1 .. Len(s) - n, i < j
               PROVE  t[i].id < t[j].id
    BY <1>3 DEF Rising
  <2>1. n + i < n + j
    BY <1>2, <1>4
  <2> QED BY <1>1, <1>4, <2>1 DEF Rising
<1>6. Entries(t) = {s[i] : i \in n + 1 .. Len(s)}
  <2>1. ASSUME NEW i \in 1 .. Len(s) - n PROVE n + i \in n + 1 .. Len(s)
    BY <1>2
  <2>2. ASSUME NEW i \in n + 1 .. Len(s) PROVE i - n \in 1 .. Len(s) - n /\ n + (i - n) = i
    BY <1>2
  <2>3. \A i \in n + 1 .. Len(s) : \E k \in 1 .. Len(s) - n : t[k] = s[i]
    BY <1>1, <2>2
  <2>4. \A k \in 1 .. Len(s) - n : \E i \in n + 1 .. Len(s) : t[k] = s[i]
    BY <1>1, <2>1
  <2>5. \A e \in Entries(t) : e \in {s[i] : i \in n + 1 .. Len(s)}
    BY <1>3, <2>4 DEF Entries
  <2>6. \A e \in {s[i] : i \in n + 1 .. Len(s)} : e \in Entries(t)
    BY <1>3, <2>3 DEF Entries
  <2> QED BY <2>5, <2>6
<1>7. Entries(SubSeq(s, 1, n)) = {s[i] : i \in 1 .. n}
  <2>1. /\ SubSeq(s, 1, n) \in Seq(Entry) /\ Len(SubSeq(s, 1, n)) = n
        /\ \A i \in 1 .. n : SubSeq(s, 1, n)[i] = s[i]
    BY Front
  <2>2. DOMAIN SubSeq(s, 1, n) = 1 .. n
    BY <2>1, EntriesFacts
  <2> QED BY <2>1, <2>2 DEF Entries
<1> QED BY <1>1, <1>3, <1>4, <1>5, <1>6, <1>7 DEF t

LEMMA FlaggedParts ==
  ASSUME NEW s, NEW A, NEW B, Entries(s) = A \cup B
  PROVE  Flagged(s) = {e.id : e \in {f \in A : f.branch_mispredicted}}
                        \cup {e.id : e \in {f \in B : f.branch_mispredicted}}
  BY DEF Flagged

LEMMA Appended ==
  ASSUME NEW s \in Seq(Entry), NEW t \in Seq(Entry)
  PROVE  Entries(s \o t) = Entries(s) \cup Entries(t) /\ Flagged(s \o t) = Flagged(s) \cup Flagged(t)
<1>1. ASSUME NEW e \in Entries(s \o t) PROVE e \in Entries(s) \cup Entries(t)
  <2>1. PICK i \in DOMAIN (s \o t) : (s \o t)[i] = e
    BY DEF Entries
  <2>2. CASE i \in DOMAIN s
    BY <2>1, <2>2, Joined DEF Entries
  <2>3. CASE i - Len(s) \in DOMAIN t /\ (s \o t)[i] = t[i - Len(s)]
    BY <2>1, <2>3 DEF Entries
  <2> QED BY <2>2, <2>3, Joined
<1>2. ASSUME NEW i \in DOMAIN s PROVE s[i] \in Entries(s \o t)
  <2>1. i \in DOMAIN (s \o t) /\ (s \o t)[i] = s[i]
    BY Joined
  <2> QED BY <2>1 DEF Entries
<1>3. ASSUME NEW i \in DOMAIN t PROVE t[i] \in Entries(s \o t)
  <2>1. Len(s) + i \in DOMAIN (s \o t) /\ (s \o t)[Len(s) + i] = t[i]
    BY Joined
  <2> QED BY <2>1 DEF Entries
<1>4. Entries(s \o t) = Entries(s) \cup Entries(t)
  <2>1. Entries(s) \subseteq Entries(s \o t) /\ Entries(t) \subseteq Entries(s \o t)
    BY <1>2, <1>3 DEF Entries
  <2> QED BY <1>1, <2>1
<1>5. Flagged(s \o t) = Flagged(s) \cup Flagged(t)
  BY <1>4 DEF Flagged
<1> QED BY <1>4, <1>5

LEMMA DispatchFront ==
  ASSUME FrontInv, NEW n \in 0 .. Len(DISPATCH), Dispatch(n) PROVE FrontInv'
<1>1. /\ DISPATCH' = Drop(DISPATCH, n)
      /\ dispatched' = dispatched + n
      /\ unresolved' = unresolved \cup
           {DISPATCH[i].id : i \in {j \in 1 .. n : DISPATCH[j].branch_mispredicted}}
      /\ UNCHANGED <<input, IFETCH, DIB_HIT, DECODE, fetch_resume>>
  BY DEF Dispatch
<1>2. TypeInv /\ OrderInv /\ UnresolvedOld /\ StopsBehindMispredict
  BY DEF FrontInv
<1>3. /\ DISPATCH \in Seq(Entry) /\ DOMAIN DISPATCH = 1 .. Len(DISPATCH) /\ Len(DISPATCH) \in Nat
      /\ n \in Nat /\ dispatched \in Nat /\ n <= Len(DISPATCH)
  BY <1>2, EntriesFacts DEF TypeInv
<1>4. /\ DISPATCH' \in Seq(Entry) /\ Len(DISPATCH') = Len(DISPATCH) - n
      /\ DOMAIN DISPATCH' = 1 .. Len(DISPATCH) - n
      /\ \A i \in 1 .. Len(DISPATCH) - n : DISPATCH'[i] = DISPATCH[n + i] /\ n + i \in DOMAIN DISPATCH
      /\ Entries(DISPATCH') = {DISPATCH[i] : i \in n + 1 .. Len(DISPATCH)}
  BY <1>1, <1>3, Halves
<1>5. TypeInv'
  <2>1. dispatched' \in Nat
    BY <1>1, <1>3
  <2> QED BY <1>1, <1>2, <1>4, <2>1 DEF TypeInv
<1>6. Oldest' = Oldest /\ Youngest' = Youngest
  BY <1>1, <1>3, <1>4 DEF Oldest, Youngest
<1>7. OrderInv'
  <2>1. \A i \in DOMAIN DISPATCH' : DISPATCH'[i].id = dispatched' + i
    <3>1. ASSUME NEW i \in 1 .. Len(DISPATCH) - n PROVE DISPATCH'[i].id = dispatched' + i
      <4>1. DISPATCH'[i].id = dispatched + (n + i)
        BY <1>2, <1>4 DEF OrderInv
      <4>2. dispatched + (n + i) = (dispatched + n) + i
        BY <1>3
      <4> QED BY <1>1, <4>1, <4>2
    <3> QED BY <1>4, <3>1
  <2> QED BY <1>1, <1>2, <1>6, <2>1 DEF OrderInv
<1>8. UnresolvedOld'
  <2>1. ASSUME NEW i \in 1 .. n PROVE DISPATCH[i].id \in 1 .. dispatched + n
    <3>1. i \in DOMAIN DISPATCH /\ i \in 1 .. n
      BY <1>3
    <3>2. DISPATCH[i].id = dispatched + i
      BY <1>2, <3>1 DEF OrderInv
    <3> QED BY <1>3, <3>1, <3>2
  <2>2. unresolved \subseteq 1 .. dispatched + n
    BY <1>2, <1>3 DEF UnresolvedOld
  <2> QED BY <1>1, <2>1, <2>2 DEF UnresolvedOld
<1>9. unresolved' \cup Flagged(DISPATCH') = unresolved \cup Flagged(DISPATCH)
  <2> DEFINE A == {DISPATCH[i] : i \in 1 .. n}
             B == {DISPATCH[i] : i \in n + 1 .. Len(DISPATCH)}
  <2>1. Entries(DISPATCH) = A \cup B
    <3>1. 1 .. Len(DISPATCH) = (1 .. n) \cup (n + 1 .. Len(DISPATCH))
      BY <1>3
    <3> QED BY <1>3, <3>1 DEF Entries
  <2>2. {e.id : e \in {f \in A : f.branch_mispredicted}}
          = {DISPATCH[i].id : i \in {j \in 1 .. n : DISPATCH[j].branch_mispredicted}}
    OBVIOUS
  <2>3. Flagged(DISPATCH') = {e.id : e \in {f \in B : f.branch_mispredicted}}
    BY <1>4 DEF Flagged
  <2> HIDE DEF A, B
  <2>4. Flagged(DISPATCH) = {e.id : e \in {f \in A : f.branch_mispredicted}}
                              \cup {e.id : e \in {f \in B : f.branch_mispredicted}}
    BY <2>1, FlaggedParts
  <2> QED BY <1>1, <2>2, <2>3, <2>4
<1>10. StopsBehindMispredict'
  <2>1. MispredictedInFlight' = MispredictedInFlight
    BY <1>1, <1>9, InFlight, InFlightNext
  <2>2. MispredictedInFlight = IF fetch_resume = Never THEN {input - 1} ELSE {}
    BY <1>2 DEF StopsBehindMispredict
  <2>3. MispredictedInFlight' = IF fetch_resume' = Never THEN {input' - 1} ELSE {}
    BY <1>1, <2>1, <2>2
  <2> QED BY <2>3 DEF StopsBehindMispredict
<1> QED BY <1>5, <1>7, <1>8, <1>10 DEF FrontInv

--------------------------------------------------------------------------------
(* promote_to_decode *)

LEMMA RisingJoined ==
  ASSUME NEW s \in Seq(Entry), NEW t \in Seq(Entry), Rising(s), Rising(t),
         \A x \in Ids(s) : \A y \in Ids(t) : x < y
  PROVE  Rising(s \o t) /\ Ids(s \o t) = Ids(s) \cup Ids(t)
<1> DEFINE u == s \o t
<1>1. /\ DOMAIN s = 1 .. Len(s) /\ DOMAIN t = 1 .. Len(t) /\ Len(s) \in Nat /\ Len(t) \in Nat
      /\ u \in Seq(Entry) /\ Len(u) = Len(s) + Len(t)
      /\ DOMAIN u = 1 .. Len(s) + Len(t)
  BY Joined, EntriesFacts
<1>2. /\ \A i \in 1 .. Len(s) : u[i] = s[i]
      /\ \A i \in Len(s) + 1 .. Len(s) + Len(t) : u[i] = t[i - Len(s)] /\ i - Len(s) \in 1 .. Len(t)
  <2>1. \A i \in 1 .. Len(s) : u[i] = s[i]
    BY <1>1, Joined
  <2>2. \A i \in Len(s) + 1 .. Len(s) + Len(t) : i - Len(s) \in 1 .. Len(t)
    BY <1>1
  <2>3. \A i \in 1 .. Len(t) : u[Len(s) + i] = t[i]
    BY <1>1, Joined
  <2>4. \A i \in Len(s) + 1 .. Len(s) + Len(t) : Len(s) + (i - Len(s)) = i
    BY <1>1
  <2> HIDE DEF u
  <2> QED BY <2>1, <2>2, <2>3, <2>4
<1>3. \A i \in DOMAIN u : i \in Int /\ (i \in 1 .. Len(s) \/ i \in Len(s) + 1 .. Len(s) + Len(t))
  BY <1>1
<1> HIDE DEF u
<1>4. ASSUME NEW i \in DOMAIN u, NEW j \in DOMAIN u, i < j PROVE u[i].id < u[j].id
  <2>1. CASE i \in 1 .. Len(s) /\ j \in 1 .. Len(s)
    BY <1>1, <1>2, <1>4, <2>1 DEF Rising
  <2>2. CASE i \in Len(s) + 1 .. Len(s) + Len(t) /\ j \in Len(s) + 1 .. Len(s) + Len(t)
    <3>1. i - Len(s) < j - Len(s)
      BY <1>1, <1>3, <1>4
    <3> QED BY <1>1, <1>2, <2>2, <3>1 DEF Rising
  <2>3. CASE i \in 1 .. Len(s) /\ j \in Len(s) + 1 .. Len(s) + Len(t)
    <3>1. u[i].id \in Ids(s)
      BY <1>1, <1>2, <2>3 DEF Ids
    <3>2. u[j].id \in Ids(t)
      BY <1>1, <1>2, <2>3 DEF Ids
    <3> QED BY <3>1, <3>2
  <2>4. ~(i \in Len(s) + 1 .. Len(s) + Len(t) /\ j \in 1 .. Len(s))
    BY <1>1, <1>3, <1>4
  <2> QED BY <1>3, <2>1, <2>2, <2>3, <2>4
<1>5. Ids(u) = Ids(s) \cup Ids(t)
  <2>1. Ids(u) = {e.id : e \in Entries(u)} /\ Ids(s) = {e.id : e \in Entries(s)}
        /\ Ids(t) = {e.id : e \in Entries(t)}
    BY DEF Ids, Entries
  <2>2. Entries(u) = Entries(s) \cup Entries(t)
    BY Appended DEF u
  <2> QED BY <2>1, <2>2
<1>6. Rising(u)
  BY <1>4 DEF Rising
<1> QED BY <1>5, <1>6 DEF u

LEMMA PromoteCount ==
  ASSUME TypeInv,
         NEW n, n = Greatest({k \in 0 .. Lesser(Len(IFETCH), PromoteWidth) :
                                \A i \in 1 .. k : IFETCH[i].fetch_completed})
  PROVE  /\ n \in 0 .. Len(IFETCH)
         /\ Len(DIB_HIT) + n <= DIB_HIT_BUFFER_SIZE /\ Len(DECODE) + n <= DECODE_BUFFER_SIZE
<1> DEFINE b == Lesser(Len(IFETCH), PromoteWidth)
           S == {k \in 0 .. b : \A i \in 1 .. k : IFETCH[i].fetch_completed}
           c == Cardinality(S)
<1>1. /\ b \in Nat /\ b <= Len(IFETCH) /\ Len(IFETCH) \in Nat
      /\ Len(DIB_HIT) + b <= DIB_HIT_BUFFER_SIZE /\ Len(DECODE) + b <= DECODE_BUFFER_SIZE
      /\ Len(DIB_HIT) \in Nat /\ Len(DECODE) \in Nat
  <2>1. /\ Len(IFETCH) \in Nat /\ Len(DIB_HIT) \in Nat /\ Len(DECODE) \in Nat
        /\ Len(DIB_HIT) <= DIB_HIT_BUFFER_SIZE /\ Len(DECODE) <= DECODE_BUFFER_SIZE
    BY EntriesFacts DEF TypeInv
  <2> QED BY <2>1, Sizes DEF PromoteWidth, Lesser
<1>2. n = Greatest(S)
  OBVIOUS
<1> HIDE DEF b
<1>3. 0 \in S
  BY <1>1
<1>4. \A x \in S : \A y \in 0 .. b : y <= x => y \in S
  <2> SUFFICES ASSUME NEW x \in S, NEW y \in 0 .. b, y <= x PROVE y \in S
    OBVIOUS
  <2>1. x \in Int /\ y \in Int /\ \A i \in 1 .. x : IFETCH[i].fetch_completed
    BY <1>1
  <2>2. \A i \in 1 .. y : i \in 1 .. x
    BY <2>1
  <2> QED BY <2>1, <2>2
<1>5. S \in SUBSET (0 .. b)
  OBVIOUS
<1> HIDE DEF S
<1>6. c \in Nat /\ S = 0 .. (0 + c - 1) /\ (0 + c - 1 <= b \/ S = {})
  <2>1. 0 \in Int /\ b \in Int
    BY <1>1
  <2> QED BY <1>4, <1>5, <2>1, ClosedBelow
<1> HIDE DEF c
<1>7. c - 1 \in S /\ \A k \in S : k <= c - 1
  BY <1>3, <1>6
<1>8. \E x \in S : \A y \in S : x >= y
  BY <1>5, <1>6, <1>7
<1>9. n \in S
  BY <1>2, <1>8 DEF Greatest
<1>10. n \in Int /\ 0 <= n /\ n <= b
  BY <1>1, <1>5, <1>9
<1> QED BY <1>1, <1>10, Sizes

LEMMA FetchRising == ASSUME TypeInv, OrderInv PROVE Rising(IFETCH)
<1>1. \A i \in DOMAIN IFETCH : i \in Int /\ IFETCH[i].id = Youngest + i /\ Youngest \in Int
  BY EntriesFacts, Places DEF TypeInv, OrderInv
<1> QED BY <1>1 DEF Rising

LEMMA Promoted ==
  ASSUME TypeInv, OrderInv, NEW I \in SUBSET DOMAIN IFETCH, NEW latency \in Nat,
         NEW t, t = [k \in DOMAIN At(IFETCH, I) |-> [At(IFETCH, I)[k] EXCEPT !.wait = latency]]
  PROVE  /\ t \in Seq(Entry) /\ Len(t) = Cardinality(I) /\ Rising(t)
         /\ Ids(t) = {IFETCH[i].id : i \in I}
         /\ Flagged(t) = {e.id : e \in {f \in {IFETCH[i] : i \in I} : f.branch_mispredicted}}
<1> DEFINE a == At(IFETCH, I)
<1>1. /\ a \in Seq(Entry) /\ Len(a) = Cardinality(I) /\ Rising(a)
      /\ \A k \in DOMAIN a : \E i \in I : a[k] = IFETCH[i]
      /\ \A i \in I : \E k \in DOMAIN a : a[k] = IFETCH[i]
  BY FetchRising, Chosen DEF TypeInv
<1>2. /\ DOMAIN t = DOMAIN a /\ t = [k \in DOMAIN a |-> t[k]]
      /\ \A k \in DOMAIN a : t[k] = [a[k] EXCEPT !.wait = latency]
  OBVIOUS
<1> HIDE DEF a
<1>3. Alike(a, t)
  <2>1. \A k \in DOMAIN a : a[k] \in Entry
    BY <1>1, EntriesFacts
  <2>2. \A k \in DOMAIN a : /\ t[k] \in Entry /\ t[k].id = a[k].id
                            /\ t[k].branch_mispredicted = a[k].branch_mispredicted
    BY <1>2, <2>1 DEF Entry
  <2>3. t \in [DOMAIN a -> Entry]
    BY <1>2, <2>2
  <2>4. \A k \in DOMAIN a : /\ t[k].id = a[k].id
                            /\ t[k].branch_mispredicted = a[k].branch_mispredicted
    BY <2>2
  <2>5. a \in Seq(Entry)
    BY <1>1
  <2> QED BY <2>3, <2>4, <2>5, UpdatedAlike
<1>4. /\ t \in Seq(Entry) /\ Len(t) = Len(a) /\ Ids(t) = Ids(a)
      /\ Rising(a) => Rising(t)
      /\ Flagged(t) = Flagged(a)
  BY <1>1, <1>3, AlikeFacts
<1>5. Entries(a) = {IFETCH[i] : i \in I}
  BY <1>1 DEF Entries
<1>6. Ids(a) = {IFETCH[i].id : i \in I}
  <2>1. Ids(a) = {e.id : e \in Entries(a)}
    BY DEF Ids, Entries
  <2> QED BY <1>5, <2>1
<1>7. Flagged(a) = {e.id : e \in {f \in {IFETCH[i] : i \in I} : f.branch_mispredicted}}
  BY <1>5 DEF Flagged
<1> QED BY <1>1, <1>4, <1>6, <1>7

LEMMA PromoteFront == ASSUME FrontInv, Promote PROVE FrontInv'
<1> DEFINE n == Greatest({k \in 0 .. Lesser(Len(IFETCH), PromoteWidth) :
                            \A i \in 1 .. k : IFETCH[i].fetch_completed})
           I == {i \in 1 .. n : IFETCH[i].decoded}
           J == (1 .. n) \ I
           h == [k \in DOMAIN At(IFETCH, I) |->
                   [At(IFETCH, I)[k] EXCEPT !.wait = DIB_HIT_LATENCY]]
           d == [k \in DOMAIN At(IFETCH, J) |->
                   [At(IFETCH, J)[k] EXCEPT !.wait = DECODE_LATENCY]]
<1>1. /\ DIB_HIT' = DIB_HIT \o h /\ DECODE' = DECODE \o d /\ IFETCH' = Drop(IFETCH, n)
      /\ UNCHANGED <<input, DISPATCH, fetch_resume, dispatched, unresolved>>
  BY DEF Promote
<1>2. TypeInv /\ OrderInv /\ UnresolvedOld /\ StopsBehindMispredict
  BY DEF FrontInv
<1>3. /\ n \in 0 .. Len(IFETCH)
      /\ Len(DIB_HIT) + n <= DIB_HIT_BUFFER_SIZE /\ Len(DECODE) + n <= DECODE_BUFFER_SIZE
  BY <1>2, PromoteCount
<1> HIDE DEF n
<1>4. /\ IFETCH \in Seq(Entry) /\ DIB_HIT \in Seq(Entry) /\ DECODE \in Seq(Entry)
      /\ Len(IFETCH) \in Nat /\ Len(DIB_HIT) \in Nat /\ Len(DECODE) \in Nat
      /\ DOMAIN IFETCH = 1 .. Len(IFETCH)
  BY <1>2, EntriesFacts DEF TypeInv
<1>5. n \in Nat /\ n <= Len(IFETCH)
  BY <1>3, <1>4
<1>6. /\ I \in SUBSET (1 .. n) /\ J \in SUBSET (1 .. n) /\ I \cup J = 1 .. n /\ I \cap J = {}
      /\ I \in SUBSET DOMAIN IFETCH /\ J \in SUBSET DOMAIN IFETCH
      /\ 1 .. n \in SUBSET DOMAIN IFETCH
  <2>1. 1 .. n \in SUBSET DOMAIN IFETCH
    BY <1>4, <1>5
  <2> QED BY <2>1
<1>7. /\ h \in Seq(Entry) /\ Len(h) = Cardinality(I) /\ Rising(h)
      /\ Ids(h) = {IFETCH[i].id : i \in I}
      /\ Flagged(h) = {e.id : e \in {f \in {IFETCH[i] : i \in I} : f.branch_mispredicted}}
  <2>1. h = [k \in DOMAIN At(IFETCH, I) |-> [At(IFETCH, I)[k] EXCEPT !.wait = DIB_HIT_LATENCY]]
    OBVIOUS
  <2>2. DIB_HIT_LATENCY \in Nat
    BY Sizes
  <2> HIDE DEF I, J, h, d
  <2> QED BY <1>2, <1>6, <2>1, <2>2, Promoted
<1>8. /\ d \in Seq(Entry) /\ Len(d) = Cardinality(J) /\ Rising(d)
      /\ Ids(d) = {IFETCH[i].id : i \in J}
      /\ Flagged(d) = {e.id : e \in {f \in {IFETCH[i] : i \in J} : f.branch_mispredicted}}
  <2>1. d = [k \in DOMAIN At(IFETCH, J) |-> [At(IFETCH, J)[k] EXCEPT !.wait = DECODE_LATENCY]]
    OBVIOUS
  <2>2. DECODE_LATENCY \in Nat
    BY Sizes
  <2> HIDE DEF I, J, h, d
  <2> QED BY <1>2, <1>6, <2>1, <2>2, Promoted
<1> HIDE DEF I, J, h, d
<1>9. Cardinality(I) <= n /\ Cardinality(J) <= n /\ Cardinality(I) \in Nat /\ Cardinality(J) \in Nat
  <2>1. IsFiniteSet(1 .. n) /\ Cardinality(1 .. n) = n
    <3>1. 1 <= n + 1 /\ n - 1 + 1 = n
      BY <1>5
    <3> QED BY <1>5, <3>1, IntervalSize
  <2> QED BY <1>6, <2>1, FS_Subset, FS_CardinalityType
<1>10. /\ \A i \in 1 .. n : IFETCH[i].id = Youngest + i /\ Youngest + i \in Youngest + 1 .. Youngest + n
       /\ Youngest \in Int /\ Oldest \in Int /\ Oldest <= Youngest + 1
  <2>1. Youngest \in Int /\ Oldest \in Int /\ Oldest <= Youngest + 1
    BY <1>2, Places
  <2>2. \A i \in 1 .. n : Youngest + i \in Youngest + 1 .. Youngest + n
    BY <1>5, <2>1
  <2>3. \A i \in 1 .. n : IFETCH[i].id = Youngest + i
    BY <1>2, <1>6 DEF OrderInv
  <2> QED BY <2>1, <2>2, <2>3
<1>11. Ids(h) \cup Ids(d) = Youngest + 1 .. Youngest + n /\ Ids(h) \cap Ids(d) = {}
  <2>1. Ids(h) \cup Ids(d) \subseteq Youngest + 1 .. Youngest + n
    BY <1>6, <1>7, <1>8, <1>10
  <2>2. ASSUME NEW x \in Youngest + 1 .. Youngest + n PROVE x \in Ids(h) \cup Ids(d)
    <3>1. x - Youngest \in 1 .. n /\ Youngest + (x - Youngest) = x
      BY <1>5, <1>10
    <3>2. IFETCH[x - Youngest].id = x
      BY <1>10, <3>1
    <3> QED BY <1>6, <1>7, <1>8, <3>1, <3>2
  <2>3. ASSUME NEW i \in I, NEW j \in J PROVE IFETCH[i].id # IFETCH[j].id
    <3>1. i \in 1 .. n /\ j \in 1 .. n /\ i # j
      BY <1>6
    <3>2. IFETCH[i].id = Youngest + i /\ IFETCH[j].id = Youngest + j /\ Youngest \in Int
      BY <1>10, <3>1
    <3> QED BY <1>5, <3>1, <3>2
  <2> QED BY <1>7, <1>8, <2>1, <2>2, <2>3
<1>12. /\ Rising(DIB_HIT) /\ Rising(DECODE)
       /\ Ids(DIB_HIT) \cap Ids(DECODE) = {}
       /\ Ids(DIB_HIT) \cup Ids(DECODE) = Oldest .. Youngest
  BY <1>2 DEF OrderInv
<1>13. \A x \in Ids(DIB_HIT) \cup Ids(DECODE) : \A y \in Ids(h) \cup Ids(d) : x < y /\ x # y
  BY <1>5, <1>10, <1>11, <1>12
<1>14. Rising(DIB_HIT') /\ Ids(DIB_HIT') = Ids(DIB_HIT) \cup Ids(h)
  BY <1>1, <1>4, <1>7, <1>12, <1>13, RisingJoined
<1>15. Rising(DECODE') /\ Ids(DECODE') = Ids(DECODE) \cup Ids(d)
  BY <1>1, <1>4, <1>8, <1>12, <1>13, RisingJoined
<1>16. /\ IFETCH' \in Seq(Entry) /\ Len(IFETCH') = Len(IFETCH) - n
       /\ DOMAIN IFETCH' = 1 .. Len(IFETCH) - n
       /\ \A i \in 1 .. Len(IFETCH) - n : IFETCH'[i] = IFETCH[n + i] /\ n + i \in DOMAIN IFETCH
       /\ Entries(IFETCH') = {IFETCH[i] : i \in n + 1 .. Len(IFETCH)}
  BY <1>1, <1>3, <1>4, Halves
<1>17. Oldest' = Oldest /\ Youngest' = Youngest + n
  <2>1. input \in Nat /\ Youngest = input - 1 - Len(IFETCH)
    BY <1>2, Places
  <2>2. Youngest' = input' - 1 - Len(IFETCH') /\ Oldest' = dispatched' + Len(DISPATCH') + 1
        /\ Oldest = dispatched + Len(DISPATCH) + 1
    BY DEF Youngest, Oldest
  <2> QED BY <1>1, <1>4, <1>5, <1>16, <2>1, <2>2
<1>18. OrderInv'
  <2>1. \A i \in DOMAIN IFETCH' : IFETCH'[i].id = Youngest' + i
    <3>1. ASSUME NEW i \in 1 .. Len(IFETCH) - n PROVE IFETCH'[i].id = Youngest' + i
      <4>1. IFETCH'[i].id = Youngest + (n + i)
        BY <1>2, <1>16 DEF OrderInv
      <4>2. Youngest + (n + i) = (Youngest + n) + i
        BY <1>5, <1>10
      <4> QED BY <1>17, <4>1, <4>2
    <3> QED BY <1>16, <3>1
  <2>2. \A i \in DOMAIN DISPATCH' : DISPATCH'[i].id = dispatched' + i
    BY <1>1, <1>2 DEF OrderInv
  <2>3. Ids(DIB_HIT') \cap Ids(DECODE') = {}
    BY <1>11, <1>12, <1>13, <1>14, <1>15
  <2>4. Ids(DIB_HIT') \cup Ids(DECODE') = Oldest' .. Youngest'
    <3>1. Ids(DIB_HIT') \cup Ids(DECODE') = (Oldest .. Youngest) \cup (Youngest + 1 .. Youngest + n)
      BY <1>11, <1>12, <1>14, <1>15
    <3>2. (Oldest .. Youngest) \cup (Youngest + 1 .. Youngest + n) = Oldest .. Youngest + n
      BY <1>5, <1>10
    <3> QED BY <1>17, <3>1, <3>2
  <2>5. Oldest' <= Youngest' + 1
    BY <1>5, <1>10, <1>17
  <2> QED BY <1>14, <1>15, <2>1, <2>2, <2>3, <2>4, <2>5 DEF OrderInv
<1>19. TypeInv'
  <2>1. /\ DIB_HIT' \in Seq(Entry) /\ Len(DIB_HIT') = Len(DIB_HIT) + Cardinality(I)
        /\ DECODE' \in Seq(Entry) /\ Len(DECODE') = Len(DECODE) + Cardinality(J)
    <3>1. DIB_HIT \o h \in Seq(Entry) /\ Len(DIB_HIT \o h) = Len(DIB_HIT) + Len(h)
      BY <1>4, <1>7, Joined
    <3>2. DECODE \o d \in Seq(Entry) /\ Len(DECODE \o d) = Len(DECODE) + Len(d)
      BY <1>4, <1>8, Joined
    <3> QED BY <1>1, <1>7, <1>8, <3>1, <3>2
  <2>2. Len(DIB_HIT') <= DIB_HIT_BUFFER_SIZE /\ Len(DECODE') <= DECODE_BUFFER_SIZE
    BY <1>3, <1>4, <1>5, <1>9, <2>1, Sizes
  <2> QED BY <1>1, <1>2, <1>16, <2>1, <2>2 DEF TypeInv
<1>20. Flagged(DIB_HIT') \cup Flagged(DECODE') \cup Flagged(IFETCH')
         = Flagged(DIB_HIT) \cup Flagged(DECODE) \cup Flagged(IFETCH)
  <2> DEFINE Of(A) == {e.id : e \in {f \in {IFETCH[i] : i \in A} : f.branch_mispredicted}}
  <2>1. Flagged(DIB_HIT') = Flagged(DIB_HIT) \cup Of(I) /\ Flagged(DECODE') = Flagged(DECODE) \cup Of(J)
    BY <1>1, <1>4, <1>7, <1>8, Appended
  <2>2. Flagged(IFETCH') = Of(n + 1 .. Len(IFETCH))
    BY <1>16 DEF Flagged
  <2>3. Flagged(IFETCH) = Of(1 .. Len(IFETCH))
    BY <1>4 DEF Flagged, Entries
  <2>4. 1 .. Len(IFETCH) = (I \cup J) \cup (n + 1 .. Len(IFETCH))
    BY <1>4, <1>5, <1>6
  <2>5. Of(1 .. Len(IFETCH)) = Of(I) \cup Of(J) \cup Of(n + 1 .. Len(IFETCH))
    BY <2>4
  <2> HIDE DEF Of
  <2> QED BY <2>1, <2>2, <2>3, <2>5
<1>21. StopsBehindMispredict'
  <2>1. MispredictedInFlight' = MispredictedInFlight
    BY <1>1, <1>20, InFlight, InFlightNext
  <2>2. MispredictedInFlight = IF fetch_resume = Never THEN {input - 1} ELSE {}
    BY <1>2 DEF StopsBehindMispredict
  <2>3. MispredictedInFlight' = IF fetch_resume' = Never THEN {input' - 1} ELSE {}
    BY <1>1, <2>1, <2>2
  <2> QED BY <2>3 DEF StopsBehindMispredict
<1> QED BY <1>1, <1>2, <1>18, <1>19, <1>21 DEF FrontInv, UnresolvedOld

--------------------------------------------------------------------------------
(* decode_instruction, continued *)

LEMMA Cut ==
  ASSUME NEW s \in Seq(Entry), Rising(s), NEW m \in Int,
         NEW n, n = Cardinality({i \in DOMAIN s : s[i].id <= m})
  PROVE  /\ n \in 0 .. Len(s)
         /\ Entries(Drop(s, n)) = {e \in Entries(s) : e.id > m}
         /\ Entries(SubSeq(s, 1, n)) = {e \in Entries(s) : e.id <= m}
<1> DEFINE P == {i \in DOMAIN s : s[i].id <= m}
<1>1. n \in 0 .. Len(s) /\ P = 1 .. n
  BY OlderInFront
<1>2. /\ DOMAIN s = 1 .. Len(s) /\ Len(s) \in Nat /\ n \in Nat /\ n <= Len(s)
      /\ \A i \in DOMAIN s : s[i].id \in Int
  BY <1>1, EntriesFacts
<1>3. /\ \A i \in 1 .. n : i \in DOMAIN s /\ s[i].id <= m
      /\ \A i \in n + 1 .. Len(s) : i \in DOMAIN s /\ s[i].id > m
  <2>1. \A i \in 1 .. n : i \in DOMAIN s /\ s[i].id <= m
    BY <1>1
  <2>2. ASSUME NEW i \in n + 1 .. Len(s) PROVE i \in DOMAIN s /\ s[i].id > m
    <3>1. i \in DOMAIN s /\ i \notin 1 .. n
      BY <1>2
    <3> QED BY <1>1, <1>2, <3>1
  <2> QED BY <2>1, <2>2
<1>4. \A i \in DOMAIN s : /\ s[i].id <= m => i \in 1 .. n
                          /\ s[i].id > m => i \in n + 1 .. Len(s)
  <2>1. ASSUME NEW i \in DOMAIN s, s[i].id <= m PROVE i \in 1 .. n
    BY <1>1, <2>1
  <2>2. ASSUME NEW i \in DOMAIN s, s[i].id > m PROVE i \in n + 1 .. Len(s)
    <3>1. i \notin 1 .. n
      BY <1>2, <1>3, <2>2
    <3> QED BY <1>2, <3>1
  <2> QED BY <2>1, <2>2
<1> HIDE DEF P
<1>5. Entries(Drop(s, n)) = {s[i] : i \in n + 1 .. Len(s)}
      /\ Entries(SubSeq(s, 1, n)) = {s[i] : i \in 1 .. n}
  BY <1>1, Halves
<1>6. {s[i] : i \in n + 1 .. Len(s)} = {e \in Entries(s) : e.id > m}
  BY <1>3, <1>4 DEF Entries
<1>7. {s[i] : i \in 1 .. n} = {e \in Entries(s) : e.id <= m}
  BY <1>3, <1>4 DEF Entries
<1> QED BY <1>1, <1>5, <1>6, <1>7

(* What is taken, entry by entry: only the flag of a branch that decode    *)
(* resolves changes.                                                       *)
Cleared(e) == e \in Entries(DECODE) /\ SeenAtDecode(e)
Becomes(e, g) ==
  g.id = e.id /\ (g.branch_mispredicted <=> e.branch_mispredicted /\ ~Cleared(e))

LEMMA DecodedEntries ==
  ASSUME TypeInv, OrderInv, NEW m \in Int,
         NEW S,
         \A g \in S :
           \/ \E e \in Entries(DECODE) : e.id <= m /\ g = Resumed(e)
           \/ \E e \in Entries(DIB_HIT) : e.id <= m /\ g = [e EXCEPT !.wait = DISPATCH_LATENCY],
         \A e \in Entries(DECODE) : e.id <= m => Resumed(e) \in S,
         \A e \in Entries(DIB_HIT) : e.id <= m => [e EXCEPT !.wait = DISPATCH_LATENCY] \in S
  PROVE  /\ S \in SUBSET Entry
         /\ \A g \in S : \E e \in Waiting : e.id <= m /\ Becomes(e, g)
         /\ \A e \in Waiting : e.id <= m => \E g \in S : Becomes(e, g)
         /\ \A g, h \in S : g.id = h.id => g = h
<1>1. /\ Entries(DECODE) \in SUBSET Entry /\ Entries(DIB_HIT) \in SUBSET Entry
      /\ \A e \in Entries(DECODE) : e \notin Entries(DIB_HIT)
      /\ \A e, f \in Waiting : e.id = f.id => e = f
      /\ Entries(DECODE) \subseteq Waiting /\ Entries(DIB_HIT) \subseteq Waiting
  <2>1. Entries(DECODE) \in SUBSET Entry /\ Entries(DIB_HIT) \in SUBSET Entry
    BY EntriesFacts DEF TypeInv
  <2>2. \A e \in Entries(DECODE) : e \notin Entries(DIB_HIT)
    <3>1. Ids(DIB_HIT) \cap Ids(DECODE) = {}
      BY DEF OrderInv
    <3>2. \A s : \A e \in Entries(s) : e.id \in Ids(s)
      BY DEF Entries, Ids
    <3> QED BY <3>1, <3>2
  <2> QED BY <2>1, <2>2, WaitingFacts DEF Waiting
<1>2. ASSUME NEW e \in Entry, NEW c \in BOOLEAN
      PROVE  LET g == [e EXCEPT !.wait = DISPATCH_LATENCY, !.branch_mispredicted = @ /\ ~c]
             IN  /\ g \in Entry /\ g.id = e.id
                 /\ g.branch_mispredicted <=> e.branch_mispredicted /\ ~c
  BY Sizes DEF Entry
<1>3. ASSUME NEW e \in Entry
      PROVE  LET g == [e EXCEPT !.wait = DISPATCH_LATENCY]
             IN  /\ g \in Entry /\ g.id = e.id
                 /\ g.branch_mispredicted <=> e.branch_mispredicted
  BY Sizes DEF Entry
<1>4. ASSUME NEW e \in Entries(DECODE)
      PROVE  Resumed(e) \in Entry /\ Becomes(e, Resumed(e))
  <2>1. e \in Entry /\ (Cleared(e) <=> SeenAtDecode(e))
    BY <1>1 DEF Cleared
  <2>2. SeenAtDecode(e) \in BOOLEAN
    BY DEF SeenAtDecode
  <2>3. /\ Resumed(e) \in Entry /\ Resumed(e).id = e.id
        /\ Resumed(e).branch_mispredicted <=> e.branch_mispredicted /\ ~SeenAtDecode(e)
    BY <1>2, <2>1, <2>2 DEF Resumed
  <2> QED BY <2>1, <2>3 DEF Becomes
<1>5. ASSUME NEW e \in Entries(DIB_HIT)
      PROVE  /\ [e EXCEPT !.wait = DISPATCH_LATENCY] \in Entry
             /\ Becomes(e, [e EXCEPT !.wait = DISPATCH_LATENCY])
  <2>1. e \in Entry /\ ~Cleared(e)
    BY <1>1 DEF Cleared
  <2> QED BY <1>3, <2>1 DEF Becomes
<1>6. ASSUME NEW g \in S
      PROVE  \/ \E e \in Entries(DECODE) : e.id <= m /\ g = Resumed(e)
             \/ \E e \in Entries(DIB_HIT) : e.id <= m /\ g = [e EXCEPT !.wait = DISPATCH_LATENCY]
  OBVIOUS
<1>7. \A e \in Entries(DECODE) : e.id <= m => Resumed(e) \in S
  OBVIOUS
<1>8. \A e \in Entries(DIB_HIT) : e.id <= m => [e EXCEPT !.wait = DISPATCH_LATENCY] \in S
  OBVIOUS
<1>9. ASSUME NEW g \in S PROVE g \in Entry /\ \E e \in Waiting : e.id <= m /\ Becomes(e, g)
  <2>1. CASE \E e \in Entries(DECODE) : e.id <= m /\ g = Resumed(e)
    BY <1>1, <1>4, <2>1
  <2>2. CASE \E e \in Entries(DIB_HIT) : e.id <= m /\ g = [e EXCEPT !.wait = DISPATCH_LATENCY]
    BY <1>1, <1>5, <2>2
  <2> QED BY <1>6, <2>1, <2>2
<1>10. ASSUME NEW e \in Waiting, e.id <= m PROVE \E g \in S : Becomes(e, g)
  <2>1. CASE e \in Entries(DECODE)
    BY <1>4, <1>7, <1>10, <2>1
  <2>2. CASE e \in Entries(DIB_HIT)
    BY <1>5, <1>8, <1>10, <2>2
  <2> QED BY <2>1, <2>2 DEF Waiting
<1>11. ASSUME NEW g \in S, NEW h \in S, g.id = h.id PROVE g = h
  <2>1. ASSUME NEW e \in Entries(DECODE), NEW f \in Entries(DIB_HIT),
               NEW x, NEW y, Becomes(e, x), Becomes(f, y)
        PROVE  x.id # y.id
    BY <1>1, <2>1 DEF Becomes
  <2>2. CASE /\ \E e \in Entries(DECODE) : e.id <= m /\ g = Resumed(e)
             /\ \E e \in Entries(DECODE) : e.id <= m /\ h = Resumed(e)
    <3>1. PICK e \in Entries(DECODE) : g = Resumed(e)
      BY <2>2
    <3>2. PICK f \in Entries(DECODE) : h = Resumed(f)
      BY <2>2
    <3>3. e.id = f.id
      BY <1>4, <1>11, <3>1, <3>2 DEF Becomes
    <3> QED BY <1>1, <3>1, <3>2, <3>3
  <2>3. CASE /\ \E e \in Entries(DIB_HIT) : e.id <= m /\ g = [e EXCEPT !.wait = DISPATCH_LATENCY]
             /\ \E e \in Entries(DIB_HIT) : e.id <= m /\ h = [e EXCEPT !.wait = DISPATCH_LATENCY]
    <3>1. PICK e \in Entries(DIB_HIT) : g = [e EXCEPT !.wait = DISPATCH_LATENCY]
      BY <2>3
    <3>2. PICK f \in Entries(DIB_HIT) : h = [f EXCEPT !.wait = DISPATCH_LATENCY]
      BY <2>3
    <3>3. e.id = f.id
      BY <1>5, <1>11, <3>1, <3>2 DEF Becomes
    <3> QED BY <1>1, <3>1, <3>2, <3>3
  <2>4. CASE /\ \E e \in Entries(DECODE) : e.id <= m /\ g = Resumed(e)
             /\ \E e \in Entries(DIB_HIT) : e.id <= m /\ h = [e EXCEPT !.wait = DISPATCH_LATENCY]
    <3>1. PICK e \in Entries(DECODE) : g = Resumed(e)
      BY <2>4
    <3>2. PICK f \in Entries(DIB_HIT) : h = [f EXCEPT !.wait = DISPATCH_LATENCY]
      BY <2>4
    <3>3. Becomes(e, g) /\ Becomes(f, h)
      BY <1>4, <1>5, <3>1, <3>2
    <3> QED BY <1>11, <2>1, <3>3
  <2>5. CASE /\ \E e \in Entries(DIB_HIT) : e.id <= m /\ g = [e EXCEPT !.wait = DISPATCH_LATENCY]
             /\ \E e \in Entries(DECODE) : e.id <= m /\ h = Resumed(e)
    <3>1. PICK e \in Entries(DIB_HIT) : g = [e EXCEPT !.wait = DISPATCH_LATENCY]
      BY <2>5
    <3>2. PICK f \in Entries(DECODE) : h = Resumed(f)
      BY <2>5
    <3>3. Becomes(e, g) /\ Becomes(f, h)
      BY <1>4, <1>5, <3>1, <3>2
    <3> QED BY <1>11, <2>1, <3>3
  <2> QED BY <1>6, <2>2, <2>3, <2>4, <2>5
<1> QED BY <1>9, <1>10, <1>11

(* What a call of decode_instruction does: a stretch up to m leaves. *)
DecodesUpTo(m, S) ==
  /\ m \in Oldest - 1 .. Youngest
  /\ S \in SUBSET Entry
  /\ \A g \in S : \E e \in Waiting : e.id <= m /\ Becomes(e, g)
  /\ \A e \in Waiting : e.id <= m => \E g \in S : Becomes(e, g)
  /\ \A g, h \in S : g.id = h.id => g = h
  /\ DISPATCH' = DISPATCH \o InOrder(S)
  /\ DIB_HIT' \in Seq(Entry) /\ Rising(DIB_HIT') /\ Len(DIB_HIT') <= Len(DIB_HIT)
  /\ DECODE' \in Seq(Entry) /\ Rising(DECODE') /\ Len(DECODE') <= Len(DECODE)
  /\ Entries(DIB_HIT') = {e \in Entries(DIB_HIT) : e.id > m}
  /\ Entries(DECODE') = {e \in Entries(DECODE) : e.id > m}
  /\ fetch_resume' = IF \E e \in Waiting : e.id <= m /\ Cleared(e)
                     THEN BRANCH_MISPREDICT_PENALTY ELSE fetch_resume
  /\ UNCHANGED <<input, IFETCH, dispatched, unresolved>>

LEMMA DecodeStep ==
  ASSUME TypeInv, OrderInv, Decode
  PROVE  \E m : \E S : DecodesUpTo(m, S)
<1> DEFINE Count(s) == Cardinality({i \in DOMAIN s : s[i] \in Decoding})
           n == Count(DECODE)
           k == Count(DIB_HIT)
           S == {Resumed(e) : e \in Entries(SubSeq(DECODE, 1, n))} \cup
                {[e EXCEPT !.wait = DISPATCH_LATENCY] : e \in Entries(SubSeq(DIB_HIT, 1, k))}
<1>1. /\ DISPATCH' = DISPATCH \o InOrder(S)
      /\ DECODE' = Drop(DECODE, n)
      /\ DIB_HIT' = Drop(DIB_HIT, k)
      /\ fetch_resume' = IF \E e \in Entries(SubSeq(DECODE, 1, n)) : SeenAtDecode(e)
                         THEN BRANCH_MISPREDICT_PENALTY ELSE fetch_resume
      /\ UNCHANGED <<input, IFETCH, dispatched, unresolved>>
  BY DEF Decode
<1>2. PICK m \in Oldest - 1 .. Youngest : \A e \in Waiting : e \in Decoding <=> e.id <= m
  BY DecodingStretch
<1>3. m \in Int
  BY <1>2, Places
<1>4. ASSUME NEW s \in Seq(Entry), Entries(s) \subseteq Waiting
      PROVE  Count(s) = Cardinality({i \in DOMAIN s : s[i].id <= m})
  <2>1. \A i \in DOMAIN s : s[i] \in Waiting
    BY <1>4 DEF Entries
  <2>2. {i \in DOMAIN s : s[i] \in Decoding} = {i \in DOMAIN s : s[i].id <= m}
    BY <1>2, <2>1
  <2> QED BY <2>2
<1>5. /\ DECODE \in Seq(Entry) /\ DIB_HIT \in Seq(Entry) /\ Rising(DECODE) /\ Rising(DIB_HIT)
      /\ Entries(DECODE) \subseteq Waiting /\ Entries(DIB_HIT) \subseteq Waiting
  BY DEF TypeInv, OrderInv, Waiting
<1>6. /\ n = Cardinality({i \in DOMAIN DECODE : DECODE[i].id <= m})
      /\ k = Cardinality({i \in DOMAIN DIB_HIT : DIB_HIT[i].id <= m})
  BY <1>4, <1>5
<1> HIDE DEF n, k
<1>7. /\ n \in 0 .. Len(DECODE)
      /\ Entries(Drop(DECODE, n)) = {e \in Entries(DECODE) : e.id > m}
      /\ Entries(SubSeq(DECODE, 1, n)) = {e \in Entries(DECODE) : e.id <= m}
  BY <1>3, <1>5, <1>6, Cut
<1>8. /\ k \in 0 .. Len(DIB_HIT)
      /\ Entries(Drop(DIB_HIT, k)) = {e \in Entries(DIB_HIT) : e.id > m}
      /\ Entries(SubSeq(DIB_HIT, 1, k)) = {e \in Entries(DIB_HIT) : e.id <= m}
  BY <1>3, <1>5, <1>6, Cut
<1>9. /\ \A g \in S :
            \/ \E e \in Entries(DECODE) : e.id <= m /\ g = Resumed(e)
            \/ \E e \in Entries(DIB_HIT) : e.id <= m /\ g = [e EXCEPT !.wait = DISPATCH_LATENCY]
      /\ \A e \in Entries(DECODE) : e.id <= m => Resumed(e) \in S
      /\ \A e \in Entries(DIB_HIT) : e.id <= m => [e EXCEPT !.wait = DISPATCH_LATENCY] \in S
  BY <1>7, <1>8
<1> HIDE DEF S
<1>10. /\ S \in SUBSET Entry
       /\ \A g \in S : \E e \in Waiting : e.id <= m /\ Becomes(e, g)
       /\ \A e \in Waiting : e.id <= m => \E g \in S : Becomes(e, g)
       /\ \A g, h \in S : g.id = h.id => g = h
  BY <1>3, <1>9, DecodedEntries
<1>11. /\ DECODE' \in Seq(Entry) /\ Rising(DECODE') /\ Len(DECODE') <= Len(DECODE)
       /\ Entries(DECODE') = {e \in Entries(DECODE) : e.id > m}
  <2>1. /\ DECODE' \in Seq(Entry) /\ Rising(DECODE') /\ Len(DECODE') = Len(DECODE) - n
    BY <1>1, <1>5, <1>7, Halves
  <2>2. Len(DECODE) \in Nat /\ n \in Nat
    BY <1>5, <1>7, EntriesFacts
  <2>3. Len(DECODE') <= Len(DECODE)
    BY <2>1, <2>2
  <2> QED BY <1>1, <1>7, <2>1, <2>3
<1>12. /\ DIB_HIT' \in Seq(Entry) /\ Rising(DIB_HIT') /\ Len(DIB_HIT') <= Len(DIB_HIT)
       /\ Entries(DIB_HIT') = {e \in Entries(DIB_HIT) : e.id > m}
  <2>1. /\ DIB_HIT' \in Seq(Entry) /\ Rising(DIB_HIT') /\ Len(DIB_HIT') = Len(DIB_HIT) - k
    BY <1>1, <1>5, <1>8, Halves
  <2>2. Len(DIB_HIT) \in Nat /\ k \in Nat
    BY <1>5, <1>8, EntriesFacts
  <2>3. Len(DIB_HIT') <= Len(DIB_HIT)
    BY <2>1, <2>2
  <2> QED BY <1>1, <1>8, <2>1, <2>3
<1>13. (\E e \in Entries(SubSeq(DECODE, 1, n)) : SeenAtDecode(e))
         <=> (\E e \in Waiting : e.id <= m /\ Cleared(e))
  BY <1>5, <1>7 DEF Cleared
<1>14. DecodesUpTo(m, S)
  BY <1>1, <1>2, <1>10, <1>11, <1>12, <1>13 DEF DecodesUpTo
<1> QED BY <1>14

LEMMA DecodeFront == ASSUME FrontInv, Decode PROVE FrontInv'
<1>1. TypeInv /\ OrderInv /\ UnresolvedOld /\ StopsBehindMispredict
  BY DEF FrontInv
<1>2. PICK m : \E S : DecodesUpTo(m, S)
  BY <1>1, DecodeStep
<1>3. PICK S : DecodesUpTo(m, S)
  BY <1>2
<1> DEFINE t == InOrder(S)
<1>4. /\ dispatched \in Nat /\ input \in Nat /\ Oldest \in Int /\ Youngest \in Int
      /\ Oldest = dispatched + Len(DISPATCH) + 1
      /\ Len(DISPATCH) \in Nat /\ Oldest <= Youngest + 1
  BY <1>1, Places
<1>5. m \in Int /\ Oldest <= m + 1 /\ m <= Youngest
  BY <1>3, <1>4 DEF DecodesUpTo
<1>6. {g.id : g \in S} = Oldest .. m
  <2>1. /\ \A g \in S : \E e \in Waiting : e.id <= m /\ g.id = e.id
        /\ \A e \in Waiting : e.id <= m => \E g \in S : g.id = e.id
    BY <1>3 DEF DecodesUpTo, Becomes
  <2>2. {e.id : e \in Waiting} = Oldest .. Youngest
    BY <1>1, WaitingFacts
  <2>3. ASSUME NEW g \in S PROVE g.id \in Oldest .. m
    <3>1. PICK e \in Waiting : e.id <= m /\ g.id = e.id
      BY <2>1
    <3>2. e.id \in Oldest .. Youngest
      BY <2>2
    <3> QED BY <1>4, <1>5, <3>1, <3>2
  <2>4. ASSUME NEW x \in Oldest .. m PROVE x \in {g.id : g \in S}
    <3>1. x \in Oldest .. Youngest /\ x <= m
      BY <1>4, <1>5
    <3>2. PICK e \in Waiting : e.id = x
      BY <2>2, <3>1
    <3>3. PICK g \in S : g.id = x
      BY <2>1, <3>1, <3>2
    <3> QED BY <3>3
  <2> QED BY <2>3, <2>4
<1>7. /\ t \in Seq(Entry) /\ Len(t) = m - Oldest + 1
      /\ \A k \in DOMAIN t : t[k] \in S /\ t[k].id = Oldest + k - 1
      /\ \A g \in S : \E k \in DOMAIN t : t[k] = g
  <2>1. S \in SUBSET Entry /\ \A g, h \in S : g.id = h.id => g = h
    BY <1>3 DEF DecodesUpTo
  <2>2. (\A e \in S : e.id \in Oldest .. m) /\ (\A x \in Oldest .. m : \E e \in S : e.id = x)
    BY <1>6
  <2> QED BY <1>4, <1>5, <2>1, <2>2, Merged
<1> HIDE DEF t
<1>8. DISPATCH \in Seq(Entry) /\ DISPATCH' = DISPATCH \o t
  BY <1>1, <1>3 DEF DecodesUpTo, TypeInv, t
<1>9. DISPATCH' \in Seq(Entry) /\ Len(DISPATCH') = Len(DISPATCH) + (m - Oldest + 1)
  <2>1. DISPATCH \o t \in Seq(Entry) /\ Len(DISPATCH \o t) = Len(DISPATCH) + Len(t)
    BY <1>7, <1>8, Joined
  <2> QED BY <1>7, <1>8, <2>1
<1>10. Oldest' = m + 1 /\ Youngest' = Youngest
  <2>1. input' = input /\ IFETCH' = IFETCH /\ dispatched' = dispatched
    BY <1>3 DEF DecodesUpTo
  <2>2. Oldest' = dispatched' + Len(DISPATCH') + 1 /\ Youngest' = input' - 1 - Len(IFETCH')
        /\ Youngest = input - 1 - Len(IFETCH)
    BY DEF Oldest, Youngest
  <2> QED BY <1>4, <1>5, <1>9, <2>1, <2>2
<1>11. TypeInv'
  <2>1. fetch_resume' \in 0 .. Never
    BY <1>1, <1>3, Sizes DEF DecodesUpTo, TypeInv
  <2>2. Len(DIB_HIT') <= DIB_HIT_BUFFER_SIZE /\ Len(DECODE') <= DECODE_BUFFER_SIZE
    <3>1. /\ DIB_HIT' \in Seq(Entry) /\ Len(DIB_HIT') <= Len(DIB_HIT)
          /\ DECODE' \in Seq(Entry) /\ Len(DECODE') <= Len(DECODE)
      BY <1>3 DEF DecodesUpTo
    <3>2. /\ Len(DIB_HIT') \in Nat /\ Len(DECODE') \in Nat
          /\ Len(DIB_HIT) \in Nat /\ Len(DECODE) \in Nat
          /\ Len(DIB_HIT) <= DIB_HIT_BUFFER_SIZE /\ Len(DECODE) <= DECODE_BUFFER_SIZE
      BY <1>1, <3>1, EntriesFacts DEF TypeInv
    <3> QED BY <3>1, <3>2, Sizes
  <2>3. /\ input' \in Nat /\ dispatched' \in Nat /\ IFETCH' \in Seq(Entry)
        /\ DIB_HIT' \in Seq(Entry) /\ DECODE' \in Seq(Entry)
    BY <1>1, <1>3 DEF DecodesUpTo, TypeInv
  <2> QED BY <1>9, <2>1, <2>2, <2>3 DEF TypeInv
<1>12. OrderInv'
  <2>1. \A i \in DOMAIN DISPATCH' : DISPATCH'[i].id = dispatched' + i
    <3> SUFFICES ASSUME NEW i \in DOMAIN DISPATCH' PROVE DISPATCH'[i].id = dispatched + i
      BY <1>3 DEF DecodesUpTo
    <3>1. CASE i \in DOMAIN DISPATCH
      <4>1. DISPATCH'[i] = DISPATCH[i]
        BY <1>7, <1>8, <3>1, Joined
      <4> QED BY <1>1, <3>1, <4>1 DEF OrderInv
    <3>2. CASE i - Len(DISPATCH) \in DOMAIN t /\ DISPATCH'[i] = t[i - Len(DISPATCH)]
      <4>1. DISPATCH'[i].id = Oldest + (i - Len(DISPATCH)) - 1
        BY <1>7, <3>2
      <4>2. i \in Int
        BY <1>9, EntriesFacts
      <4> QED BY <1>4, <4>1, <4>2
    <3> QED BY <1>7, <1>8, <3>1, <3>2, Joined
  <2>2. \A i \in DOMAIN IFETCH' : IFETCH'[i].id = Youngest' + i
    BY <1>1, <1>3, <1>10 DEF DecodesUpTo, OrderInv
  <2>3. Rising(DIB_HIT') /\ Rising(DECODE')
    BY <1>3 DEF DecodesUpTo
  <2>4. \A s : Ids(s) = {e.id : e \in Entries(s)}
    BY DEF Ids, Entries
  <2>5. Ids(DIB_HIT') \subseteq Ids(DIB_HIT) /\ Ids(DECODE') \subseteq Ids(DECODE)
    BY <1>3, <2>4 DEF DecodesUpTo
  <2>6. Ids(DIB_HIT') \cap Ids(DECODE') = {}
    BY <1>1, <2>5 DEF OrderInv
  <2>7. Ids(DIB_HIT') \cup Ids(DECODE') = m + 1 .. Youngest
    <3>1. Ids(DIB_HIT) \cup Ids(DECODE) = Oldest .. Youngest
      BY <1>1 DEF OrderInv
    <3>2. /\ Ids(DIB_HIT') = {x \in Ids(DIB_HIT) : x > m}
          /\ Ids(DECODE') = {x \in Ids(DECODE) : x > m}
      BY <1>3, <2>4 DEF DecodesUpTo
    <3>3. {x \in Oldest .. Youngest : x > m} = m + 1 .. Youngest
      BY <1>4, <1>5
    <3> QED BY <3>1, <3>2, <3>3
  <2>8. Oldest' <= Youngest' + 1
    BY <1>4, <1>5, <1>10
  <2> QED BY <1>10, <2>1, <2>2, <2>3, <2>6, <2>7, <2>8 DEF OrderInv
<1>13. UnresolvedOld'
  BY <1>1, <1>3 DEF DecodesUpTo, UnresolvedOld
<1> DEFINE Hits == {e \in Waiting : e.branch_mispredicted}
           Kept == {e \in Hits : ~(e.id <= m /\ Cleared(e))}
           Others == unresolved \cup Flagged(DISPATCH) \cup Flagged(IFETCH)
<1>14. MispredictedInFlight = Others \cup {e.id : e \in Hits}
  <2>1. Flagged(DIB_HIT) \cup Flagged(DECODE) = {e.id : e \in Hits}
    BY DEF Flagged, Waiting
  <2> QED BY <2>1, InFlight
<1>15. MispredictedInFlight' = Others \cup {e.id : e \in Kept}
  <2>1. Entries(t) = S
    BY <1>7 DEF Entries
  <2>2. Flagged(DISPATCH') = Flagged(DISPATCH) \cup {g.id : g \in {h \in S : h.branch_mispredicted}}
    <3>1. Flagged(t) = {g.id : g \in {h \in S : h.branch_mispredicted}}
      BY <2>1 DEF Flagged
    <3> QED BY <1>7, <1>8, <3>1, Appended
  <2>3. {g.id : g \in {h \in S : h.branch_mispredicted}} = {e.id : e \in {f \in Kept : f.id <= m}}
    <3>1. /\ \A g \in S : \E e \in Waiting : e.id <= m /\ Becomes(e, g)
          /\ \A e \in Waiting : e.id <= m => \E g \in S : Becomes(e, g)
      BY <1>3 DEF DecodesUpTo
    <3>2. ASSUME NEW g \in S, g.branch_mispredicted
          PROVE  \E e \in Kept : e.id <= m /\ e.id = g.id
      BY <3>1, <3>2 DEF Becomes
    <3>3. ASSUME NEW e \in Kept, e.id <= m
          PROVE  \E g \in S : g.branch_mispredicted /\ g.id = e.id
      BY <3>1, <3>3 DEF Becomes
    <3> QED BY <3>2, <3>3
  <2>4. Flagged(DIB_HIT') \cup Flagged(DECODE') = {e.id : e \in {f \in Kept : f.id > m}}
    <3>1. Entries(DIB_HIT') \cup Entries(DECODE') = {e \in Waiting : e.id > m}
      BY <1>3 DEF DecodesUpTo, Waiting
    <3>2. Flagged(DIB_HIT') \cup Flagged(DECODE')
            = {e.id : e \in {f \in Entries(DIB_HIT') \cup Entries(DECODE') : f.branch_mispredicted}}
      BY DEF Flagged
    <3>3. {f \in {e \in Waiting : e.id > m} : f.branch_mispredicted} = {f \in Kept : f.id > m}
      <4>1. \A e \in Waiting : e.id \in Int
        BY <1>1, Places
      <4>2. \A e \in Waiting : e.id > m => ~(e.id <= m)
        BY <1>5, <4>1
      <4> QED BY <4>2
    <3> QED BY <3>1, <3>2, <3>3
  <2>5. {e.id : e \in {f \in Kept : f.id <= m}} \cup {e.id : e \in {f \in Kept : f.id > m}}
          = {e.id : e \in Kept}
    <3>1. \A e \in Kept : e.id <= m \/ e.id > m
      <4>1. \A e \in Waiting : e.id \in Int
        BY <1>1, Places
      <4> QED BY <1>5, <4>1
    <3> QED BY <3>1
  <2>6. Flagged(IFETCH') = Flagged(IFETCH) /\ unresolved' = unresolved
    BY <1>3 DEF DecodesUpTo
  <2> HIDE DEF Kept
  <2> QED BY <2>2, <2>3, <2>4, <2>5, <2>6, InFlightNext
<1>16. MispredictedInFlight = IF fetch_resume = Never THEN {input - 1} ELSE {}
  BY <1>1 DEF StopsBehindMispredict
<1>17. \A e \in Waiting : Cleared(e) => e.branch_mispredicted
  BY DEF Cleared, SeenAtDecode
<1>18. StopsBehindMispredict'
  <2>1. CASE \E e \in Waiting : e.id <= m /\ Cleared(e)
    <3>1. PICK b \in Waiting : b.id <= m /\ Cleared(b)
      BY <2>1
    <3>2. b \in Hits /\ MispredictedInFlight = {b.id}
      BY <1>14, <1>16, <1>17, <3>1
    <3>3. ASSUME NEW x \in Others PROVE x # b.id
      <4>1. b.id \in Int /\ Oldest <= b.id /\ b.id <= Youngest
        BY <1>1, Places
      <4>2. CASE x \in unresolved
        <5>1. x \in Int /\ x <= dispatched
          BY <1>1, <1>4, <4>2 DEF UnresolvedOld
        <5> QED BY <1>4, <4>1, <5>1
      <4>3. CASE x \in Flagged(DISPATCH)
        <5>1. PICK e \in Entries(DISPATCH) : e.id = x
          BY <4>3, FlaggedIn
        <5>2. e.id \in Int /\ e.id < Oldest
          BY <1>1, Places
        <5> QED BY <1>4, <4>1, <5>1, <5>2
      <4>4. CASE x \in Flagged(IFETCH)
        <5>1. PICK e \in Entries(IFETCH) : e.id = x
          BY <4>4, FlaggedIn
        <5>2. e.id \in Int /\ Youngest < e.id
          BY <1>1, Places
        <5> QED BY <1>4, <4>1, <5>1, <5>2
      <4> QED BY <4>2, <4>3, <4>4
    <3>4. Others = {}
      BY <1>14, <3>2, <3>3
    <3>5. Kept = {}
      <4>1. \A e, f \in Waiting : e.id = f.id => e = f
        BY <1>1, WaitingFacts
      <4>2. \A e \in Hits : e.id = b.id
        BY <1>14, <3>2
      <4> QED BY <3>1, <4>1, <4>2
    <3>6. MispredictedInFlight' = {}
      BY <1>15, <3>4, <3>5
    <3>7. fetch_resume' = BRANCH_MISPREDICT_PENALTY
      BY <1>3, <2>1 DEF DecodesUpTo
    <3>8. fetch_resume' # Never
      BY <3>7, Sizes
    <3> QED BY <3>6, <3>8 DEF StopsBehindMispredict, Never
  <2>2. CASE ~ \E e \in Waiting : e.id <= m /\ Cleared(e)
    <3>1. Kept = Hits
      BY <2>2
    <3>2. MispredictedInFlight' = MispredictedInFlight
      BY <1>14, <1>15, <3>1
    <3>3. fetch_resume' = fetch_resume /\ input' = input
      BY <1>3, <2>2 DEF DecodesUpTo
    <3>4. MispredictedInFlight' = IF fetch_resume' = Never THEN {input' - 1} ELSE {}
      BY <1>16, <3>2, <3>3
    <3> QED BY <3>4 DEF StopsBehindMispredict, Never
  <2> QED BY <2>1, <2>2
<1> QED BY <1>11, <1>12, <1>13, <1>18 DEF FrontInv

--------------------------------------------------------------------------------
(* The results *)

LEMMA FrontSteps == ASSUME FrontInv, [Next]_vars PROVE FrontInv'
<1>1. CASE \E B \in SUBSET unresolved : Complete(B)
  BY <1>1, CompleteFront
<1>2. CASE ServeInstruction
  BY <1>2, ServeFront
<1>3. CASE PopResponse \/ EndReturn \/ EndFetch \/ (\E S \in SUBSET DOMAIN asked : Answer(S))
            \/ UNCHANGED vars
  <2>1. UNCHANGED <<input, IFETCH, DIB_HIT, DECODE, DISPATCH, fetch_resume, dispatched, unresolved>>
    BY <1>3 DEF PopResponse, EndReturn, EndFetch, Answer, vars, buffers
  <2>2. Alike(IFETCH, IFETCH)
    BY FetchAlike DEF FrontInv
  <2> QED BY <2>1, <2>2, QuietInv
<1>4. CASE \E n \in 0 .. Len(DISPATCH) : Dispatch(n)
  BY <1>4, DispatchFront
<1>5. CASE Decode
  BY <1>5, DecodeFront
<1>6. CASE Promote
  BY <1>6, PromoteFront
<1>7. CASE \E accepted \in BOOLEAN : FetchChunk(accepted)
  BY <1>7, FetchChunkFront
<1>8. CASE CheckDib
  BY <1>8, CheckDibFront
<1>9. CASE \E taken, right \in BOOLEAN : InitInstruction(taken, right)
  BY <1>9, InitInstructionFront
<1>10. CASE EndCycle
  BY <1>10, EndCycleFront
<1> QED BY <1>1, <1>2, <1>3, <1>4, <1>5, <1>6, <1>7, <1>8, <1>9, <1>10 DEF Next

(* Every instruction read is in one place and in program order, and fetch is *)
(* stopped behind one branch: FrontInv always holds.                         *)
THEOREM FrontEndInvariant == Spec => []FrontInv
<1>1. Init => FrontInv
  BY InitFront
<1>2. FrontInv /\ [Next]_vars => FrontInv'
  BY FrontSteps
<1> QED BY <1>1, <1>2, PTL DEF Spec

(* Buffers that are rising, apart and cover an interval are as long as it is. *)
LEMMA OrderShown == ASSUME TypeInv, OrderInv PROVE ProgramOrder
<1>1. /\ DIB_HIT \in Seq(Entry) /\ DECODE \in Seq(Entry)
      /\ Oldest \in Int /\ Youngest \in Int /\ Oldest <= Youngest + 1
      /\ Oldest = dispatched + Len(DISPATCH) + 1 /\ Youngest = input - 1 - Len(IFETCH)
      /\ dispatched \in Nat /\ input \in Nat /\ Len(DISPATCH) \in Nat /\ Len(IFETCH) \in Nat
  BY Places DEF TypeInv
<1>2. ASSUME NEW s \in Seq(Entry), Rising(s)
      PROVE  IsFiniteSet(Ids(s)) /\ Cardinality(Ids(s)) = Len(s)
  <2> DEFINE f == [i \in 1 .. Len(s) |-> s[i].id]
  <2>1. DOMAIN s = 1 .. Len(s) /\ Len(s) \in Nat
    BY EntriesFacts
  <2>2. \A i, j \in 1 .. Len(s) : f[i] = f[j] => i = j
    BY <1>2, <2>1, RisingApart
  <2>3. f \in [1 .. Len(s) -> Ids(s)] /\ \A x \in Ids(s) : \E i \in 1 .. Len(s) : f[i] = x
    BY <2>1 DEF Ids
  <2> HIDE DEF f
  <2>4. f \in Surjection(1 .. Len(s), Ids(s)) /\ f \in Injection(1 .. Len(s), Ids(s))
    BY <2>2, <2>3 DEF Surjection, Injection, IsInjective
  <2>5. IsFiniteSet(1 .. Len(s)) /\ Cardinality(1 .. Len(s)) = Len(s)
    <3>1. 1 <= Len(s) + 1 /\ Len(s) - 1 + 1 = Len(s)
      BY <2>1
    <3> QED BY <2>1, <3>1, IntervalSize
  <2> QED BY <2>4, <2>5, FS_Surjection
<1>3. Len(DIB_HIT) + Len(DECODE) = Youngest - Oldest + 1
  <2>1. /\ Rising(DIB_HIT) /\ Rising(DECODE) /\ Ids(DIB_HIT) \cap Ids(DECODE) = {}
        /\ Ids(DIB_HIT) \cup Ids(DECODE) = Oldest .. Youngest
    BY DEF OrderInv
  <2>2. /\ IsFiniteSet(Ids(DIB_HIT)) /\ Cardinality(Ids(DIB_HIT)) = Len(DIB_HIT)
        /\ IsFiniteSet(Ids(DECODE)) /\ Cardinality(Ids(DECODE)) = Len(DECODE)
    BY <1>1, <1>2, <2>1
  <2>3. Cardinality({}) = 0
    BY FS_EmptySet
  <2>4. Cardinality(Oldest .. Youngest) = Len(DIB_HIT) + Len(DECODE) - 0
    <3>1. Cardinality(Ids(DIB_HIT) \cup Ids(DECODE))
            = Cardinality(Ids(DIB_HIT)) + Cardinality(Ids(DECODE))
                - Cardinality(Ids(DIB_HIT) \cap Ids(DECODE))
      BY <2>2, FS_Union
    <3> QED BY <2>1, <2>2, <2>3, <3>1
  <2>5. Cardinality(Oldest .. Youngest) = Youngest - Oldest + 1
    BY <1>1, IntervalSize
  <2>6. Len(DIB_HIT) \in Nat /\ Len(DECODE) \in Nat
    BY <1>1, EntriesFacts
  <2> QED BY <2>4, <2>5, <2>6
<1>4. Len(DIB_HIT) + Len(DECODE) = input - 1 - Len(IFETCH) - dispatched - Len(DISPATCH)
  BY <1>1, <1>3
<1>5. {e.id : e \in Entries(DIB_HIT) \cup Entries(DECODE)}
        = dispatched + Len(DISPATCH) + 1 .. input - 1 - Len(IFETCH)
  BY <1>1, WaitingFacts DEF Waiting
<1> QED BY <1>1, <1>4, <1>5 DEF ProgramOrder, OrderInv

(* Instructions reach the ROB in program order: what is still in the front   *)
(* end is every other instruction read so far, each exactly once, however    *)
(* the two ways through decode interleave.                                   *)
THEOREM InstructionsInOrder == Spec => []ProgramOrder
<1>1. FrontInv => ProgramOrder
  BY OrderShown DEF FrontInv
<1> QED BY <1>1, FrontEndInvariant, PTL

(* Fetch is stopped exactly while one mispredicted branch is on its way, and  *)
(* that branch is the youngest instruction read: nobody resumes fetch twice   *)
(* for one branch, and fetch never stops with nobody left to resume it.       *)
THEOREM FetchStopsBehindMispredict == Spec => []StopsBehindMispredict
<1>1. FrontInv => StopsBehindMispredict
  BY DEF FrontInv
<1> QED BY <1>1, FrontEndInvariant, PTL
===============================================================================
