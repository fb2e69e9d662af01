------------------------------- MODULE DramProofs -------------------------------
(***************************************************************************)
(* Proofs about the DRAM controller, for any queues, banks, rows, times    *)
(* and upper channels, whatever they ask for and when.                     *)
(*                                                                         *)
(* The bank state and the queues refer to each other: a valid bank has the *)
(* slot it works on, and a scheduled slot the bank of its address.  This   *)
(* Match is kept by each function of operate(), one after the other, where *)
(* they change both sides at once; what it needs besides is that nothing   *)
(* is scheduled before its collisions are checked, so that no collision    *)
(* removes a slot that a bank works on.  The answers are right because     *)
(* each request that somebody waits for is in one place at a time, merged  *)
(* or not: in the upper queues, in RQ or among the answers.                *)
(***************************************************************************)
EXTENDS DramChannel, PositionProofs, FunctionTheorems, SequenceTheorems

OwnQueue == {"RQ", "WQ"}
Request == [addr : Block, response_requested : BOOLEAN]
Packet == [used : {TRUE}, addr : Block, to_return : SUBSET Upper, forward_checked : BOOLEAN,
           scheduled : BOOLEAN, age : Nat]
Slots(n) == [1 .. n -> Packet \cup {NoEntry}]
Place == {<<>>} \cup (OwnQueue \X Nat)
BankRequest == [valid : BOOLEAN, need_refresh : BOOLEAN, under_refresh : BOOLEAN,
                open_row : Nat, wait : Int, pkt : Place]
Channel == [RQ : Slots(RQ_SIZE), WQ : Slots(WQ_SIZE), bank : [Bank -> BankRequest],
            active : {NoBank} \cup Bank, write_mode : BOOLEAN, dbus_wait : Int,
            group_wait : [Group -> Int], refresh_wait : Int]
UpperQueues == [Queue -> Seq(Request)]

TypeInv ==
  /\ upper_queue \in [Upper -> UpperQueues]
  /\ asked \in [Upper -> SUBSET Block]
  /\ returned \in [Upper -> Seq(Block)]
  /\ chan \in Channel
  /\ todo \subseteq Upper

(* Slot i of queue q is what bank k works on. *)
Works(c, k, q, i) == c.bank[k].valid /\ c.bank[k].pkt = <<q, i>>
Busy(c, q, i) == c[q][i].used /\ c[q][i].scheduled

(* Banks and slots match; a slot is checked before it is scheduled; the bank *)
(* on the data bus has something to send.                                    *)
Match(c) ==
  /\ \A k \in Bank : c.bank[k].valid =>
       \E q \in OwnQueue : \E i \in DOMAIN c[q] :
         Works(c, k, q, i) /\ Busy(c, q, i) /\ BankOf[c[q][i].addr] = k
  /\ \A q \in OwnQueue : \A i \in DOMAIN c[q] :
       Busy(c, q, i) => Works(c, BankOf[c[q][i].addr], q, i) /\ c[q][i].forward_checked
  /\ c.active # NoBank => c.bank[c.active].valid
  /\ \A i \in Used(c.WQ) : c.WQ[i].to_return = {}

Idle(c) == \A q \in OwnQueue : \A i \in DOMAIN c[q] : ~Busy(c, q, i)

BankInv ==
  /\ Match(chan)
  /\ warmup => Idle(chan)
  /\ stage = "collisions" =>
       Unchecked(chan.WQ) = {} /\ (warmup => Used(chan.WQ) = {})

(* Where the request of channel u for block b is. *)
Awaits(r, b) == r.addr = b /\ r.response_requested
IsQueued(qs, b) == \E q \in Queue : \E i \in DOMAIN qs[q] : Awaits(qs[q][i], b)
Holds(queue, u, b, i) == i \in Used(queue) /\ queue[i].addr = b /\ u \in queue[i].to_return
IsHeld(queue, u, b) == \E i \in DOMAIN queue : Holds(queue, u, b, i)
IsReturned(ret, b) == \E i \in DOMAIN ret : ret[i] = b

(* It is in one place, once, exactly while it is waited for. *)
WaitsOnce(A, qs, queue, ret, u) ==
  \A b \in Block :
    /\ b \in A <=> IsQueued(qs, b) \/ IsHeld(queue, u, b) \/ IsReturned(ret, b)
    /\ ~(IsQueued(qs, b) /\ IsHeld(queue, u, b))
    /\ ~(IsQueued(qs, b) /\ IsReturned(ret, b))
    /\ ~(IsHeld(queue, u, b) /\ IsReturned(ret, b))
    /\ \A p, q \in Queue : \A i \in DOMAIN qs[p], j \in DOMAIN qs[q] :
         Awaits(qs[p][i], b) /\ Awaits(qs[q][j], b) => p = q /\ i = j
    /\ \A i, j \in DOMAIN queue : Holds(queue, u, b, i) /\ Holds(queue, u, b, j) => i = j
    /\ \A i, j \in DOMAIN ret : ret[i] = b /\ ret[j] = b => i = j

(* Nobody waits for a write. *)
WritesPosted(qs) == \A i \in DOMAIN qs["WQ"] : ~qs["WQ"][i].response_requested

WaitInv ==
  \A u \in Upper :
    WritesPosted(upper_queue[u]) /\ WaitsOnce(asked[u], upper_queue[u], chan.RQ, returned[u], u)

DramInv == TypeInv /\ BankInv /\ WaitInv

--------------------------------------------------------------------------------
(* Types *)

LEMMA Sizes ==
  /\ RQ_SIZE \in Nat /\ WQ_SIZE \in Nat /\ NumBanks \in Nat \ {0}
  /\ NoBank \notin Bank
  /\ \A b \in Block : BankOf[b] \in Bank /\ RowOf[b] \in Nat /\ GroupOf[b] \in Group
  /\ tRP \in Nat /\ tRCD \in Nat /\ tCAS \in Nat /\ tREF \in Nat /\ tRFC \in Nat
  /\ DRAM_DBUS_TURN_AROUND_TIME \in Nat /\ DRAM_DBUS_RETURN_TIME \in Nat
  /\ DRAM_DBUS_BANKGROUP_STALL \in Nat
  BY DramAssumption DEF DramAssumption, Bank, Group, NoBank

LEMMA EmptySlot == NoEntry.used = FALSE /\ NoEntry \notin Packet
<1>1. NoEntry.used = FALSE
  BY DEF NoEntry
<1>2. \A e \in Packet : e.used = TRUE
  BY DEF Packet
<1> QED BY <1>1, <1>2

LEMMA SlotFacts ==
  ASSUME NEW n \in Nat, NEW s \in Slots(n)
  PROVE  /\ DOMAIN s = 1 .. n /\ Used(s) \subseteq 1 .. n
         /\ \A i \in 1 .. n : /\ s[i] \in Packet \/ s[i] = NoEntry
                              /\ i \in Used(s) <=> s[i] \in Packet
                              /\ i \in Used(s) <=> s[i].used
                              /\ i \notin Used(s) <=> s[i] = NoEntry
                              /\ s[i] \in Packet => s[i].used
<1>1. \A i \in 1 .. n : s[i] \in Packet \/ s[i] = NoEntry
  BY DEF Slots
<1>2. \A e \in Packet : e.used = TRUE
  BY DEF Packet
<1> QED BY <1>1, <1>2, EmptySlot DEF Slots, Used

LEMMA ChannelFacts ==
  ASSUME NEW c \in Channel
  PROVE  /\ c.RQ \in Slots(RQ_SIZE) /\ c.WQ \in Slots(WQ_SIZE)
         /\ c["RQ"] = c.RQ /\ c["WQ"] = c.WQ
         /\ DOMAIN c.RQ = 1 .. RQ_SIZE /\ DOMAIN c.WQ = 1 .. WQ_SIZE
         /\ c.bank \in [Bank -> BankRequest]
         /\ \A k \in Bank : c.bank[k] \in BankRequest
         /\ c.active = NoBank \/ c.active \in Bank
         /\ \A q \in OwnQueue : \A i \in DOMAIN c[q] :
              (c[q][i] \in Packet \/ c[q][i] = NoEntry) /\ (c[q][i].used => c[q][i] \in Packet)
<1>1. /\ c.RQ \in Slots(RQ_SIZE) /\ c.WQ \in Slots(WQ_SIZE)
      /\ c["RQ"] = c.RQ /\ c["WQ"] = c.WQ /\ c.bank \in [Bank -> BankRequest]
      /\ c.active = NoBank \/ c.active \in Bank
  BY DEF Channel
<1>2. /\ \A i \in DOMAIN c.RQ : c.RQ[i] \in Packet \/ c.RQ[i] = NoEntry
      /\ \A i \in DOMAIN c.WQ : c.WQ[i] \in Packet \/ c.WQ[i] = NoEntry
      /\ DOMAIN c.RQ = 1 .. RQ_SIZE /\ DOMAIN c.WQ = 1 .. WQ_SIZE
  BY <1>1 DEF Slots
<1> QED BY <1>1, <1>2, EmptySlot DEF OwnQueue

LEMMA PacketFacts ==
  ASSUME NEW e \in Packet
  PROVE  /\ e.addr \in Block /\ e.to_return \subseteq Upper /\ e.used = TRUE
         /\ e.forward_checked \in BOOLEAN /\ e.scheduled \in BOOLEAN
         /\ BankOf[e.addr] \in Bank
<1>1. e.addr \in Block /\ e.to_return \subseteq Upper /\ e.used = TRUE
      /\ e.forward_checked \in BOOLEAN /\ e.scheduled \in BOOLEAN
  BY DEF Packet
<1> QED BY <1>1, Sizes

--------------------------------------------------------------------------------
(* Match and what leaves it alone *)

(* The slots of t are those of s, but for their ages. *)
Alike(s, t) ==
  /\ DOMAIN t = DOMAIN s
  /\ \A i \in DOMAIN s :
       /\ t[i].used = s[i].used
       /\ s[i].used => /\ t[i].addr = s[i].addr /\ t[i].to_return = s[i].to_return
                       /\ t[i].forward_checked = s[i].forward_checked
                       /\ t[i].scheduled = s[i].scheduled

Similar(c, d) ==
  /\ Alike(c.RQ, d.RQ) /\ Alike(c.WQ, d.WQ)
  /\ \A k \in Bank : d.bank[k].valid = c.bank[k].valid
                     /\ (c.bank[k].valid => d.bank[k].pkt = c.bank[k].pkt)
  /\ d.active # NoBank => d.bank[d.active].valid

(* d has no slot in use that c has not, and has it checked as c has. *)
Fewer(c, d) ==
  \A q \in OwnQueue : DOMAIN d[q] = DOMAIN c[q] /\
    \A i \in DOMAIN c[q] :
      d[q][i].used => c[q][i].used /\ d[q][i].forward_checked = c[q][i].forward_checked

LEMMA FewerFacts ==
  /\ \A c : Fewer(c, c)
  /\ \A c, d, e : Fewer(c, d) /\ Fewer(d, e) => Fewer(c, e)
<1>1. \A c : Fewer(c, c)
  BY DEF Fewer
<1>2. \A c, d, e : Fewer(c, d) /\ Fewer(d, e) => Fewer(c, e)
  BY DEF Fewer
<1> QED BY <1>1, <1>2

LEMMA AlikeItself == \A s : Alike(s, s)
  BY DEF Alike

LEMMA SimilarQueues ==
  ASSUME NEW c \in Channel, NEW d \in Channel, Similar(c, d), NEW q \in OwnQueue
  PROVE  DOMAIN d[q] = DOMAIN c[q] /\
         \A i \in DOMAIN c[q] :
           /\ Busy(d, q, i) <=> Busy(c, q, i)
           /\ Busy(c, q, i) => /\ d[q][i].addr = c[q][i].addr
                               /\ d[q][i].forward_checked = c[q][i].forward_checked
<1>1. c["RQ"] = c.RQ /\ c["WQ"] = c.WQ /\ d["RQ"] = d.RQ /\ d["WQ"] = d.WQ
  BY ChannelFacts
<1>2. Alike(c[q], d[q])
  BY <1>1 DEF Similar, OwnQueue
<1> QED BY <1>2 DEF Alike, Busy

LEMMA SimilarMatch ==
  ASSUME NEW c \in Channel, NEW d \in Channel, Similar(c, d), Match(c)
  PROVE  Match(d) /\ (Idle(c) => Idle(d))
<1>1. \A q \in OwnQueue :
        DOMAIN d[q] = DOMAIN c[q] /\
        \A i \in DOMAIN c[q] :
           /\ Busy(d, q, i) <=> Busy(c, q, i)
           /\ Busy(c, q, i) => /\ d[q][i].addr = c[q][i].addr
                               /\ d[q][i].forward_checked = c[q][i].forward_checked
  BY SimilarQueues
<1>2. \A k \in Bank : \A q, i : Works(d, k, q, i) <=> Works(c, k, q, i)
  BY DEF Similar, Works
<1>3. ASSUME NEW k \in Bank, d.bank[k].valid
      PROVE  \E q \in OwnQueue : \E i \in DOMAIN d[q] :
               Works(d, k, q, i) /\ Busy(d, q, i) /\ BankOf[d[q][i].addr] = k
  <2>1. c.bank[k].valid
    BY <1>3 DEF Similar
  <2>2. \E q \in OwnQueue : \E i \in DOMAIN c[q] :
          Works(c, k, q, i) /\ Busy(c, q, i) /\ BankOf[c[q][i].addr] = k
    BY <2>1 DEF Match
  <2> QED BY <1>1, <1>2, <2>2
<1>4. ASSUME NEW q \in OwnQueue, NEW i \in DOMAIN d[q], Busy(d, q, i)
      PROVE  Works(d, BankOf[d[q][i].addr], q, i) /\ d[q][i].forward_checked
  <2>1. i \in DOMAIN c[q] /\ Busy(c, q, i)
    BY <1>1, <1>4
  <2>2. Works(c, BankOf[c[q][i].addr], q, i) /\ c[q][i].forward_checked
    BY <2>1 DEF Match
  <2>3. c[q][i] \in Packet
    BY <2>1, ChannelFacts DEF Busy
  <2> QED BY <1>1, <1>2, <2>1, <2>2, <2>3, PacketFacts
<1>5. \A i \in Used(d.WQ) : d.WQ[i].to_return = {}
  BY DEF Match, Similar, Alike, Used
<1>6. d.active # NoBank => d.bank[d.active].valid
  BY DEF Similar
<1>7. Idle(c) => Idle(d)
  BY <1>1 DEF Idle
<1> QED BY <1>3, <1>4, <1>5, <1>6, <1>7 DEF Match

--------------------------------------------------------------------------------
(* The functions of operate *)

LEMMA OlderKeeps ==
  ASSUME NEW n \in Nat, NEW s \in Slots(n)
  PROVE  Older(s) \in Slots(n) /\ Alike(s, Older(s))
<1> DEFINE Age(i) == 1 + Cardinality({j \in Waiting(s) : s[j].age < s[i].age})
<1>1. DOMAIN s = 1 .. n /\ Waiting(s) \subseteq 1 .. n
  BY DEF Slots, Waiting, Used
<1>3. \A i : Age(i) \in Nat
  <2> TAKE i
  <2>1. IsFiniteSet(Waiting(s))
    BY <1>1, FS_Interval, FS_Subset
  <2>2. IsFiniteSet({j \in Waiting(s) : s[j].age < s[i].age})
    BY <2>1, FS_Subset
  <2>3. Cardinality({j \in Waiting(s) : s[j].age < s[i].age}) \in Nat
    BY <2>2, FS_CardinalityType
  <2> QED BY <2>3
<1>4. Older(s) = [i \in DOMAIN s |-> IF i \in Waiting(s) THEN [s[i] EXCEPT !.age = Age(i)]
                                                         ELSE s[i]]
  BY DEF Older
<1> HIDE DEF Age
<1>5. \A e \in Packet : \A a \in Nat :
        /\ [e EXCEPT !.age = a] \in Packet
        /\ [e EXCEPT !.age = a].used = e.used /\ [e EXCEPT !.age = a].addr = e.addr
        /\ [e EXCEPT !.age = a].to_return = e.to_return
        /\ [e EXCEPT !.age = a].forward_checked = e.forward_checked
        /\ [e EXCEPT !.age = a].scheduled = e.scheduled
  BY DEF Packet
<1>6. \A i \in 1 .. n : i \in Waiting(s) => s[i] \in Packet
  BY SlotFacts DEF Waiting
<1>7. \A i \in 1 .. n : s[i] \in Packet \cup {NoEntry}
  BY DEF Slots
<1>8. \A i \in 1 .. n : Older(s)[i] \in Packet \cup {NoEntry}
  BY <1>1, <1>3, <1>4, <1>5, <1>6, <1>7
<1>9. Older(s) \in Slots(n)
  BY <1>1, <1>4, <1>8 DEF Slots
<1>10. Alike(s, Older(s))
  BY <1>1, <1>3, <1>4, <1>5, <1>6 DEF Alike
<1> QED BY <1>9, <1>10

(* A bank whose times or refresh have changed still works for whom it did. *)
SameWork(c, B) ==
  /\ B \in [Bank -> BankRequest]
  /\ \A k \in Bank : B[k].valid = c.bank[k].valid
                     /\ (c.bank[k].valid => B[k].pkt = c.bank[k].pkt)

LEMMA SameWorkMatch ==
  ASSUME NEW c \in Channel, Match(c), NEW d \in Channel,
         Alike(c.RQ, d.RQ), Alike(c.WQ, d.WQ), SameWork(c, d.bank),
         d.active = c.active \/ (d.active \in Bank /\ d.bank[d.active].valid)
  PROVE  Match(d) /\ (Idle(c) => Idle(d))
<1>1. d.active # NoBank => d.bank[d.active].valid
  <2>1. CASE d.active = c.active
    BY <2>1, ChannelFacts DEF Match, SameWork
  <2> QED BY <2>1
<1>2. Similar(c, d)
  BY <1>1 DEF Similar, SameWork
<1> QED BY <1>2, SimilarMatch

LEMMA TickKeeps ==
  ASSUME NEW c \in Channel, Match(c)
  PROVE  /\ Tick(c) \in Channel /\ Match(Tick(c)) /\ (Idle(c) => Idle(Tick(c)))
         /\ Alike(c.RQ, Tick(c).RQ)
<1> DEFINE d == Tick(c)
           B == [k \in Bank |-> IF c.bank[k].valid \/ c.bank[k].under_refresh
                                THEN [c.bank[k] EXCEPT !.wait = @ - 1] ELSE c.bank[k]]
           G == [g \in Group |-> Less1(c.group_wait[g])]
<1>1. d = [c EXCEPT !.RQ = Older(@), !.WQ = Older(@), !.bank = B, !.dbus_wait = Less1(@),
                    !.group_wait = G, !.refresh_wait = Less1(@)]
  BY DEF Tick, Channel
<1>2. SameWork(c, B)
  <2>1. \A b \in BankRequest : /\ [b EXCEPT !.wait = @ - 1] \in BankRequest
                               /\ [b EXCEPT !.wait = @ - 1].valid = b.valid
                               /\ [b EXCEPT !.wait = @ - 1].pkt = b.pkt
    BY DEF BankRequest
  <2>2. \A k \in Bank : c.bank[k] \in BankRequest
    BY ChannelFacts
  <2> QED BY <2>1, <2>2 DEF SameWork
<1>3. G \in [Group -> Int] /\ Less1(c.dbus_wait) \in Int /\ Less1(c.refresh_wait) \in Int
  <2>1. \A x \in Int : Less1(x) \in Int
    BY DEF Less1
  <2>2. c.group_wait \in [Group -> Int] /\ c.dbus_wait \in Int /\ c.refresh_wait \in Int
    BY DEF Channel
  <2> QED BY <2>1, <2>2
<1>4. /\ Older(c.RQ) \in Slots(RQ_SIZE) /\ Alike(c.RQ, Older(c.RQ))
      /\ Older(c.WQ) \in Slots(WQ_SIZE) /\ Alike(c.WQ, Older(c.WQ))
  BY ChannelFacts, Sizes, OlderKeeps
<1>5. B \in [Bank -> BankRequest]
  BY <1>2 DEF SameWork
<1> HIDE DEF B, G, d
<1>6. /\ d.RQ = Older(c.RQ) /\ d.WQ = Older(c.WQ) /\ d.bank = B /\ d.active = c.active
      /\ d \in Channel
  BY <1>1, <1>3, <1>4, <1>5 DEF Channel
<1>7. Match(d) /\ (Idle(c) => Idle(d))
  BY <1>2, <1>4, <1>6, SameWorkMatch
<1> QED BY <1>4, <1>6, <1>7 DEF d

LEMMA FreedBank ==
  ASSUME NEW b \in BankRequest, NEW row \in Nat
  PROVE  LET e == [b EXCEPT !.valid = FALSE, !.pkt = <<>>, !.wait = 0]
             f == [b EXCEPT !.valid = FALSE, !.pkt = <<>>, !.wait = 0, !.open_row = row]
         IN  e \in BankRequest /\ ~e.valid /\ f \in BankRequest /\ ~f.valid
<1>1. ASSUME NEW p \in Place, NEW z \in Int
      PROVE  LET e == [b EXCEPT !.valid = FALSE, !.pkt = p, !.wait = z]
                 f == [b EXCEPT !.valid = FALSE, !.pkt = p, !.wait = z, !.open_row = row]
             IN  e \in BankRequest /\ ~e.valid /\ f \in BankRequest /\ ~f.valid
  BY DEF BankRequest
<1>2. <<>> \in Place /\ 0 \in Int
  BY DEF Place
<1> QED BY <1>1, <1>2

(* A packet crosses the bus: its bank and its slot are free. *)
LEMMA FinishDbusKeeps ==
  ASSUME NEW c \in Channel, Match(c)
  PROVE  /\ finish_dbus_request(c) \in Channel /\ Match(finish_dbus_request(c))
         /\ Fewer(c, finish_dbus_request(c))
         /\ ~BusDone(c) => finish_dbus_request(c).RQ = c.RQ
         /\ BusDone(c) =>
              \E q \in OwnQueue : \E i \in DOMAIN c[q] :
                /\ c[q][i] \in Packet /\ PacketOf(c, c.active) = c[q][i]
                /\ q = "RQ" => finish_dbus_request(c).RQ = [c.RQ EXCEPT ![i] = NoEntry]
                /\ q = "WQ" => finish_dbus_request(c).RQ = c.RQ /\ c[q][i].to_return = {}
<1> DEFINE d == finish_dbus_request(c)
           k == c.active
<1>1. CASE ~BusDone(c)
  BY <1>1, FewerFacts DEF finish_dbus_request
<1>2. CASE BusDone(c)
  <2>1. k \in Bank /\ c.bank[k].valid /\ k # NoBank
    BY <1>2, ChannelFacts DEF BusDone, Match
  <2>2. PICK q \in OwnQueue : \E i \in DOMAIN c[q] :
          Works(c, k, q, i) /\ Busy(c, q, i) /\ BankOf[c[q][i].addr] = k
    BY <2>1 DEF Match
  <2>3. PICK i \in DOMAIN c[q] : Works(c, k, q, i) /\ Busy(c, q, i) /\ BankOf[c[q][i].addr] = k
    BY <2>2
  <2>4. c.bank[k].pkt = <<q, i>> /\ c.bank[k].pkt[1] = q /\ c.bank[k].pkt[2] = i
    BY <2>3 DEF Works
  <2>5. PacketOf(c, k) = c[q][i] /\ c[q][i] \in Packet
    BY <2>3, <2>4, ChannelFacts DEF PacketOf, Busy
  <2> DEFINE B == [c.bank EXCEPT ![k] = [@ EXCEPT !.valid = FALSE, !.pkt = <<>>, !.wait = 0]]
  <2>6. d = [c EXCEPT !.bank = B, ![q][i] = NoEntry, !.active = NoBank]
    <3>1. d = [c EXCEPT !.bank[k] = [@ EXCEPT !.valid = FALSE, !.pkt = <<>>, !.wait = 0],
                     ![c.bank[k].pkt[1]][c.bank[k].pkt[2]] = NoEntry,
                     !.active = NoBank]
      BY <1>2 DEF finish_dbus_request
    <3>2. d = [c EXCEPT !.bank[k] = [@ EXCEPT !.valid = FALSE, !.pkt = <<>>, !.wait = 0],
                     ![q][i] = NoEntry, !.active = NoBank]
      BY <2>4, <3>1
    <3> QED BY <2>1, <3>2 DEF Channel, OwnQueue
  <2>7. B \in [Bank -> BankRequest] /\ ~B[k].valid /\ \A l \in Bank : l # k => B[l] = c.bank[l]
    <3> DEFINE b == [c.bank[k] EXCEPT !.valid = FALSE, !.pkt = <<>>, !.wait = 0]
    <3>1. c.bank \in [Bank -> BankRequest] /\ c.bank[k] \in BankRequest
      BY <2>1, ChannelFacts
    <3>2. b \in BankRequest /\ ~b.valid
      BY <3>1, FreedBank
    <3>3. B = [c.bank EXCEPT ![k] = b]
      OBVIOUS
    <3> HIDE DEF b, B
    <3> QED BY <2>1, <3>1, <3>2, <3>3
  <2> HIDE DEF B, d
  <2>8. /\ d.bank = B /\ d.active = NoBank /\ d[q] = [c[q] EXCEPT ![i] = NoEntry]
        /\ \A r \in OwnQueue : r # q => d[r] = c[r]
    BY <2>6 DEF Channel, OwnQueue
  <2>9. d \in Channel
    <3>1. \A r \in OwnQueue : c[r] \in Slots(IF r = "RQ" THEN RQ_SIZE ELSE WQ_SIZE)
                               => d[r] \in Slots(IF r = "RQ" THEN RQ_SIZE ELSE WQ_SIZE)
      BY <2>8 DEF Slots
    <3>4. \A r \in OwnQueue : c[r] \in Slots(IF r = "RQ" THEN RQ_SIZE ELSE WQ_SIZE)
      BY ChannelFacts DEF OwnQueue
    <3>2. d["RQ"] \in Slots(RQ_SIZE) /\ d["WQ"] \in Slots(WQ_SIZE)
      BY <3>1, <3>4 DEF OwnQueue
    <3>3. d = [RQ |-> d["RQ"], WQ |-> d["WQ"], bank |-> B, active |-> NoBank,
               write_mode |-> c.write_mode, dbus_wait |-> c.dbus_wait,
               group_wait |-> c.group_wait, refresh_wait |-> c.refresh_wait]
      BY <2>6 DEF Channel, OwnQueue
    <3> QED BY <2>7, <3>2, <3>3 DEF Channel
  (* No slot but this was the bank's, and no bank but this had the slot. *)
  <2>10. \A r \in OwnQueue : DOMAIN d[r] = DOMAIN c[r] /\
           \A j \in DOMAIN c[r] : <<r, j>> # <<q, i>> => d[r][j] = c[r][j]
    BY <2>8
  <2>11. ~Busy(d, q, i)
    BY <2>8, EmptySlot DEF Busy
  <2>12. ASSUME NEW l \in Bank, d.bank[l].valid
         PROVE  \E r \in OwnQueue : \E j \in DOMAIN d[r] :
                  Works(d, l, r, j) /\ Busy(d, r, j) /\ BankOf[d[r][j].addr] = l
    <3>1. l # k /\ d.bank[l] = c.bank[l] /\ c.bank[l].valid
      BY <2>7, <2>8, <2>12
    <3>2. \E r \in OwnQueue : \E j \in DOMAIN c[r] :
            Works(c, l, r, j) /\ Busy(c, r, j) /\ BankOf[c[r][j].addr] = l
      BY <3>1 DEF Match
    <3> QED BY <2>3, <2>10, <3>1, <3>2 DEF Works, Busy
  <2>13. ASSUME NEW r \in OwnQueue, NEW j \in DOMAIN d[r], Busy(d, r, j)
         PROVE  Works(d, BankOf[d[r][j].addr], r, j) /\ d[r][j].forward_checked
    <3>1. <<r, j>> # <<q, i>> /\ d[r][j] = c[r][j] /\ j \in DOMAIN c[r]
      BY <2>10, <2>11, <2>13
    <3>2. Works(c, BankOf[c[r][j].addr], r, j) /\ c[r][j].forward_checked
      BY <2>13, <3>1 DEF Match, Busy
    <3>3. BankOf[c[r][j].addr] # k
      BY <2>4, <3>1, <3>2 DEF Works
    <3>4. BankOf[c[r][j].addr] \in Bank
      BY <2>13, <3>1, ChannelFacts, PacketFacts DEF Busy
    <3>5. d.bank[BankOf[c[r][j].addr]] = c.bank[BankOf[c[r][j].addr]]
      BY <2>7, <2>8, <3>3, <3>4
    <3> QED BY <3>1, <3>2, <3>5 DEF Works
  <2>14. \A j \in Used(d.WQ) : d.WQ[j].to_return = {}
    <3>1. d["WQ"] = d.WQ /\ c["WQ"] = c.WQ
      BY <2>9, ChannelFacts
    <3> QED BY <2>8, <2>10, <3>1, EmptySlot DEF Match, Used, OwnQueue
  <2>15. Match(d)
    BY <2>8, <2>12, <2>13, <2>14 DEF Match
  <2>16. Fewer(c, d)
    BY <2>8, <2>10, EmptySlot DEF Fewer
  <2>17. /\ q = "RQ" => d.RQ = [c.RQ EXCEPT ![i] = NoEntry]
         /\ q = "WQ" => d.RQ = c.RQ /\ c[q][i].to_return = {}
    <3>1. d["RQ"] = d.RQ /\ c["RQ"] = c.RQ /\ c["WQ"] = c.WQ
      BY <2>9, ChannelFacts
    <3>2. q = "WQ" => i \in Used(c.WQ)
      BY <2>3, <3>1 DEF Busy, Used
    <3> QED BY <2>8, <3>1, <3>2 DEF Match, OwnQueue
  <2> QED BY <1>2, <2>5, <2>9, <2>15, <2>16, <2>17 DEF d
<1> QED BY <1>1, <1>2
(* Slots keep who they are for, whatever becomes of their scheduling. *)
SameReads(s, t) ==
  /\ DOMAIN t = DOMAIN s
  /\ \A i \in DOMAIN s :
       /\ t[i].used = s[i].used
       /\ s[i].used => t[i].addr = s[i].addr /\ t[i].to_return = s[i].to_return

LEMMA SameReadsFacts ==
  /\ \A s : SameReads(s, s)
  /\ \A s, t : Alike(s, t) => SameReads(s, t)
  /\ \A r, s, t : SameReads(r, s) /\ SameReads(s, t) => SameReads(r, t)
<1>1. \A s : SameReads(s, s)
  BY DEF SameReads
<1>2. \A s, t : Alike(s, t) => SameReads(s, t)
  BY DEF SameReads, Alike
<1>3. \A r, s, t : SameReads(r, s) /\ SameReads(s, t) => SameReads(r, t)
  BY DEF SameReads
<1> QED BY <1>1, <1>2, <1>3

LEMMA PacketUpdates ==
  ASSUME NEW e \in Packet, NEW a \in Nat, NEW s \in BOOLEAN
  PROVE  LET f == [e EXCEPT !.scheduled = s, !.age = a]
         IN  /\ f \in Packet /\ f.used = e.used /\ f.addr = e.addr /\ f.to_return = e.to_return
             /\ f.forward_checked = e.forward_checked /\ f.scheduled = s
  BY DEF Packet

(* Two slots have two banks. *)
LEMMA OneSlotPerBank ==
  ASSUME NEW c, NEW k, NEW q, NEW i, NEW r, NEW j, Works(c, k, q, i), Works(c, k, r, j)
  PROVE  q = r /\ i = j
  BY DEF Works

Reset(c) == {k \in Bank : k # c.active /\ c.bank[k].valid}
PutBack(c, q) ==
  [i \in DOMAIN c[q] |-> IF \E k \in Reset(c) : c.bank[k].pkt = <<q, i>>
                         THEN [c[q][i] EXCEPT !.scheduled = FALSE, !.age = 0] ELSE c[q][i]]

LEMMA PutBackFacts ==
  ASSUME NEW c \in Channel, Match(c), NEW q \in OwnQueue
  PROVE  /\ DOMAIN PutBack(c, q) = DOMAIN c[q]
         /\ SameReads(c[q], PutBack(c, q))
         /\ \A i \in DOMAIN c[q] :
              LET e == c[q][i]
                  f == PutBack(c, q)[i]
              IN  /\ e = NoEntry => f = NoEntry
                  /\ e \in Packet => f \in Packet
                  /\ e.used => f.forward_checked = e.forward_checked
                  /\ f.used /\ f.scheduled => /\ e.used /\ e.scheduled
                                              /\ BankOf[e.addr] \notin Reset(c)
<1> SUFFICES ASSUME NEW i \in DOMAIN c[q]
             PROVE  LET e == c[q][i]
                        f == PutBack(c, q)[i]
                    IN  /\ e = NoEntry => f = NoEntry
                        /\ e \in Packet => f \in Packet
                        /\ f.used = e.used
                        /\ e.used => /\ f.addr = e.addr /\ f.to_return = e.to_return
                                     /\ f.forward_checked = e.forward_checked
                        /\ f.used /\ f.scheduled => /\ e.used /\ e.scheduled
                                                    /\ BankOf[e.addr] \notin Reset(c)
  BY DEF PutBack, SameReads
<1> DEFINE e == c[q][i]
           f == PutBack(c, q)[i]
<1>1. CASE \E k \in Reset(c) : c.bank[k].pkt = <<q, i>>
  <2>1. PICK k \in Reset(c) : c.bank[k].pkt = <<q, i>>
    BY <1>1
  <2>2. Works(c, k, q, i) /\ k \in Bank
    BY <2>1 DEF Works, Reset
  <2>3. \E r \in OwnQueue : \E j \in DOMAIN c[r] : Works(c, k, r, j) /\ Busy(c, r, j)
    BY <2>2 DEF Match, Works
  <2>4. e.used /\ e \in Packet
    BY <2>2, <2>3, OneSlotPerBank, ChannelFacts DEF Busy
  <2>5. f = [e EXCEPT !.scheduled = FALSE, !.age = 0]
    BY <1>1 DEF PutBack
  <2>6. e # NoEntry /\ 0 \in Nat /\ FALSE \in BOOLEAN
    BY <2>4, EmptySlot
  <2> HIDE DEF e, f
  <2>7. f \in Packet /\ f.used = e.used /\ f.addr = e.addr /\ f.to_return = e.to_return
        /\ f.forward_checked = e.forward_checked /\ ~f.scheduled
    BY <2>4, <2>5, <2>6, PacketUpdates
  <2> QED BY <2>6, <2>7 DEF e, f
<1>2. CASE ~\E k \in Reset(c) : c.bank[k].pkt = <<q, i>>
  <2>1. f = e
    BY <1>2 DEF PutBack
  <2>2. ASSUME e.used, e.scheduled PROVE BankOf[e.addr] \notin Reset(c)
    <3>1. Works(c, BankOf[e.addr], q, i)
      BY <2>2 DEF Match, Busy
    <3> QED BY <1>2, <3>1 DEF Works
  <2> QED BY <2>1, <2>2
<1> QED BY <1>1, <1>2

(* The change of mode: all banks but the one on the bus give their packets back. *)
LEMMA UnscheduledKeeps ==
  ASSUME NEW c \in Channel, Match(c)
  PROVE  /\ Unscheduled(c) \in Channel /\ Match(Unscheduled(c))
         /\ Fewer(c, Unscheduled(c))
         /\ SameReads(c.RQ, Unscheduled(c).RQ)
         /\ Unscheduled(c).active = c.active
<1> DEFINE d == Unscheduled(c)
           B == [k \in Bank |->
                   IF k \in Reset(c)
                   THEN [c.bank[k] EXCEPT !.valid = FALSE, !.pkt = <<>>, !.wait = 0,
                                          !.open_row = IF c.bank[k].wait < tCAS THEN 0 ELSE @]
                   ELSE c.bank[k]]
<1>1. d = [c EXCEPT !.RQ = PutBack(c, "RQ"), !.WQ = PutBack(c, "WQ"), !.bank = B]
  BY DEF Unscheduled, PutBack, Reset
<1>2. B \in [Bank -> BankRequest]
      /\ \A k \in Bank : /\ k \in Reset(c) => ~B[k].valid
                         /\ k \notin Reset(c) => B[k] = c.bank[k]
  <2>1. ASSUME NEW k \in Bank
        PROVE  /\ B[k] \in BankRequest /\ (k \in Reset(c) => ~B[k].valid)
               /\ k \notin Reset(c) => B[k] = c.bank[k]
    <3> DEFINE row == IF c.bank[k].wait < tCAS THEN 0 ELSE c.bank[k].open_row
    <3>1. c.bank[k] \in BankRequest /\ c.bank[k].open_row \in Nat
      BY ChannelFacts DEF BankRequest
    <3>2. row \in Nat
      BY <3>1
    <3>3. CASE k \in Reset(c)
      <4>1. B[k] = [c.bank[k] EXCEPT !.valid = FALSE, !.pkt = <<>>, !.wait = 0, !.open_row = row]
        BY <3>3
      <4> HIDE DEF row, B
      <4>2. B[k] \in BankRequest /\ ~B[k].valid
        BY <3>1, <3>2, <4>1, FreedBank
      <4> QED BY <3>3, <4>2
    <3>4. CASE k \notin Reset(c)
      BY <3>1, <3>4
    <3> QED BY <3>3, <3>4
  <2>2. B = [k \in Bank |-> B[k]]
    OBVIOUS
  <2> HIDE DEF B
  <2> QED BY <2>1, <2>2
<1>3. \A q \in OwnQueue :
        /\ DOMAIN PutBack(c, q) = DOMAIN c[q] /\ SameReads(c[q], PutBack(c, q))
        /\ \A i \in DOMAIN c[q] :
              LET e == c[q][i]
                  f == PutBack(c, q)[i]
              IN  /\ e = NoEntry => f = NoEntry
                  /\ e \in Packet => f \in Packet
                  /\ e.used => f.forward_checked = e.forward_checked
                  /\ f.used /\ f.scheduled => /\ e.used /\ e.scheduled
                                              /\ BankOf[e.addr] \notin Reset(c)
  BY PutBackFacts
<1>4. PutBack(c, "RQ") \in Slots(RQ_SIZE) /\ PutBack(c, "WQ") \in Slots(WQ_SIZE)
  <2>1. \A q \in OwnQueue : \A n \in Nat : c[q] \in Slots(n) => PutBack(c, q) \in Slots(n)
    <3> SUFFICES ASSUME NEW q \in OwnQueue, NEW n \in Nat, c[q] \in Slots(n)
                 PROVE  PutBack(c, q) \in Slots(n)
      OBVIOUS
    <3>1. \A i \in DOMAIN c[q] : PutBack(c, q)[i] \in Packet \cup {NoEntry}
      BY <1>3, ChannelFacts
    <3>2. PutBack(c, q) = [i \in DOMAIN c[q] |-> PutBack(c, q)[i]] /\ DOMAIN c[q] = 1 .. n
      BY DEF PutBack, Slots
    <3> QED BY <3>1, <3>2 DEF Slots
  <2> QED BY <2>1, ChannelFacts, Sizes DEF OwnQueue
<1> HIDE DEF B, d
<1>5. /\ d \in Channel /\ d.bank = B /\ d.active = c.active
      /\ d.RQ = PutBack(c, "RQ") /\ d.WQ = PutBack(c, "WQ")
  BY <1>1, <1>2, <1>4 DEF Channel
<1>6. \A q \in OwnQueue : d[q] = PutBack(c, q)
  BY <1>5, ChannelFacts DEF OwnQueue
<1>7. \A q \in OwnQueue : DOMAIN d[q] = DOMAIN c[q] /\
        \A i \in DOMAIN c[q] :
          Busy(d, q, i) => /\ Busy(c, q, i) /\ BankOf[c[q][i].addr] \notin Reset(c)
                           /\ d[q][i].addr = c[q][i].addr
                           /\ d[q][i].forward_checked = c[q][i].forward_checked
  BY <1>3, <1>6 DEF Busy, SameReads
<1>8. ASSUME NEW q \in OwnQueue, NEW i \in DOMAIN d[q], Busy(d, q, i)
      PROVE  Works(d, BankOf[d[q][i].addr], q, i) /\ d[q][i].forward_checked
  <2>1. i \in DOMAIN c[q] /\ Busy(c, q, i) /\ BankOf[c[q][i].addr] \notin Reset(c)
        /\ d[q][i].addr = c[q][i].addr /\ d[q][i].forward_checked = c[q][i].forward_checked
    BY <1>7, <1>8
  <2>2. Works(c, BankOf[c[q][i].addr], q, i) /\ c[q][i].forward_checked
    BY <2>1 DEF Match
  <2>3. BankOf[c[q][i].addr] \in Bank
    BY <2>1, ChannelFacts, PacketFacts DEF Busy
  <2>4. d.bank[BankOf[c[q][i].addr]] = c.bank[BankOf[c[q][i].addr]]
    BY <1>2, <1>5, <2>1, <2>3
  <2> QED BY <2>1, <2>2, <2>4 DEF Works
<1>9. ASSUME NEW k \in Bank, d.bank[k].valid
      PROVE  \E q \in OwnQueue : \E i \in DOMAIN d[q] :
               Works(d, k, q, i) /\ Busy(d, q, i) /\ BankOf[d[q][i].addr] = k
  <2>1. k \notin Reset(c) /\ d.bank[k] = c.bank[k]
    BY <1>2, <1>5, <1>9
  <2>2. PICK q \in OwnQueue : \E i \in DOMAIN c[q] :
          Works(c, k, q, i) /\ Busy(c, q, i) /\ BankOf[c[q][i].addr] = k
    BY <1>9, <2>1 DEF Match
  <2>3. PICK i \in DOMAIN c[q] : Works(c, k, q, i) /\ Busy(c, q, i) /\ BankOf[c[q][i].addr] = k
    BY <2>2
  <2>4. ~\E l \in Reset(c) : c.bank[l].pkt = <<q, i>>
    <3> SUFFICES ASSUME NEW l \in Reset(c), c.bank[l].pkt = <<q, i>> PROVE FALSE
      OBVIOUS
    <3>1. Works(c, l, q, i) /\ l \in Bank
      BY DEF Works, Reset
    <3>2. \E r \in OwnQueue : \E j \in DOMAIN c[r] :
            Works(c, l, r, j) /\ BankOf[c[r][j].addr] = l
      BY <3>1 DEF Match, Works
    <3>3. BankOf[c[q][i].addr] = l
      BY <3>1, <3>2, OneSlotPerBank
    <3> QED BY <2>1, <2>3, <3>3
  <2>5. d[q][i] = c[q][i]
    BY <1>6, <2>4 DEF PutBack
  <2> QED BY <1>7, <2>1, <2>3, <2>5 DEF Works, Busy
<1>10. d.active # NoBank => d.bank[d.active].valid
  <2> SUFFICES ASSUME d.active # NoBank PROVE d.bank[d.active].valid
    OBVIOUS
  <2>1. c.active \in Bank /\ c.bank[c.active].valid /\ c.active \notin Reset(c)
    BY <1>5, ChannelFacts DEF Match, Reset
  <2> QED BY <1>2, <1>5, <2>1
<1>11. SameReads(c.RQ, d.RQ) /\ SameReads(c.WQ, d.WQ)
  <2>1. c["RQ"] = c.RQ /\ c["WQ"] = c.WQ
    BY ChannelFacts
  <2> QED BY <1>3, <1>5, <2>1 DEF OwnQueue
<1>12. \A i \in Used(d.WQ) : d.WQ[i].to_return = {}
  BY <1>11 DEF Match, SameReads, Used
<1>13. Match(d)
  BY <1>8, <1>9, <1>10, <1>12 DEF Match
<1>14. Fewer(c, d)
  BY <1>3, <1>6 DEF Fewer, SameReads
<1> QED BY <1>5, <1>11, <1>13, <1>14 DEF d

LEMMA SameQueuesFewer ==
  ASSUME NEW c \in Channel, NEW d \in Channel, d.RQ = c.RQ, d.WQ = c.WQ
  PROVE  Fewer(c, d)
<1>1. \A q \in OwnQueue : d[q] = c[q]
  BY ChannelFacts DEF OwnQueue
<1> QED BY <1>1 DEF Fewer

LEMMA SwapKeeps ==
  ASSUME NEW c \in Channel, Match(c)
  PROVE  /\ swap_write_mode(c) \in Channel /\ Match(swap_write_mode(c))
         /\ Fewer(c, swap_write_mode(c))
         /\ SameReads(c.RQ, swap_write_mode(c).RQ)
<1> DEFINE d == Unscheduled(c)
           e == swap_write_mode(c)
           t == DRAM_DBUS_TURN_AROUND_TIME
                + (IF c.active # NoBank THEN c.bank[c.active].wait ELSE 0)
<1>1. CASE ~Unbalanced(c)
  BY <1>1, SameReadsFacts, FewerFacts DEF swap_write_mode
<1>2. CASE Unbalanced(c)
  <2>1. d \in Channel /\ Match(d) /\ Fewer(c, d) /\ SameReads(c.RQ, d.RQ)
    BY UnscheduledKeeps
  <2>2. t \in Int
    <3>1. c.active # NoBank => c.bank[c.active].wait \in Int
      BY ChannelFacts DEF BankRequest
    <3> QED BY <3>1, Sizes
  <2>3. e = [d EXCEPT !.dbus_wait = t, !.write_mode = ~@]
    BY <1>2 DEF swap_write_mode
  <2> HIDE DEF d, t, e
  <2>4. e \in Channel /\ e.RQ = d.RQ /\ e.WQ = d.WQ /\ e.bank = d.bank /\ e.active = d.active
    BY <2>1, <2>2, <2>3 DEF Channel
  <2>5. SameWork(d, e.bank)
    BY <2>1, <2>4, ChannelFacts DEF SameWork
  <2>6. Match(e)
    BY <2>1, <2>4, <2>5, AlikeItself, SameWorkMatch
  <2>7. Fewer(c, e)
    BY <2>1, <2>4, SameQueuesFewer, FewerFacts
  <2> QED BY <2>1, <2>4, <2>6, <2>7 DEF e
<1> QED BY <1>1, <1>2

LEMMA RefreshKeeps ==
  ASSUME NEW c \in Channel, Match(c)
  PROVE  /\ schedule_refresh(c) \in Channel /\ Match(schedule_refresh(c))
         /\ Fewer(c, schedule_refresh(c))
         /\ SameReads(c.RQ, schedule_refresh(c).RQ)
<1> DEFINE due == c.refresh_wait = 0
           Refreshed(bank) ==
             LET needed == bank.need_refresh \/ due
             IN  CASE needed /\ ~bank.valid ->
                        [bank EXCEPT !.wait = tRFC, !.need_refresh = FALSE, !.under_refresh = TRUE]
                   [] ~(needed /\ ~bank.valid) /\ bank.under_refresh /\ bank.wait <= 0 ->
                        [bank EXCEPT !.need_refresh = needed, !.under_refresh = FALSE,
                                     !.open_row = 0, !.wait = 0]
                   [] OTHER -> [bank EXCEPT !.need_refresh = needed]
           B == [k \in Bank |-> Refreshed(c.bank[k])]
           t == IF due THEN tREF ELSE c.refresh_wait
           d == schedule_refresh(c)
<1>1. d = [c EXCEPT !.bank = B, !.refresh_wait = t]
  BY DEF schedule_refresh, Channel
<1>2. ASSUME NEW b \in BankRequest
      PROVE  Refreshed(b) \in BankRequest /\ Refreshed(b).valid = b.valid
             /\ Refreshed(b).pkt = b.pkt
  <2> DEFINE needed == b.need_refresh \/ due
  <2>1. needed \in BOOLEAN /\ tRFC \in Int /\ 0 \in Int /\ 0 \in Nat
    BY Sizes
  <2>2. CASE needed /\ ~b.valid
    <3> DEFINE f == [b EXCEPT !.wait = tRFC, !.need_refresh = FALSE, !.under_refresh = TRUE]
    <3>1. Refreshed(b) = f
      BY <2>2
    <3>2. \A w \in Int : LET g == [b EXCEPT !.wait = w, !.need_refresh = FALSE, !.under_refresh = TRUE]
                         IN  g \in BankRequest /\ g.valid = b.valid /\ g.pkt = b.pkt
      BY DEF BankRequest
    <3>3. f \in BankRequest /\ f.valid = b.valid /\ f.pkt = b.pkt
      BY <2>1, <3>2
    <3> HIDE DEF f, Refreshed
    <3> QED BY <3>1, <3>3
  <2>3. CASE ~(needed /\ ~b.valid) /\ b.under_refresh /\ b.wait <= 0
    <3> DEFINE f == [b EXCEPT !.need_refresh = needed, !.under_refresh = FALSE,
                              !.open_row = 0, !.wait = 0]
    <3>1. Refreshed(b) = f
      BY <2>3
    <3>2. \A w \in Int, r \in Nat, x \in BOOLEAN :
            LET g == [b EXCEPT !.need_refresh = x, !.under_refresh = FALSE, !.open_row = r, !.wait = w]
            IN  g \in BankRequest /\ g.valid = b.valid /\ g.pkt = b.pkt
      BY DEF BankRequest
    <3>3. f \in BankRequest /\ f.valid = b.valid /\ f.pkt = b.pkt
      <4> HIDE DEF needed
      <4> QED BY <2>1, <3>2
    <3> HIDE DEF f, Refreshed
    <3> QED BY <3>1, <3>3
  <2>4. CASE ~(needed /\ ~b.valid) /\ ~(b.under_refresh /\ b.wait <= 0)
    <3>1. Refreshed(b) = [b EXCEPT !.need_refresh = needed]
      BY <2>4
    <3>2. \A x \in BOOLEAN : LET g == [b EXCEPT !.need_refresh = x]
                             IN  g \in BankRequest /\ g.valid = b.valid /\ g.pkt = b.pkt
      BY DEF BankRequest
    <3> HIDE DEF Refreshed, needed
    <3> QED BY <2>1, <3>1, <3>2
  <2> HIDE DEF needed, Refreshed
  <2> QED BY <2>2, <2>3, <2>4
<1> HIDE DEF Refreshed
<1>3. SameWork(c, B)
  BY <1>2, ChannelFacts DEF SameWork
<1>4. B \in [Bank -> BankRequest] /\ t \in Int
  BY <1>3, Sizes DEF SameWork, Channel
<1> HIDE DEF B, t, d
<1>5. d \in Channel /\ d.RQ = c.RQ /\ d.WQ = c.WQ /\ d.bank = B /\ d.active = c.active
  BY <1>1, <1>4 DEF Channel
<1>6. Match(d) /\ Fewer(c, d)
  BY <1>3, <1>5, AlikeItself, SameWorkMatch, SameQueuesFewer
<1> QED BY <1>5, <1>6, SameReadsFacts DEF d

LEMMA NextOnBusValid ==
  ASSUME NEW c \in Channel, NextOnBus(c) # NoBank
  PROVE  NextOnBus(c) \in Bank /\ c.bank[NextOnBus(c)].valid
<1> DEFINE valid == {k \in Bank : c.bank[k].valid}
           first == {k \in valid : \A l \in valid : c.bank[k].wait <= c.bank[l].wait}
           times == {c.bank[k].wait : k \in valid}
           f == [k \in valid |-> c.bank[k].wait]
<1>1. valid # {} /\ NextOnBus(c) = Least(first)
  BY DEF NextOnBus
<1>2. IsFiniteSet(valid) /\ valid \subseteq Bank /\ Bank \subseteq Int
  <2>1. IsFiniteSet(Bank) /\ Bank \subseteq Int
    BY FS_Interval, Sizes DEF Bank
  <2> QED BY <2>1, FS_Subset
<1>3. times \subseteq Int /\ times # {}
  BY <1>1, ChannelFacts DEF BankRequest
<1>4. IsFiniteSet(times)
  <2>1. f \in Surjection(valid, times)
    BY DEF Surjection
  <2> HIDE DEF f, valid, times
  <2> QED BY <1>2, <2>1, FS_Surjection
<1>5. PICK t \in times : \A u \in times : t <= u
  <2> HIDE DEF times
  <2> QED BY <1>3, <1>4, LeastMember
<1>6. first # {} /\ first \subseteq valid
  <2>1. PICK k \in valid : c.bank[k].wait = t
    OBVIOUS
  <2> QED BY <1>5, <2>1
<1>7. IsFiniteSet(first) /\ first \in SUBSET Int
  <2> HIDE DEF first, valid
  <2> QED BY <1>2, <1>6, FS_Subset
<1>8. Least(first) \in first
  <2> HIDE DEF first
  <2> QED BY <1>6, <1>7, LeastMember
<1> QED BY <1>1, <1>6, <1>8

LEMMA PopulateKeeps ==
  ASSUME NEW c \in Channel, Match(c)
  PROVE  /\ populate_dbus(c) \in Channel /\ Match(populate_dbus(c))
         /\ Fewer(c, populate_dbus(c))
         /\ SameReads(c.RQ, populate_dbus(c).RQ)
<1> DEFINE k == NextOnBus(c)
           g == GroupOf[PacketOf(c, k).addr]
           go == k # NoBank /\ c.bank[k].wait <= 0 /\ c.active = NoBank /\ c.dbus_wait = 0
           d == populate_dbus(c)
           w == c.group_wait[g] + DRAM_DBUS_RETURN_TIME
           x == DRAM_DBUS_RETURN_TIME + DRAM_DBUS_BANKGROUP_STALL
           B == [c.bank EXCEPT ![k].wait = w]
           G == [c.group_wait EXCEPT ![g] = x]
<1>1. CASE ~go
  BY <1>1, SameReadsFacts, FewerFacts DEF populate_dbus
<1>2. CASE go
  <2>1. k \in Bank /\ c.bank[k].valid
    BY <1>2, NextOnBusValid
  <2>2. g \in Group
    <3>1. \E q \in OwnQueue : \E i \in DOMAIN c[q] : Works(c, k, q, i) /\ Busy(c, q, i)
      BY <2>1 DEF Match
    <3>2. PICK q \in OwnQueue : \E i \in DOMAIN c[q] : Works(c, k, q, i) /\ Busy(c, q, i)
      BY <3>1
    <3>3. PICK i \in DOMAIN c[q] : Works(c, k, q, i) /\ Busy(c, q, i)
      BY <3>2
    <3>4. PacketOf(c, k) = c[q][i]
      BY <3>3 DEF PacketOf, Works
    <3>5. c[q][i] \in Packet
      BY <3>3, ChannelFacts DEF Busy
    <3> QED BY <3>4, <3>5, PacketFacts, Sizes
  <2>3. d = [c EXCEPT !.active = k, !.bank = B, !.group_wait = G]
    BY <1>2 DEF populate_dbus
  <2>4. w \in Int /\ x \in Int /\ c.group_wait \in [Group -> Int]
    BY <2>2, Sizes DEF Channel
  <2>5. G \in [Group -> Int]
    BY <2>4
  <2>6. SameWork(c, B)
    <3>1. c.bank[k] \in BankRequest /\ c.bank \in [Bank -> BankRequest]
      BY <2>1, ChannelFacts
    <3> DEFINE b == [c.bank[k] EXCEPT !.wait = w]
    <3>2. b \in BankRequest /\ b.valid = c.bank[k].valid /\ b.pkt = c.bank[k].pkt
      <4> HIDE DEF w
      <4> QED BY <2>4, <3>1 DEF BankRequest
    <3>3. B = [c.bank EXCEPT ![k] = b]
      BY <2>1, <3>1
    <3> HIDE DEF b, B
    <3> QED BY <2>1, <3>1, <3>2, <3>3 DEF SameWork
  <2>7. B \in [Bank -> BankRequest]
    BY <2>6 DEF SameWork
  <2> HIDE DEF B, G, d, w, x, g, k
  <2>8. d \in Channel /\ d.RQ = c.RQ /\ d.WQ = c.WQ /\ d.bank = B /\ d.active = k
    BY <2>1, <2>3, <2>5, <2>7 DEF Channel
  <2>9. d.bank[d.active].valid
    BY <2>1, <2>6, <2>8 DEF SameWork
  <2>10. Match(d) /\ Fewer(c, d)
    BY <2>1, <2>6, <2>8, <2>9, AlikeItself, SameWorkMatch, SameQueuesFewer
  <2> QED BY <2>8, <2>10, SameReadsFacts DEF d
<1> QED BY <1>1, <1>2

(* Every slot in use is checked. *)
AllChecked(c) == \A q \in OwnQueue : \A i \in DOMAIN c[q] : c[q][i].used => c[q][i].forward_checked

LEMMA FewerChecked ==
  ASSUME NEW c, NEW d, Fewer(c, d)
  PROVE  /\ AllChecked(c) => AllChecked(d)
         /\ (\A q \in OwnQueue : \A i \in DOMAIN c[q] : ~c[q][i].used)
              => \A q \in OwnQueue : \A i \in DOMAIN d[q] : ~d[q][i].used
<1>1. AllChecked(c) => AllChecked(d)
  BY DEF Fewer, AllChecked
<1>2. (\A q \in OwnQueue : \A i \in DOMAIN c[q] : ~c[q][i].used)
        => \A q \in OwnQueue : \A i \in DOMAIN d[q] : ~d[q][i].used
  BY DEF Fewer
<1> QED BY <1>1, <1>2

LEMMA WithQueue ==
  ASSUME NEW c \in Channel, NEW q \in OwnQueue, NEW i \in DOMAIN c[q], NEW e \in Packet \cup {NoEntry}
  PROVE  [c[q] EXCEPT ![i] = e] \in Slots(IF q = "RQ" THEN RQ_SIZE ELSE WQ_SIZE)
<1>1. c[q] \in Slots(IF q = "RQ" THEN RQ_SIZE ELSE WQ_SIZE)
  BY ChannelFacts DEF OwnQueue
<1> QED BY <1>1 DEF Slots

(* A packet goes to a free bank. *)
Serves(c, d, q, i, b) ==
  d = [c EXCEPT !.bank[BankOf[c[q][i].addr]] = b, ![q][i].scheduled = TRUE, ![q][i].age = 0]

LEMMA ServedKeeps ==
  ASSUME NEW c \in Channel, Match(c), NEW q \in OwnQueue, NEW i \in DOMAIN c[q],
         c[q][i].used, ~c[q][i].scheduled, c[q][i].forward_checked,
         NEW b \in BankRequest, b.valid, b.pkt = <<q, i>>,
         ~c.bank[BankOf[c[q][i].addr]].valid,
         NEW d, Serves(c, d, q, i, b)
  PROVE  d \in Channel /\ Match(d) /\ SameReads(c.RQ, d.RQ)
<1> DEFINE k == BankOf[c[q][i].addr]
           e == [c[q][i] EXCEPT !.scheduled = TRUE, !.age = 0]
           B == [c.bank EXCEPT ![k] = b]
<1>1. c[q][i] \in Packet /\ k \in Bank
  BY ChannelFacts, PacketFacts
<1>2. /\ e \in Packet /\ e.used /\ e.addr = c[q][i].addr /\ e.to_return = c[q][i].to_return
      /\ e.forward_checked /\ e.scheduled
  <2> DEFINE p == c[q][i]
  <2>1. p \in Packet /\ 0 \in Nat /\ TRUE \in BOOLEAN
    BY <1>1
  <2>2. e = [p EXCEPT !.scheduled = TRUE, !.age = 0] /\ p.forward_checked
    OBVIOUS
  <2> HIDE DEF p, e, k, B
  <2>3. e \in Packet /\ e.used = p.used /\ e.addr = p.addr /\ e.to_return = p.to_return
        /\ e.forward_checked = p.forward_checked /\ e.scheduled = TRUE
    BY <2>1, <2>2, PacketUpdates
  <2>4. p.used
    BY DEF p
  <2> QED BY <2>2, <2>3, <2>4 DEF p
<1>3. B \in [Bank -> BankRequest] /\ B[k] = b /\ \A l \in Bank : l # k => B[l] = c.bank[l]
  BY <1>1, ChannelFacts
<1>4. [c[q] EXCEPT ![i] = e] \in Slots(IF q = "RQ" THEN RQ_SIZE ELSE WQ_SIZE)
  BY <1>2, WithQueue
<1>5. d = [c EXCEPT !.bank = B, ![q] = [c[q] EXCEPT ![i] = e]]
  <2>1. CASE q = "RQ"
    BY <2>1 DEF Channel, Serves
  <2>2. CASE q = "WQ"
    BY <2>2 DEF Channel, Serves
  <2> QED BY <2>1, <2>2 DEF OwnQueue
<1> HIDE DEF B, e, k
<1>6. /\ d \in Channel /\ d.bank = B /\ d.active = c.active /\ d[q] = [c[q] EXCEPT ![i] = e]
      /\ \A r \in OwnQueue : r # q => d[r] = c[r]
  <2>1. CASE q = "RQ"
    BY <1>3, <1>4, <1>5, <2>1 DEF Channel, OwnQueue
  <2>2. CASE q = "WQ"
    BY <1>3, <1>4, <1>5, <2>2 DEF Channel, OwnQueue
  <2> QED BY <2>1, <2>2 DEF OwnQueue
<1>7. \A r \in OwnQueue : DOMAIN d[r] = DOMAIN c[r] /\
        \A j \in DOMAIN c[r] : <<r, j>> # <<q, i>> => d[r][j] = c[r][j]
  BY <1>6
<1>8. d[q][i] = e
  BY <1>6
<1>9. ASSUME NEW l \in Bank, d.bank[l].valid
      PROVE  \E r \in OwnQueue : \E j \in DOMAIN d[r] :
               Works(d, l, r, j) /\ Busy(d, r, j) /\ BankOf[d[r][j].addr] = l
  <2>1. CASE l = k
    BY <1>2, <1>3, <1>6, <1>7, <1>8, <2>1 DEF Works, Busy, k
  <2>2. CASE l # k
    <3>1. d.bank[l] = c.bank[l]
      BY <1>3, <1>6, <2>2
    <3>2. \E r \in OwnQueue : \E j \in DOMAIN c[r] :
            Works(c, l, r, j) /\ Busy(c, r, j) /\ BankOf[c[r][j].addr] = l
      BY <1>9, <3>1 DEF Match
    <3> QED BY <1>7, <3>1, <3>2 DEF Works, Busy
  <2> QED BY <2>1, <2>2
<1>10. ASSUME NEW r \in OwnQueue, NEW j \in DOMAIN d[r], Busy(d, r, j)
       PROVE  Works(d, BankOf[d[r][j].addr], r, j) /\ d[r][j].forward_checked
  <2>1. CASE <<r, j>> = <<q, i>>
    BY <1>2, <1>3, <1>6, <1>8, <2>1 DEF Works, k
  <2>2. CASE <<r, j>> # <<q, i>>
    <3>1. d[r][j] = c[r][j] /\ j \in DOMAIN c[r]
      BY <1>7, <2>2
    <3>2. Works(c, BankOf[c[r][j].addr], r, j) /\ c[r][j].forward_checked
      BY <1>10, <3>1 DEF Match, Busy
    <3>3. BankOf[c[r][j].addr] \in Bank /\ BankOf[c[r][j].addr] # k
      BY <1>10, <3>1, <3>2, ChannelFacts, PacketFacts DEF Busy, Works, k
    <3>4. d.bank[BankOf[c[r][j].addr]] = c.bank[BankOf[c[r][j].addr]]
      BY <1>3, <1>6, <3>3
    <3> QED BY <3>1, <3>2, <3>4 DEF Works
  <2> QED BY <2>1, <2>2
<1>11. d.active # NoBank => d.bank[d.active].valid
  BY <1>3, <1>6, ChannelFacts DEF Match, k
<1>12. ASSUME NEW r \in OwnQueue PROVE SameReads(c[r], d[r])
  <2>1. ASSUME NEW j \in DOMAIN c[r]
        PROVE  /\ d[r][j].used = c[r][j].used
               /\ c[r][j].used => /\ d[r][j].addr = c[r][j].addr
                                  /\ d[r][j].to_return = c[r][j].to_return
    <3>1. CASE <<r, j>> = <<q, i>>
      <4>1. r = q /\ j = i /\ d[r][j] = e /\ c[r][j].used = TRUE
        BY <1>1, <1>8, <3>1, PacketFacts
      <4> QED BY <1>2, <4>1, PacketFacts
    <3>2. CASE <<r, j>> # <<q, i>>
      BY <1>7, <3>2
    <3> QED BY <3>1, <3>2
  <2> QED BY <1>7, <2>1 DEF SameReads
<1>13. SameReads(c.RQ, d.RQ) /\ SameReads(c.WQ, d.WQ)
  <2>1. c["RQ"] = c.RQ /\ c["WQ"] = c.WQ /\ d["RQ"] = d.RQ /\ d["WQ"] = d.WQ
    BY <1>6, ChannelFacts
  <2> QED BY <1>12, <2>1 DEF OwnQueue
<1>14. \A j \in Used(d.WQ) : d.WQ[j].to_return = {}
  BY <1>13 DEF Match, SameReads, Used
<1>15. Match(d)
  BY <1>9, <1>10, <1>11, <1>14 DEF Match
<1> QED BY <1>6, <1>13, <1>15

LEMMA ServiceKeeps ==
  ASSUME NEW c \in Channel, Match(c), AllChecked(c)
  PROVE  /\ service_packet(c) \in Channel /\ Match(service_packet(c))
         /\ SameReads(c.RQ, service_packet(c).RQ)
         /\ (\A q \in OwnQueue : \A i \in DOMAIN c[q] : ~c[q][i].used) => service_packet(c) = c
<1>0. \A r \in OwnQueue : \A j \in DOMAIN c[r] : j \in Nat
  <2>1. DOMAIN c["RQ"] = 1 .. RQ_SIZE /\ DOMAIN c["WQ"] = 1 .. WQ_SIZE
    BY ChannelFacts
  <2>2. \A j \in DOMAIN c["RQ"] : j \in Nat
    BY <2>1, Sizes
  <2>3. \A j \in DOMAIN c["WQ"] : j \in Nat
    BY <2>1, Sizes
  <2> QED BY <2>2, <2>3 DEF OwnQueue
<1> DEFINE q == IF c.write_mode THEN "WQ" ELSE "RQ"
           S == schedule_packet(c)
           i == CHOOSE x \in S : TRUE
           k == BankOf[c[q][i].addr]
           row == RowOf[c[q][i].addr]
           charge == IF c.bank[k].open_row = row THEN 0
                     ELSE IF c.bank[k].open_row # 0 THEN tRP + tRCD ELSE tRCD
           d == service_packet(c)
<1>1. q \in OwnQueue /\ c[q] = (IF c.write_mode THEN c.WQ ELSE c.RQ)
  BY ChannelFacts DEF OwnQueue
<1>2. S \subseteq Waiting(c[q])
  BY <1>1 DEF schedule_packet
<1>3. CASE S = {}
  BY <1>3, SameReadsFacts DEF service_packet
<1>4. CASE S # {}
  <2>1. i \in DOMAIN c[q] /\ c[q][i].used /\ ~c[q][i].scheduled
    <3>1. i \in S
      BY <1>4
    <3> HIDE DEF i, S, q
    <3> QED BY <1>2, <3>1 DEF Waiting, Used
  <2>2. c[q][i].forward_checked
    BY <1>1, <2>1 DEF AllChecked
  <2>3. CASE c.bank[k].valid \/ c.bank[k].under_refresh
    <3>1. d = c
      BY <1>4, <2>3 DEF service_packet
    <3> QED BY <1>1, <2>1, <3>1, SameReadsFacts
  <2>4. CASE ~(c.bank[k].valid \/ c.bank[k].under_refresh)
    <3> DEFINE b == [valid |-> TRUE, need_refresh |-> FALSE, under_refresh |-> FALSE,
                     open_row |-> row, wait |-> tCAS + charge, pkt |-> <<q, i>>]
    <3>1. d = [c EXCEPT !.bank[k] = b, ![q][i].scheduled = TRUE, ![q][i].age = 0]
      BY <1>4, <2>4 DEF service_packet
    <3>2. row \in Nat /\ charge \in Nat /\ tCAS + charge \in Int
      <4>1. c[q][i] \in Packet
        BY <1>1, <2>1, ChannelFacts
      <4>2. row \in Nat
        BY <4>1, PacketFacts, Sizes
      <4> QED BY <4>2, Sizes
    <3>3. <<q, i>> \in Place
      <4> HIDE DEF i, q
      <4>1. i \in Nat
        BY <1>0, <1>1, <2>1
      <4> QED BY <1>1, <4>1 DEF Place
    <3>6. Serves(c, d, q, i, b)
      BY <3>1 DEF Serves
    <3> HIDE DEF row, charge, i, q, S
    <3>4. b \in BankRequest /\ b.valid /\ b.pkt = <<q, i>>
      BY <3>2, <3>3 DEF BankRequest
    <3> HIDE DEF b, d
    <3>5. d \in Channel /\ Match(d) /\ SameReads(c.RQ, d.RQ)
      BY <1>1, <2>1, <2>2, <2>4, <3>4, <3>6, ServedKeeps
    <3> QED BY <1>1, <2>1, <3>5 DEF d
  <2> QED BY <2>3, <2>4
<1> QED BY <1>3, <1>4

(* The rest of a cycle. *)
LEMMA AfterBusKeeps ==
  ASSUME NEW c \in Channel, Match(c), AllChecked(c)
  PROVE  /\ AfterBus(c) \in Channel /\ Match(AfterBus(c)) /\ SameReads(c.RQ, AfterBus(c).RQ)
         /\ (\A q \in OwnQueue : \A i \in DOMAIN c[q] : ~c[q][i].used) => Idle(AfterBus(c))
<1> DEFINE s == swap_write_mode(c)
           r == schedule_refresh(s)
           p == populate_dbus(r)
<1>1. s \in Channel /\ Match(s) /\ Fewer(c, s) /\ SameReads(c.RQ, s.RQ)
  BY SwapKeeps
<1>2. r \in Channel /\ Match(r) /\ Fewer(s, r) /\ SameReads(s.RQ, r.RQ)
  BY <1>1, RefreshKeeps
<1>3. p \in Channel /\ Match(p) /\ Fewer(r, p) /\ SameReads(r.RQ, p.RQ)
  BY <1>2, PopulateKeeps
<1>4. AfterBus(c) = service_packet(p)
  BY DEF AfterBus
<1> HIDE DEF s, r, p
<1>5. Fewer(c, p) /\ SameReads(c.RQ, p.RQ)
  BY <1>1, <1>2, <1>3, FewerFacts, SameReadsFacts
<1>6. /\ service_packet(p) \in Channel /\ Match(service_packet(p))
      /\ SameReads(p.RQ, service_packet(p).RQ)
      /\ (\A q \in OwnQueue : \A i \in DOMAIN p[q] : ~p[q][i].used) => service_packet(p) = p
  BY <1>3, <1>5, FewerChecked, ServiceKeeps
<1>7. (\A q \in OwnQueue : \A i \in DOMAIN p[q] : ~p[q][i].used) => Idle(p)
  BY DEF Idle, Busy
<1> QED BY <1>4, <1>5, <1>6, <1>7, FewerChecked, SameReadsFacts

--------------------------------------------------------------------------------
(* What enters the queues, and the collisions *)

(* Banks see nothing of a change to slots that are not scheduled. *)
SameBusy(c, d) ==
  /\ d.bank = c.bank /\ d.active = c.active
  /\ \A q \in OwnQueue : DOMAIN d[q] = DOMAIN c[q] /\
       \A i \in DOMAIN c[q] :
         /\ Busy(d, q, i) <=> Busy(c, q, i)
         /\ Busy(c, q, i) => d[q][i].addr = c[q][i].addr
                             /\ d[q][i].forward_checked = c[q][i].forward_checked
  /\ \A i \in Used(d.WQ) : d.WQ[i].to_return = {}

LEMMA SameBusyMatch ==
  ASSUME NEW c \in Channel, Match(c), NEW d, SameBusy(c, d)
  PROVE  Match(d) /\ (Idle(c) => Idle(d))
<1>1. \A k, q, i : Works(d, k, q, i) <=> Works(c, k, q, i)
  BY DEF SameBusy, Works
<1>2. ASSUME NEW k \in Bank, d.bank[k].valid
      PROVE  \E q \in OwnQueue : \E i \in DOMAIN d[q] :
               Works(d, k, q, i) /\ Busy(d, q, i) /\ BankOf[d[q][i].addr] = k
  <2>1. \E q \in OwnQueue : \E i \in DOMAIN c[q] :
          Works(c, k, q, i) /\ Busy(c, q, i) /\ BankOf[c[q][i].addr] = k
    BY <1>2 DEF Match, SameBusy
  <2> QED BY <1>1, <2>1 DEF SameBusy
<1>3. ASSUME NEW q \in OwnQueue, NEW i \in DOMAIN d[q], Busy(d, q, i)
      PROVE  Works(d, BankOf[d[q][i].addr], q, i) /\ d[q][i].forward_checked
  <2>1. i \in DOMAIN c[q] /\ Busy(c, q, i) /\ d[q][i].addr = c[q][i].addr
        /\ d[q][i].forward_checked = c[q][i].forward_checked
    BY <1>3 DEF SameBusy
  <2>2. Works(c, BankOf[c[q][i].addr], q, i) /\ c[q][i].forward_checked
    BY <2>1 DEF Match
  <2> QED BY <1>1, <2>1, <2>2
<1>4. d.active # NoBank => d.bank[d.active].valid
  BY DEF SameBusy, Match
<1>5. \A i \in Used(d.WQ) : d.WQ[i].to_return = {}
  BY DEF SameBusy
<1>6. Idle(c) => Idle(d)
  BY DEF Idle, SameBusy
<1> QED BY <1>2, <1>3, <1>4, <1>5, <1>6 DEF Match

(* One slot of RQ changes, and is not scheduled or stays what it was to its bank. *)
SameToBank(e, f) ==
  /\ f.used /\ f.scheduled <=> e.used /\ e.scheduled
  /\ e.used /\ e.scheduled => f.addr = e.addr /\ f.forward_checked = e.forward_checked

LEMMA ReadSlotKeeps ==
  ASSUME NEW c \in Channel, Match(c), NEW i \in DOMAIN c.RQ,
         NEW f \in Packet \cup {NoEntry}, SameToBank(c.RQ[i], f)
  PROVE  LET d == [c EXCEPT !.RQ = [c.RQ EXCEPT ![i] = f]]
         IN  d \in Channel /\ d.RQ = [c.RQ EXCEPT ![i] = f] /\ d.WQ = c.WQ
             /\ Match(d) /\ (Idle(c) => Idle(d))
<1> DEFINE R == [c.RQ EXCEPT ![i] = f]
           d == [c EXCEPT !.RQ = R]
<1>1. R \in Slots(RQ_SIZE) /\ DOMAIN R = DOMAIN c.RQ /\ R[i] = f
      /\ \A j \in DOMAIN c.RQ : j # i => R[j] = c.RQ[j]
  BY ChannelFacts DEF Slots
<1> HIDE DEF R
<1>2. d \in Channel /\ d.RQ = R /\ d.WQ = c.WQ /\ d.bank = c.bank /\ d.active = c.active
  BY <1>1 DEF Channel
<1> HIDE DEF d
<1>3. d["RQ"] = R /\ d["WQ"] = c.WQ /\ c["RQ"] = c.RQ /\ c["WQ"] = c.WQ
  BY <1>2, ChannelFacts
<1>4. ASSUME NEW q \in OwnQueue
      PROVE  DOMAIN d[q] = DOMAIN c[q] /\
             \A j \in DOMAIN c[q] :
               /\ Busy(d, q, j) <=> Busy(c, q, j)
               /\ Busy(c, q, j) => d[q][j].addr = c[q][j].addr
                                   /\ d[q][j].forward_checked = c[q][j].forward_checked
  <2>1. CASE q = "WQ"
    BY <1>3, <2>1 DEF Busy
  <2>2. CASE q = "RQ"
    <3>1. d[q] = R /\ c[q] = c.RQ
      BY <1>3, <2>2
    <3> QED BY <1>1, <3>1 DEF Busy, SameToBank
  <2> QED BY <2>1, <2>2 DEF OwnQueue
<1>5. SameBusy(c, d)
  BY <1>2, <1>4 DEF SameBusy, Match
<1>6. Match(d) /\ (Idle(c) => Idle(d))
  BY <1>5, SameBusyMatch
<1> QED BY <1>2, <1>6 DEF d, R

(* The write queue changes. *)
LEMMA WriteQueueKeeps ==
  ASSUME NEW c \in Channel, Match(c), NEW W \in Slots(WQ_SIZE),
         \A i \in DOMAIN c.WQ :
           SameToBank(c.WQ[i], W[i]) /\ (W[i].used => W[i].to_return = {})
  PROVE  LET d == [c EXCEPT !.WQ = W]
         IN  d \in Channel /\ d.RQ = c.RQ /\ d.WQ = W /\ Match(d) /\ (Idle(c) => Idle(d))
<1> DEFINE d == [c EXCEPT !.WQ = W]
<1>1. d \in Channel /\ d.WQ = W /\ d.RQ = c.RQ /\ d.bank = c.bank /\ d.active = c.active
  BY DEF Channel
<1>2. DOMAIN W = DOMAIN c.WQ
  BY ChannelFacts DEF Slots
<1> HIDE DEF d
<1>3. d["WQ"] = W /\ d["RQ"] = c.RQ /\ c["RQ"] = c.RQ /\ c["WQ"] = c.WQ
  BY <1>1, ChannelFacts
<1>4. ASSUME NEW q \in OwnQueue
      PROVE  DOMAIN d[q] = DOMAIN c[q] /\
             \A j \in DOMAIN c[q] :
               /\ Busy(d, q, j) <=> Busy(c, q, j)
               /\ Busy(c, q, j) => d[q][j].addr = c[q][j].addr
                                   /\ d[q][j].forward_checked = c[q][j].forward_checked
  <2>1. CASE q = "RQ"
    BY <1>3, <2>1 DEF Busy
  <2>2. CASE q = "WQ"
    <3>1. d[q] = W /\ c[q] = c.WQ
      BY <1>3, <2>2
    <3> QED BY <1>2, <3>1 DEF Busy, SameToBank
  <2> QED BY <2>1, <2>2 DEF OwnQueue
<1>5. \A i \in Used(d.WQ) : d.WQ[i].to_return = {}
  BY <1>1, <1>2 DEF Used
<1>6. SameBusy(c, d)
  BY <1>1, <1>4, <1>5 DEF SameBusy
<1>7. Match(d) /\ (Idle(c) => Idle(d))
  BY <1>6, SameBusyMatch
<1> QED BY <1>1, <1>7 DEF d

LEMMA EmptyKeeps ==
  ASSUME NEW c \in Channel, Match(c), Idle(c)
  PROVE  LET d == [c EXCEPT !.WQ = Empty(WQ_SIZE)]
         IN  d \in Channel /\ d.RQ = c.RQ /\ Used(d.WQ) = {} /\ Match(d) /\ Idle(d)
<1> DEFINE W == Empty(WQ_SIZE)
<1>1. W \in Slots(WQ_SIZE) /\ DOMAIN W = DOMAIN c.WQ /\ \A i \in DOMAIN W : ~W[i].used
  BY ChannelFacts, EmptySlot DEF Empty, Slots
<1>2. \A i \in DOMAIN c.WQ : ~(c.WQ[i].used /\ c.WQ[i].scheduled)
  BY ChannelFacts DEF Idle, Busy, OwnQueue
<1> HIDE DEF W
<1>3. \A i \in DOMAIN c.WQ : SameToBank(c.WQ[i], W[i]) /\ (W[i].used => W[i].to_return = {})
  BY <1>1, <1>2 DEF SameToBank
<1>4. LET d == [c EXCEPT !.WQ = W]
      IN  d \in Channel /\ d.RQ = c.RQ /\ d.WQ = W /\ Match(d) /\ (Idle(c) => Idle(d))
  BY <1>1, <1>3, WriteQueueKeeps
<1>5. Used(W) = {}
  BY <1>1 DEF Used
<1> QED BY <1>4, <1>5 DEF W

LEMMA CheckWritesKeeps ==
  ASSUME NEW c \in Channel, Match(c)
  PROVE  LET d == check_write_collision(c)
         IN  /\ d \in Channel /\ d.RQ = c.RQ /\ Match(d) /\ (Idle(c) => Idle(d))
             /\ Unchecked(d.WQ) = {} /\ (Used(c.WQ) = {} => Used(d.WQ) = {})
<1> DEFINE W == [i \in DOMAIN c.WQ |->
                   IF i \notin Unchecked(c.WQ) THEN c.WQ[i]
                   ELSE IF Collides(c.WQ, i) THEN NoEntry
                        ELSE [c.WQ[i] EXCEPT !.forward_checked = TRUE]]
<1>1. check_write_collision(c) = [c EXCEPT !.WQ = W]
  BY DEF check_write_collision, Channel
<1>2. \A e \in Packet :
        LET f == [e EXCEPT !.forward_checked = TRUE]
        IN  f \in Packet /\ f.forward_checked = TRUE /\ f.scheduled = e.scheduled
            /\ f.used = e.used /\ f.to_return = e.to_return
  BY DEF Packet
<1>3. \A i \in DOMAIN c.WQ : Busy(c, "WQ", i) => i \notin Unchecked(c.WQ)
  BY ChannelFacts DEF Match, Unchecked, OwnQueue
<1>4. \A i \in DOMAIN c.WQ : Busy(c, "WQ", i) <=> c.WQ[i].used /\ c.WQ[i].scheduled
  BY ChannelFacts DEF Busy
<1>5. ASSUME NEW i \in DOMAIN c.WQ
      PROVE  /\ W[i] \in Packet \cup {NoEntry}
             /\ SameToBank(c.WQ[i], W[i])
             /\ W[i].used => W[i].to_return = {} /\ W[i].forward_checked /\ c.WQ[i].used
  <2>1. CASE i \notin Unchecked(c.WQ)
    <3>1. W[i] = c.WQ[i]
      BY <2>1
    <3>2. c.WQ[i].used => c.WQ[i].to_return = {} /\ c.WQ[i].forward_checked
      BY <2>1 DEF Match, Unchecked, Used
    <3>3. c.WQ[i] \in Packet \cup {NoEntry}
      BY ChannelFacts DEF Slots
    <3> HIDE DEF W
    <3> QED BY <3>1, <3>2, <3>3 DEF SameToBank
  <2>2. CASE i \in Unchecked(c.WQ)
    <3>1. c.WQ[i].used /\ ~c.WQ[i].scheduled /\ c.WQ[i].to_return = {}
      BY <1>3, <1>4, <2>2 DEF Unchecked, Used, Match
    <3>2. c.WQ[i] \in Packet
      BY <3>1, ChannelFacts DEF OwnQueue
    <3>3. W[i] = NoEntry \/ W[i] = [c.WQ[i] EXCEPT !.forward_checked = TRUE]
      BY <2>2
    <3>4. LET f == [c.WQ[i] EXCEPT !.forward_checked = TRUE]
          IN  f \in Packet /\ f.forward_checked = TRUE /\ f.scheduled = c.WQ[i].scheduled
              /\ f.used = c.WQ[i].used /\ f.to_return = c.WQ[i].to_return
      BY <1>2, <3>2
    <3> HIDE DEF W
    <3> QED BY <3>1, <3>3, <3>4, EmptySlot DEF SameToBank
  <2> QED BY <2>1, <2>2
<1>6. DOMAIN W = DOMAIN c.WQ /\ W = [i \in DOMAIN c.WQ |-> W[i]]
  OBVIOUS
<1> HIDE DEF W
<1>7. W \in Slots(WQ_SIZE)
  BY <1>5, <1>6, ChannelFacts DEF Slots
<1>8. LET d == [c EXCEPT !.WQ = W]
      IN  d \in Channel /\ d.RQ = c.RQ /\ d.WQ = W /\ Match(d) /\ (Idle(c) => Idle(d))
  BY <1>5, <1>7, WriteQueueKeeps
<1>9. Unchecked(W) = {} /\ (Used(c.WQ) = {} => Used(W) = {})
  BY <1>5, <1>6 DEF Unchecked, Used
<1> QED BY <1>1, <1>8, <1>9

(* The free slots are numbered without gaps. *)
LEMMA RankFacts ==
  ASSUME NEW n \in Nat, NEW s \in Slots(n)
  PROVE  /\ IsFiniteSet(Free(s)) /\ Free(s) \subseteq 1 .. n /\ Cardinality(Free(s)) \in Nat
         /\ \A i \in Free(s) : Rank(s, i) \in Nat \ {0}
         /\ \A i, j \in Free(s) : Rank(s, i) = Rank(s, j) => i = j
         /\ \A k \in 1 .. Cardinality(Free(s)) : \E i \in Free(s) : Rank(s, i) = k
<1> DEFINE F == Free(s)
           UpTo(i) == {j \in F : j <= i}
<1>1. F \subseteq 1 .. n /\ IsFiniteSet(F) /\ F \in SUBSET Int
  <2>1. F \subseteq 1 .. n
    BY DEF Free, Slots
  <2>2. IsFiniteSet(1 .. n)
    BY FS_Interval
  <2>3. F \in SUBSET (1 .. n) /\ F \in SUBSET Int
    BY <2>1
  <2> HIDE DEF F
  <2>4. IsFiniteSet(F)
    BY <2>2, <2>3, FS_Subset
  <2> QED BY <2>1, <2>3, <2>4
<1> HIDE DEF F
<1>2. Cardinality(F) \in Nat
  BY <1>1, FS_CardinalityType
<1>3. \A i : IsFiniteSet(UpTo(i)) /\ Cardinality(UpTo(i)) \in Nat
  <2> TAKE i
  <2>1. IsFiniteSet(UpTo(i))
    BY <1>1, FS_Subset
  <2> HIDE DEF UpTo
  <2> QED BY <2>1, FS_CardinalityType
<1>4. \A i : Rank(s, i) = Cardinality(UpTo(i))
  BY DEF Rank, F
<1>5. \A i \in F : Rank(s, i) \in Nat \ {0}
  <2> TAKE i \in F
  <2>1. i \in UpTo(i)
    BY <1>1
  <2> HIDE DEF UpTo
  <2> QED BY <1>3, <1>4, <2>1, FS_EmptySet
<1>6. ASSUME NEW i \in F, NEW j \in F, i < j PROVE Rank(s, i) # Rank(s, j)
  <2>2. i \in Int /\ j \in Int /\ \A x \in F : x \in Int
    BY <1>1
  <2>3. \A x \in F : x <= i => x <= j
    BY <1>6, <2>2
  <2>4. j <= j /\ ~(j <= i)
    BY <1>6, <2>2
  <2>1. UpTo(i) \in SUBSET UpTo(j) /\ j \in UpTo(j) /\ j \notin UpTo(i)
    BY <2>3, <2>4
  <2> HIDE DEF UpTo
  <2> QED BY <1>3, <1>4, <2>1, FS_Subset
<1>7. \A i, j \in F : Rank(s, i) = Rank(s, j) => i = j
  <2>1. \A i, j \in F : i < j \/ j < i \/ i = j
    BY <1>1
  <2> QED BY <1>6, <2>1
<1>8. \A k \in 1 .. Cardinality(F) : \E i \in F : Rank(s, i) = k
  <2> TAKE k \in 1 .. Cardinality(F)
  <2>1. Nth(F, k) \in F /\ Cardinality(UpTo(Nth(F, k))) = k
    BY <1>1, NthElement
  <2> QED BY <1>4, <2>1
<1> QED BY <1>1, <1>2, <1>5, <1>7, <1>8 DEF F

LEMMA EntryFacts ==
  ASSUME NEW u \in Upper, NEW t, NEW r \in Request
  PROVE  LET e == Entry(u, t, r)
         IN  /\ e \in Packet /\ e.used = TRUE /\ e.addr = r.addr /\ ~e.scheduled
             /\ e.to_return = (IF t = "RQ" /\ r.response_requested THEN {u} ELSE {})
<1> DEFINE T == IF t = "RQ" /\ r.response_requested THEN {u} ELSE {}
           e == Entry(u, t, r)
<1>1. e = [used |-> TRUE, addr |-> r.addr, to_return |-> T,
           forward_checked |-> FALSE, scheduled |-> FALSE, age |-> 0]
  BY DEF Entry
<1>2. T \in SUBSET Upper /\ r.addr \in Block
  BY DEF Request
<1> HIDE DEF T, e
<1>3. e \in Packet /\ e.used = TRUE /\ e.addr = r.addr /\ ~e.scheduled /\ e.to_return = T
  BY <1>1, <1>2 DEF Packet
<1> QED BY <1>3 DEF T, e

(* The n first requests of p in the first n free slots of a queue. *)
Fills(s, s2, u, t, p, n) ==
  /\ DOMAIN s2 = DOMAIN s
  /\ \A i \in Used(s) : s2[i] = s[i]
  /\ \A i \in Free(s) : \/ Rank(s, i) > n /\ s2[i] = s[i]
                        \/ Rank(s, i) \in 1 .. n /\ s2[i] = Entry(u, t, p[Rank(s, i)])
  /\ \A i, j \in Free(s) : Rank(s, i) = Rank(s, j) => i = j
  /\ \A k \in 1 .. n : \E i \in Free(s) : Rank(s, i) = k

LEMMA AddedFills ==
  ASSUME NEW size \in Nat, NEW s \in Slots(size), NEW u \in Upper, NEW t,
         NEW p \in Seq(Request), NEW n \in 0 .. Len(p), n <= Cardinality(Free(s))
  PROVE  LET s2 == Added(s, u, t, SubSeq(p, 1, n))
         IN  s2 \in Slots(size) /\ Fills(s, s2, u, t, p, n)
<1> DEFINE r == SubSeq(p, 1, n)
           s2 == Added(s, u, t, r)
<1>1. r \in Seq(Request) /\ Len(r) = n /\ \A k \in 1 .. n : r[k] = p[k] /\ p[k] \in Request
  OBVIOUS
<1>2. s2 = [i \in DOMAIN s |-> IF i \in Free(s) /\ Rank(s, i) <= Len(r)
                               THEN Entry(u, t, r[Rank(s, i)]) ELSE s[i]]
  BY DEF Added
<1>3. /\ Free(s) \subseteq 1 .. size /\ Cardinality(Free(s)) \in Nat
      /\ \A i \in Free(s) : Rank(s, i) \in Nat \ {0}
      /\ \A i, j \in Free(s) : Rank(s, i) = Rank(s, j) => i = j
      /\ \A k \in 1 .. Cardinality(Free(s)) : \E i \in Free(s) : Rank(s, i) = k
  BY RankFacts
<1> HIDE DEF r, s2
<1>4. DOMAIN s2 = DOMAIN s /\ DOMAIN s = 1 .. size
  BY <1>2 DEF Slots
<1>5. \A i \in Used(s) : s2[i] = s[i]
  BY <1>2 DEF Used, Free
<1>6. \A i \in Free(s) : \/ Rank(s, i) > n /\ s2[i] = s[i]
                         \/ Rank(s, i) \in 1 .. n /\ s2[i] = Entry(u, t, p[Rank(s, i)])
  <2> TAKE i \in Free(s)
  <2>1. i \in DOMAIN s
    BY DEF Free
  <2>2. CASE Rank(s, i) <= n
    BY <1>1, <1>2, <1>3, <2>1, <2>2
  <2>3. CASE Rank(s, i) > n
    BY <1>1, <1>2, <1>3, <2>1, <2>3
  <2> QED BY <1>3, <2>2, <2>3
<1>7. \A k \in 1 .. n : \E i \in Free(s) : Rank(s, i) = k
  BY <1>3
<1>8. Fills(s, s2, u, t, p, n)
  BY <1>3, <1>4, <1>5, <1>6, <1>7 DEF Fills
<1>9. \A i \in 1 .. size : s2[i] \in Packet \cup {NoEntry}
  <2> TAKE i \in 1 .. size
  <2>1. i \in Used(s) \/ i \in Free(s)
    BY <1>4 DEF Free
  <2>2. s[i] \in Packet \cup {NoEntry}
    BY DEF Slots
  <2>3. CASE s2[i] = s[i]
    BY <2>2, <2>3
  <2>4. CASE \E k \in 1 .. n : s2[i] = Entry(u, t, p[k])
    <3>1. PICK k \in 1 .. n : s2[i] = Entry(u, t, p[k])
      BY <2>4
    <3>2. p[k] \in Request
      BY <1>1
    <3>3. Entry(u, t, p[k]) \in Packet
      BY <3>2, EntryFacts
    <3> QED BY <3>1, <3>3
  <2> QED BY <1>5, <1>6, <2>1, <2>3, <2>4
<1>10. s2 \in Slots(size)
  BY <1>2, <1>4, <1>9 DEF Slots
<1> QED BY <1>8, <1>10 DEF r, s2

(* initiate_requests looks at one queue: what it takes, and what is left. *)
Target(q) == IF q = "WQ" THEN "WQ" ELSE "RQ"

LEMMA InitiateFacts ==
  ASSUME NEW u \in Upper, NEW q \in Queue, NEW Q \in UpperQueues, NEW c \in Channel, Match(c)
  PROVE  LET Q2 == Initiate(<<Q, c>>, u, q)[1]
             c2 == Initiate(<<Q, c>>, u, q)[2]
         IN  /\ Q2 \in UpperQueues /\ c2 \in Channel
             /\ Match(c2) /\ (Idle(c) => Idle(c2))
             /\ \A p \in Queue : p # q => Q2[p] = Q[p]
             /\ \E n \in 0 .. Len(Q[q]) :
                  /\ Q2[q] = Drop(Q[q], n)
                  /\ q = "WQ" => c2.RQ = c.RQ
                  /\ q # "WQ" => Fills(c.RQ, c2.RQ, u, "RQ", Q[q], n)
<1> DEFINE t == Target(q)
           n == Lesser(Len(Q[q]), Cardinality(Free(c[t])))
           s == Added(c[t], u, t, SubSeq(Q[q], 1, n))
           Q2 == [Q EXCEPT ![q] = Drop(Q[q], n)]
           c2 == [c EXCEPT ![t] = s]
           size == IF t = "RQ" THEN RQ_SIZE ELSE WQ_SIZE
<1>1. Initiate(<<Q, c>>, u, q) = <<Q2, c2>>
  <2>1. Initiate(<<Q, c>>, u, q) = << [Q EXCEPT ![q] = Drop(@, n)],
                                      [c EXCEPT ![t] = Added(@, u, t, SubSeq(Q[q], 1, n))] >>
    BY DEF Initiate, Target
  <2> QED BY <2>1
<1>2. t \in OwnQueue /\ c[t] \in Slots(size) /\ size \in Nat
  BY ChannelFacts, Sizes DEF Target, OwnQueue
<1>3. Q[q] \in Seq(Request)
  BY DEF UpperQueues
<1>4. n \in 0 .. Len(Q[q]) /\ n <= Cardinality(Free(c[t]))
  <2>1. Len(Q[q]) \in Nat /\ Cardinality(Free(c[t])) \in Nat
    BY <1>2, <1>3, RankFacts
  <2> QED BY <2>1 DEF Lesser
<1> HIDE DEF t, n, size
<1>5. s \in Slots(size) /\ Fills(c[t], s, u, t, Q[q], n)
  BY <1>2, <1>3, <1>4, AddedFills
<1> HIDE DEF s
<1>6. Q2 \in UpperQueues /\ Q2[q] = Drop(Q[q], n) /\ \A p \in Queue : p # q => Q2[p] = Q[p]
  BY <1>3, <1>4, Dropped DEF UpperQueues
<1>7. \A i \in DOMAIN c[t] : \/ s[i] = c[t][i]
                             \/ /\ ~c[t][i].used /\ ~s[i].scheduled
                                /\ s[i].to_return = {} \/ t = "RQ"
                                /\ s[i] \in Packet
  <2> TAKE i \in DOMAIN c[t]
  <2>1. CASE i \in Used(c[t])
    BY <1>5, <2>1 DEF Fills
  <2>2. CASE i \in Free(c[t])
    <3>1. ~c[t][i].used
      BY <2>2 DEF Free, Used
    <3>2. CASE s[i] = c[t][i]
      BY <3>2
    <3>3. CASE \E k \in 1 .. n : s[i] = Entry(u, t, Q[q][k])
      <4>1. PICK k \in 1 .. n : s[i] = Entry(u, t, Q[q][k])
        BY <3>3
      <4>2. Q[q][k] \in Request
        BY <1>3, <1>4
      <4> DEFINE e == Entry(u, t, Q[q][k])
      <4>3. e \in Packet /\ ~e.scheduled
            /\ e.to_return = (IF t = "RQ" /\ Q[q][k].response_requested THEN {u} ELSE {})
        BY <4>2, EntryFacts
      <4> HIDE DEF e
      <4>4. s[i] = e
        BY <4>1 DEF e
      <4> QED BY <3>1, <4>3, <4>4
    <3> QED BY <1>5, <2>2, <3>2, <3>3 DEF Fills
  <2> QED BY <2>1, <2>2 DEF Free
<1>8. CASE t = "RQ"
  <2>1. c[t] = c.RQ /\ c["WQ"] = c.WQ /\ size = RQ_SIZE
    BY <1>8, ChannelFacts DEF size
  <2>2. c2 \in Channel /\ c2.RQ = s /\ c2.WQ = c.WQ /\ c2.bank = c.bank /\ c2.active = c.active
    BY <1>5, <1>8, <2>1 DEF Channel
  <2> HIDE DEF c2
  <2>3. c2["RQ"] = s /\ c2["WQ"] = c.WQ
    BY <2>2, ChannelFacts
  <2>4. ASSUME NEW r \in OwnQueue
        PROVE  DOMAIN c2[r] = DOMAIN c[r] /\
               \A j \in DOMAIN c[r] :
                 /\ Busy(c2, r, j) <=> Busy(c, r, j)
                 /\ Busy(c, r, j) => c2[r][j].addr = c[r][j].addr
                                     /\ c2[r][j].forward_checked = c[r][j].forward_checked
    <3>1. CASE r = "WQ"
      BY <2>1, <2>3, <3>1 DEF Busy
    <3>2. CASE r = "RQ"
      <4>1. c2[r] = s /\ c[r] = c[t] /\ DOMAIN s = DOMAIN c[t]
        BY <1>5, <1>8, <2>3, <3>2 DEF Fills
      <4> QED BY <1>7, <4>1 DEF Busy
    <3> QED BY <3>1, <3>2 DEF OwnQueue
  <2>5. SameBusy(c, c2)
    BY <2>2, <2>4 DEF SameBusy, Match
  <2>6. Match(c2) /\ (Idle(c) => Idle(c2))
    BY <2>5, SameBusyMatch
  <2>7. q # "WQ" /\ Fills(c.RQ, c2.RQ, u, "RQ", Q[q], n)
    BY <1>5, <1>8, <2>1, <2>2 DEF t, Target
  <2> HIDE DEF Q2
  <2> QED BY <1>1, <1>4, <1>6, <2>2, <2>6, <2>7
<1>9. CASE t = "WQ"
  <2>1. c[t] = c.WQ /\ size = WQ_SIZE /\ q = "WQ"
    BY <1>9, ChannelFacts DEF size, t, Target
  <2>2. c2 = [c EXCEPT !.WQ = s]
    BY <1>9
  <2>3. \A i \in DOMAIN c.WQ :
          SameToBank(c.WQ[i], s[i]) /\ (s[i].used => s[i].to_return = {})
    BY <1>7, <1>9, <2>1 DEF SameToBank, Match, Used
  <2>4. LET d == [c EXCEPT !.WQ = s]
        IN  d \in Channel /\ d.RQ = c.RQ /\ d.WQ = s /\ Match(d) /\ (Idle(c) => Idle(d))
    BY <1>5, <2>1, <2>3, WriteQueueKeeps
  <2> HIDE DEF Q2, c2
  <2>5. c2 \in Channel /\ c2.RQ = c.RQ /\ Match(c2) /\ (Idle(c) => Idle(c2))
    BY <2>2, <2>4
  <2> QED BY <1>1, <1>4, <1>6, <2>1, <2>5
<1> QED BY <1>2, <1>8, <1>9 DEF OwnQueue

--------------------------------------------------------------------------------
(* A request that somebody waits for is in one place *)

LEMMA SameReadsWait ==
  ASSUME NEW A, NEW Q, NEW s, NEW t, NEW r, NEW u, SameReads(s, t), WaitsOnce(A, Q, s, r, u)
  PROVE  WaitsOnce(A, Q, t, r, u)
<1>1. \A b, i : Holds(t, u, b, i) <=> Holds(s, u, b, i)
  BY DEF SameReads, Holds, Used
<1>2. \A b : IsHeld(t, u, b) <=> IsHeld(s, u, b)
  BY <1>1 DEF IsHeld, SameReads
<1>3. DOMAIN s = DOMAIN t
  BY DEF SameReads
<1> QED BY <1>1, <1>2, <1>3 DEF WaitsOnce

(* An entry leaves RQ and those it is for get their answer. *)
LEMMA ReleaseWaits ==
  ASSUME NEW n \in Nat, NEW s \in Slots(n), NEW i \in Used(s), NEW A \in SUBSET Block, NEW Q,
         NEW r \in Seq(Block), NEW u, WaitsOnce(A, Q, s, r, u)
  PROVE  LET r2 == IF u \in s[i].to_return THEN Append(r, s[i].addr) ELSE r
         IN  r2 \in Seq(Block) /\ WaitsOnce(A, Q, [s EXCEPT ![i] = NoEntry], r2, u)
<1> DEFINE t == [s EXCEPT ![i] = NoEntry]
           r2 == IF u \in s[i].to_return THEN Append(r, s[i].addr) ELSE r
           c == s[i].addr
<1>1. i \in DOMAIN s /\ s[i] \in Packet /\ c \in Block
  BY SlotFacts, PacketFacts DEF Used
<1>2. \A b, j : Holds(t, u, b, j) <=> j # i /\ Holds(s, u, b, j)
  <2>1. DOMAIN t = DOMAIN s /\ t[i] = NoEntry /\ \A j \in DOMAIN s : j # i => t[j] = s[j]
    BY <1>1
  <2> HIDE DEF t
  <2> QED BY <2>1, EmptySlot DEF Holds, Used
<1>3. DOMAIN t = DOMAIN s
  OBVIOUS
<1>4. \A b : Holds(s, u, b, i) <=> u \in s[i].to_return /\ b = c
  BY DEF Holds
<1> HIDE DEF t, c
<1>5. \A b : IsHeld(t, u, b) <=> \E j \in DOMAIN s : j # i /\ Holds(s, u, b, j)
  BY <1>2, <1>3 DEF IsHeld
<1>6. CASE u \notin s[i].to_return
  <2>1. r2 = r
    BY <1>6
  <2>2. \A b, j : Holds(t, u, b, j) <=> Holds(s, u, b, j)
    BY <1>2, <1>4, <1>6
  <2>3. \A b : IsHeld(t, u, b) <=> IsHeld(s, u, b)
    BY <1>3, <2>2 DEF IsHeld
  <2>4. WaitsOnce(A, Q, t, r, u)
    BY <1>3, <2>2, <2>3 DEF WaitsOnce
  <2> QED BY <2>1, <2>4 DEF t
<1>7. CASE u \in s[i].to_return
  <2>1. r2 = Append(r, c)
    BY <1>7 DEF c
  <2>2. /\ r2 \in Seq(Block) /\ DOMAIN r = 1 .. Len(r) /\ DOMAIN r2 = 1 .. (Len(r) + 1)
        /\ Len(r) \in Nat /\ r2[Len(r) + 1] = c /\ \A k \in DOMAIN r : r2[k] = r[k]
    BY <1>1, <2>1
  <2> HIDE DEF r2
  <2>3. \A b : IsReturned(r2, b) <=> IsReturned(r, b) \/ b = c
    <3>1. \A k \in DOMAIN r2 : k \in DOMAIN r \/ k = Len(r) + 1
      BY <2>2
    <3>2. DOMAIN r \subseteq DOMAIN r2 /\ Len(r) + 1 \in DOMAIN r2
      BY <2>2
    <3> QED BY <2>2, <3>1, <3>2 DEF IsReturned
  <2>4. Holds(s, u, c, i)
    BY <1>4, <1>7
  <2>5. IsHeld(s, u, c) /\ c \in Block
    BY <1>1, <2>4 DEF IsHeld, c
  <2>6. ~IsHeld(t, u, c) /\ ~IsReturned(r, c) /\ ~IsQueued(Q, c) /\ c \in A
    BY <1>1, <1>5, <2>4, <2>5 DEF WaitsOnce
  <2>7. \A b : b # c => (IsHeld(t, u, b) <=> IsHeld(s, u, b))
    <3>1. \A b : b # c => ~Holds(s, u, b, i)
      BY <1>4
    <3> QED BY <1>5, <3>1 DEF IsHeld
  <2>8. ASSUME NEW b \in Block, NEW k \in DOMAIN r2, NEW l \in DOMAIN r2, r2[k] = b, r2[l] = b
        PROVE  k = l
    <3>1. (k \in DOMAIN r \/ k = Len(r) + 1) /\ (l \in DOMAIN r \/ l = Len(r) + 1)
      BY <2>2
    <3>2. CASE k \in DOMAIN r /\ l \in DOMAIN r
      BY <2>2, <2>8, <3>2 DEF WaitsOnce
    <3>3. CASE k \in DOMAIN r /\ l = Len(r) + 1
      BY <2>2, <2>6, <2>8, <3>3 DEF IsReturned
    <3>4. CASE l \in DOMAIN r /\ k = Len(r) + 1
      BY <2>2, <2>6, <2>8, <3>4 DEF IsReturned
    <3> QED BY <3>1, <3>2, <3>3, <3>4
  <2>9. ASSUME NEW b \in Block
        PROVE  /\ b \in A <=> IsQueued(Q, b) \/ IsHeld(t, u, b) \/ IsReturned(r2, b)
               /\ ~(IsQueued(Q, b) /\ IsHeld(t, u, b))
               /\ ~(IsQueued(Q, b) /\ IsReturned(r2, b))
               /\ ~(IsHeld(t, u, b) /\ IsReturned(r2, b))
    <3>1. CASE b = c
      BY <2>3, <2>6, <3>1
    <3>2. CASE b # c
      BY <2>3, <2>7, <3>2 DEF WaitsOnce
    <3> QED BY <3>1, <3>2
  <2>10. ASSUME NEW b \in Block
         PROVE  \A j, k \in DOMAIN t : Holds(t, u, b, j) /\ Holds(t, u, b, k) => j = k
    BY <1>2, <1>3 DEF WaitsOnce
  <2>11. \A b \in Block : \A p, q \in Queue : \A j \in DOMAIN Q[p], k \in DOMAIN Q[q] :
           Awaits(Q[p][j], b) /\ Awaits(Q[q][k], b) => p = q /\ j = k
    BY DEF WaitsOnce
  <2>12. WaitsOnce(A, Q, t, r2, u)
    BY <2>8, <2>9, <2>10, <2>11 DEF WaitsOnce
  <2> QED BY <2>2, <2>12 DEF t, r2
<1> QED BY <1>6, <1>7

(* An entry takes over the ones that another waits for. *)
LEMMA MergeWaits ==
  ASSUME NEW s, NEW t, NEW i \in Used(s), NEW j \in Used(s), i # j, s[i].addr = s[j].addr,
         DOMAIN t = DOMAIN s, ~t[i].used, t[j].used, t[j].addr = s[j].addr,
         t[j].to_return = s[j].to_return \cup s[i].to_return,
         \A k \in DOMAIN s : k # i /\ k # j => t[k] = s[k],
         NEW A, NEW Q, NEW r, NEW u, WaitsOnce(A, Q, s, r, u)
  PROVE  WaitsOnce(A, Q, t, r, u)
<1>1. i \in DOMAIN s /\ j \in DOMAIN s /\ s[i].used /\ s[j].used
  BY DEF Used
<1>2. \A b : ~Holds(t, u, b, i) /\ (Holds(t, u, b, j) <=> Holds(s, u, b, i) \/ Holds(s, u, b, j))
  BY <1>1 DEF Holds, Used
<1>3. \A b, k : k # i /\ k # j => (Holds(t, u, b, k) <=> Holds(s, u, b, k))
  BY DEF Holds, Used
<1>4. \A b : IsHeld(t, u, b) <=> IsHeld(s, u, b)
  BY <1>1, <1>2, <1>3 DEF IsHeld
<1>5. ASSUME NEW b \in Block, NEW k \in DOMAIN t, NEW l \in DOMAIN t,
             Holds(t, u, b, k), Holds(t, u, b, l)
      PROVE  k = l
  <2>1. k # i /\ l # i
    BY <1>2, <1>5
  <2>2. \A x, y \in DOMAIN s : Holds(s, u, b, x) /\ Holds(s, u, b, y) => x = y
    BY DEF WaitsOnce
  <2> QED BY <1>1, <1>2, <1>3, <1>5, <2>1, <2>2
<1> QED BY <1>4, <1>5 DEF WaitsOnce

(* A channel sends a request. *)
LEMMA AskWaits ==
  ASSUME NEW Q \in UpperQueues, NEW q \in Queue, NEW req \in Request, NEW A, NEW s, NEW r, NEW u,
         WaitsOnce(A, Q, s, r, u), req.response_requested => req.addr \notin A
  PROVE  LET Q2 == [Q EXCEPT ![q] = Append(@, req)]
             A2 == IF req.response_requested THEN A \cup {req.addr} ELSE A
         IN  Q2 \in UpperQueues /\ WaitsOnce(A2, Q2, s, r, u)
<1> DEFINE Q2 == [Q EXCEPT ![q] = Append(@, req)]
           A2 == IF req.response_requested THEN A \cup {req.addr} ELSE A
           n == Len(Q[q]) + 1
<1>1. Q[q] \in Seq(Request) /\ req.addr \in Block
  BY DEF UpperQueues, Request
<1>2. /\ Q2 \in UpperQueues /\ \A p \in Queue : p # q => Q2[p] = Q[p]
      /\ DOMAIN Q2[q] = DOMAIN Q[q] \cup {n} /\ n \notin DOMAIN Q[q] /\ Q2[q][n] = req
      /\ \A k \in DOMAIN Q[q] : Q2[q][k] = Q[q][k]
  <2>1. Q2[q] = Append(Q[q], req) /\ \A p \in Queue : p # q => Q2[p] = Q[p]
    BY DEF UpperQueues
  <2>2. Append(Q[q], req) \in Seq(Request)
    BY <1>1
  <2>3. Q2 \in UpperQueues
    BY <2>2 DEF UpperQueues
  <2> HIDE DEF Q2
  <2> QED BY <1>1, <2>1, <2>2, <2>3
<1> HIDE DEF Q2, A2, n
<1>3. \A b : Awaits(req, b) <=> req.response_requested /\ b = req.addr
  BY DEF Awaits
<1>4. ASSUME NEW p \in Queue, NEW k \in DOMAIN Q2[p]
      PROVE  \/ p = q /\ k = n /\ Q2[p][k] = req
             \/ k \in DOMAIN Q[p] /\ Q2[p][k] = Q[p][k]
  BY <1>2
<1>5. \A b : IsQueued(Q2, b) <=> IsQueued(Q, b) \/ Awaits(req, b)
  <2>1. \A p \in Queue : \A k \in DOMAIN Q[p] : k \in DOMAIN Q2[p] /\ Q2[p][k] = Q[p][k]
    BY <1>2
  <2>2. n \in DOMAIN Q2[q] /\ Q2[q][n] = req
    BY <1>2
  <2> QED BY <1>4, <2>1, <2>2 DEF IsQueued
<1>6. \A b \in Block : Awaits(req, b) =>
        ~IsQueued(Q, b) /\ ~IsHeld(s, u, b) /\ ~IsReturned(r, b)
  BY <1>3 DEF WaitsOnce
<1>7. \A b : b \in A2 <=> b \in A \/ Awaits(req, b)
  BY <1>3 DEF A2
<1>8. ASSUME NEW b \in Block, NEW p \in Queue, NEW o \in Queue,
             NEW k \in DOMAIN Q2[p], NEW l \in DOMAIN Q2[o], Awaits(Q2[p][k], b), Awaits(Q2[o][l], b)
      PROVE  p = o /\ k = l
  <2>1. CASE Awaits(req, b)
    <3>1. \A x \in Queue : \A y \in DOMAIN Q[x] : ~Awaits(Q[x][y], b)
      BY <1>6, <2>1 DEF IsQueued
    <3> QED BY <1>4, <1>8, <3>1
  <2>2. CASE ~Awaits(req, b)
    <3>1. k \in DOMAIN Q[p] /\ Q2[p][k] = Q[p][k] /\ l \in DOMAIN Q[o] /\ Q2[o][l] = Q[o][l]
      BY <1>4, <1>8, <2>2
    <3> QED BY <1>8, <3>1 DEF WaitsOnce
  <2> QED BY <2>1, <2>2
<1>9. ASSUME NEW b \in Block
      PROVE  /\ b \in A2 <=> IsQueued(Q2, b) \/ IsHeld(s, u, b) \/ IsReturned(r, b)
             /\ ~(IsQueued(Q2, b) /\ IsHeld(s, u, b))
             /\ ~(IsQueued(Q2, b) /\ IsReturned(r, b))
             /\ ~(IsHeld(s, u, b) /\ IsReturned(r, b))
             /\ \A i, j \in DOMAIN s : Holds(s, u, b, i) /\ Holds(s, u, b, j) => i = j
             /\ \A i, j \in DOMAIN r : r[i] = b /\ r[j] = b => i = j
  BY <1>5, <1>6, <1>7 DEF WaitsOnce
<1>10. WaitsOnce(A2, Q2, s, r, u)
  BY <1>8, <1>9 DEF WaitsOnce
<1> QED BY <1>2, <1>10 DEF Q2, A2

(* It reads its oldest answer. *)
LEMMA ReadWaits ==
  ASSUME NEW r \in Seq(Block), r # <<>>, NEW A, NEW Q, NEW s, NEW u, WaitsOnce(A, Q, s, r, u)
  PROVE  Tail(r) \in Seq(Block) /\ WaitsOnce(A \ {Head(r)}, Q, s, Tail(r), u)
<1> DEFINE t == Tail(r)
           h == Head(r)
<1>1. /\ h = r[1] /\ h \in Block /\ 1 \in DOMAIN r /\ t \in Seq(Block)
      /\ \A k \in DOMAIN r : k # 1 => k - 1 \in DOMAIN t /\ t[k - 1] = r[k]
      /\ DOMAIN r \subseteq Int
      /\ \A k \in DOMAIN t : k \in Int /\ k + 1 \in DOMAIN r /\ k + 1 # 1 /\ t[k] = r[k + 1]
  OBVIOUS
<1> HIDE DEF t, h
<1>2. IsReturned(r, h) /\ \A k \in DOMAIN r : r[k] = h => k = 1
  BY <1>1 DEF WaitsOnce, IsReturned
<1>3. \A b : IsReturned(t, b) <=> IsReturned(r, b) /\ b # h
  <2>1. \A b : IsReturned(t, b) => IsReturned(r, b) /\ b # h
    BY <1>1, <1>2 DEF IsReturned
  <2>2. \A b : IsReturned(r, b) /\ b # h => IsReturned(t, b)
    BY <1>1 DEF IsReturned
  <2> QED BY <2>1, <2>2
<1>4. ASSUME NEW b \in Block, NEW i \in DOMAIN t, NEW j \in DOMAIN t, t[i] = b, t[j] = b
      PROVE  i = j
  <2>1. i + 1 = j + 1
    BY <1>1, <1>4 DEF WaitsOnce
  <2> QED BY <1>1, <2>1
<1>5. ASSUME NEW b \in Block
      PROVE  /\ b \in A \ {h} <=> IsQueued(Q, b) \/ IsHeld(s, u, b) \/ IsReturned(t, b)
             /\ ~(IsQueued(Q, b) /\ IsHeld(s, u, b))
             /\ ~(IsQueued(Q, b) /\ IsReturned(t, b))
             /\ ~(IsHeld(s, u, b) /\ IsReturned(t, b))
             /\ \A p, q \in Queue : \A i \in DOMAIN Q[p], j \in DOMAIN Q[q] :
                  Awaits(Q[p][i], b) /\ Awaits(Q[q][j], b) => p = q /\ i = j
             /\ \A i, j \in DOMAIN s : Holds(s, u, b, i) /\ Holds(s, u, b, j) => i = j
  BY <1>2, <1>3 DEF WaitsOnce
<1>6. WaitsOnce(A \ {h}, Q, s, t, u)
  BY <1>4, <1>5 DEF WaitsOnce
<1> QED BY <1>1, <1>6 DEF t, h

LEMMA ReadEntry ==
  ASSUME NEW u \in Upper, NEW req \in Request
  PROVE  LET e == Entry(u, "RQ", req)
         IN  /\ e.used = TRUE /\ e.addr = req.addr
             /\ \A v : v \in e.to_return <=> req.response_requested /\ v = u
<1> DEFINE e == Entry(u, "RQ", req)
<1>1. e = [used |-> TRUE, addr |-> req.addr,
           to_return |-> IF req.response_requested THEN {u} ELSE {},
           forward_checked |-> FALSE, scheduled |-> FALSE, age |-> 0]
  BY DEF Entry
<1> HIDE DEF e
<1>2. e.used = TRUE /\ e.addr = req.addr
      /\ e.to_return = IF req.response_requested THEN {u} ELSE {}
  BY <1>1
<1> QED BY <1>2 DEF e

(* Requests move from a channel to RQ. *)
LEMMA MovedWaits ==
  ASSUME NEW Q \in UpperQueues, NEW q \in Queue, NEW n \in 0 .. Len(Q[q]), NEW Q2,
         Q2[q] = Drop(Q[q], n), \A p \in Queue : p # q => Q2[p] = Q[p],
         NEW size \in Nat, NEW s \in Slots(size), NEW s2, NEW u \in Upper,
         Fills(s, s2, u, "RQ", Q[q], n),
         NEW A, NEW r, WaitsOnce(A, Q, s, r, u)
  PROVE  WaitsOnce(A, Q2, s2, r, u)
<1> DEFINE p == Q[q]
           First(b) == \E k \in 1 .. n : Awaits(p[k], b)
           Taken(b, i) == i \in Free(s) /\ Rank(s, i) \in 1 .. n /\ Awaits(p[Rank(s, i)], b)
<1>1. /\ p \in Seq(Request) /\ n \in Nat /\ n <= Len(p) /\ DOMAIN p = 1 .. Len(p)
      /\ \A k \in 1 .. n : k \in DOMAIN p /\ p[k] \in Request
  BY DEF UpperQueues
<1>2. /\ \A k \in DOMAIN Q2[q] : k \in Int /\ k > 0 /\ n + k \in DOMAIN p /\ Q2[q][k] = p[n + k]
      /\ \A k \in DOMAIN p : k > n => k - n \in DOMAIN Q2[q] /\ Q2[q][k - n] = p[k]
  <2>1. /\ Drop(p, n) \in Seq(Request)
        /\ \A k \in DOMAIN Drop(p, n) : n + k \in DOMAIN p /\ Drop(p, n)[k] = p[n + k]
        /\ \A i \in DOMAIN p : i > n => i - n \in DOMAIN Drop(p, n) /\ Drop(p, n)[i - n] = p[i]
    BY <1>1, Dropped
  <2>2. \A k \in DOMAIN Drop(p, n) : k \in Int /\ k > 0
    BY <2>1
  <2> QED BY <2>1, <2>2
<1> HIDE DEF p
<1>3. \A i \in DOMAIN s : i \in Used(s) \/ i \in Free(s)
  BY DEF Free
<1>4. ASSUME NEW b, NEW i
      PROVE  Holds(s2, u, b, i) <=> Holds(s, u, b, i) \/ Taken(b, i)
  <2>1. CASE i \in Used(s)
    <3>1. i \notin Free(s) /\ s2[i] = s[i] /\ DOMAIN s2 = DOMAIN s
      BY <2>1 DEF Free, Fills
    <3> QED BY <3>1 DEF Holds, Used
  <2>2. CASE i \in Free(s)
    <3>1. i \in DOMAIN s /\ ~s[i].used /\ i \notin Used(s) /\ DOMAIN s2 = DOMAIN s
      BY <2>2 DEF Free, Used, Fills
    <3>2. CASE Rank(s, i) > n /\ s2[i] = s[i]
      <4>1. Rank(s, i) \notin 1 .. n
        BY <1>1, <3>2
      <4> QED BY <3>1, <3>2, <4>1 DEF Holds, Used
    <3>3. CASE Rank(s, i) \in 1 .. n /\ s2[i] = Entry(u, "RQ", p[Rank(s, i)])
      <4> DEFINE req == p[Rank(s, i)]
                 e == Entry(u, "RQ", req)
      <4>1. req \in Request
        BY <1>1, <3>3
      <4> HIDE DEF req
      <4>2. e.used = TRUE /\ e.addr = req.addr
            /\ (u \in e.to_return <=> req.response_requested)
        BY <4>1, ReadEntry
      <4>3. s2[i] = e
        BY <3>3 DEF req
      <4> HIDE DEF e
      <4>4. Holds(s2, u, b, i) <=> Awaits(req, b)
        BY <3>1, <4>2, <4>3 DEF Holds, Used, Awaits
      <4>5. ~Holds(s, u, b, i)
        BY <3>1 DEF Holds
      <4>6. Taken(b, i) <=> Awaits(req, b)
        BY <2>2, <3>3 DEF req
      <4> QED BY <4>4, <4>5, <4>6
    <3> QED BY <2>2, <3>2, <3>3 DEF Fills, p
  <2>3. CASE i \notin DOMAIN s
    BY <2>3 DEF Holds, Used, Free, Fills
  <2> QED BY <1>3, <2>1, <2>2, <2>3
<1>5. \A b : IsQueued(Q, b) <=> IsQueued(Q2, b) \/ First(b)
  <2> TAKE b
  <2>1. ASSUME NEW o \in Queue, NEW k \in DOMAIN Q[o], Awaits(Q[o][k], b)
        PROVE  IsQueued(Q2, b) \/ First(b)
    <3>1. CASE o # q
      BY <2>1, <3>1 DEF IsQueued
    <3>2. CASE o = q /\ k <= n
      BY <1>1, <2>1, <3>2 DEF p
    <3>3. CASE o = q /\ k > n
      BY <1>2, <2>1, <3>3 DEF IsQueued, p
    <3>4. o = q => k <= n \/ k > n
      BY <1>1 DEF p
    <3> QED BY <3>1, <3>2, <3>3, <3>4
  <2>2. ASSUME NEW o \in Queue, NEW k \in DOMAIN Q2[o], Awaits(Q2[o][k], b)
        PROVE  IsQueued(Q, b)
    <3>1. CASE o # q
      BY <2>2, <3>1 DEF IsQueued
    <3>2. CASE o = q
      BY <1>2, <2>2, <3>2 DEF IsQueued, p
    <3> QED BY <3>1, <3>2
  <2>3. First(b) => IsQueued(Q, b)
    BY <1>1 DEF IsQueued, p
  <2> QED BY <2>1, <2>2, <2>3 DEF IsQueued
<1>6. \A b : IsHeld(s2, u, b) <=> IsHeld(s, u, b) \/ First(b)
  <2> TAKE b
  <2>1. \A i : Taken(b, i) => First(b)
    OBVIOUS
  <2>2. First(b) => \E i \in DOMAIN s : Taken(b, i)
    BY DEF Fills, Free
  <2>3. DOMAIN s2 = DOMAIN s
    BY DEF Fills
  <2>4. \A i : Holds(s2, u, b, i) <=> Holds(s, u, b, i) \/ Taken(b, i)
    BY <1>4
  <2> HIDE DEF Taken, First
  <2> QED BY <2>1, <2>2, <2>3, <2>4 DEF IsHeld
<1>7. \A b \in Block : \A o, x \in Queue : \A k \in DOMAIN Q[o], l \in DOMAIN Q[x] :
        Awaits(Q[o][k], b) /\ Awaits(Q[x][l], b) => o = x /\ k = l
  BY DEF WaitsOnce
<1>8. ASSUME NEW b \in Block, First(b)
      PROVE  ~IsQueued(Q2, b) /\ ~IsHeld(s, u, b) /\ ~IsReturned(r, b) /\ IsQueued(Q, b)
  <2>1. PICK f \in 1 .. n : Awaits(p[f], b)
    BY <1>8
  <2>2. f \in DOMAIN Q[q] /\ Awaits(Q[q][f], b) /\ f \in Int /\ f <= n
    BY <1>1, <2>1 DEF p
  <2>3. ASSUME NEW o \in Queue, NEW k \in DOMAIN Q2[o], Awaits(Q2[o][k], b)
        PROVE  FALSE
    <3>1. CASE o # q
      <4>1. k \in DOMAIN Q[o] /\ Awaits(Q[o][k], b)
        BY <2>3, <3>1
      <4> QED BY <1>7, <2>2, <3>1, <4>1
    <3>2. CASE o = q
      <4>1. k \in Int /\ k > 0 /\ n + k \in DOMAIN Q[q] /\ Awaits(Q[q][n + k], b)
        BY <1>2, <2>3, <3>2 DEF p
      <4>2. n + k = f
        BY <1>7, <2>2, <4>1
      <4> QED BY <1>1, <2>2, <4>1, <4>2
    <3> QED BY <3>1, <3>2
  <2>4. ~IsQueued(Q2, b)
    BY <2>3 DEF IsQueued
  <2>5. IsQueued(Q, b)
    BY <1>5, <1>8
  <2> QED BY <2>4, <2>5 DEF WaitsOnce
<1>9. ASSUME NEW b \in Block, NEW o \in Queue, NEW x \in Queue,
             NEW k \in DOMAIN Q2[o], NEW l \in DOMAIN Q2[x], Awaits(Q2[o][k], b), Awaits(Q2[x][l], b)
      PROVE  o = x /\ k = l
  <2> DEFINE At0(y, m) == IF y = q THEN n + m ELSE m
  <2>1. \A y \in Queue : \A m \in DOMAIN Q2[y] :
          At0(y, m) \in DOMAIN Q[y] /\ Q2[y][m] = Q[y][At0(y, m)]
    BY <1>2 DEF p
  <2> HIDE DEF At0
  <2>2. o = x /\ At0(o, k) = At0(x, l)
    BY <1>7, <1>9, <2>1
  <2>3. CASE o = q
    <3>1. k \in Int /\ l \in Int /\ n + k = n + l
      BY <1>2, <2>2, <2>3 DEF At0
    <3> QED BY <1>1, <2>2, <3>1
  <2>4. CASE o # q
    BY <2>2, <2>4 DEF At0
  <2> QED BY <2>3, <2>4
<1>10. ASSUME NEW b \in Block, NEW i \in DOMAIN s2, NEW j \in DOMAIN s2,
              Holds(s2, u, b, i), Holds(s2, u, b, j)
       PROVE  i = j
  <2>1. i \in DOMAIN s /\ j \in DOMAIN s
    BY DEF Fills
  <2>2. (Holds(s, u, b, i) \/ Taken(b, i)) /\ (Holds(s, u, b, j) \/ Taken(b, j))
    BY <1>4, <1>10
  <2>3. CASE First(b)
    <3>1. ~Holds(s, u, b, i) /\ ~Holds(s, u, b, j)
      BY <1>8, <2>1, <2>3 DEF IsHeld
    <3>2. Taken(b, i) /\ Taken(b, j)
      BY <2>2, <3>1
    <3>3. Rank(s, i) = Rank(s, j)
      <4>1. \A k \in 1 .. n : k \in DOMAIN Q[q] /\ p[k] = Q[q][k]
        BY <1>1 DEF p
      <4> QED BY <1>7, <3>2, <4>1
    <3> QED BY <3>2, <3>3 DEF Fills
  <2>4. CASE ~First(b)
    <3>1. ~Taken(b, i) /\ ~Taken(b, j)
      BY <2>4
    <3> QED BY <2>1, <2>2, <3>1 DEF WaitsOnce
  <2> QED BY <2>3, <2>4
<1> HIDE DEF First, Taken
<1>11. ASSUME NEW b \in Block
       PROVE  /\ b \in A <=> IsQueued(Q2, b) \/ IsHeld(s2, u, b) \/ IsReturned(r, b)
              /\ ~(IsQueued(Q2, b) /\ IsHeld(s2, u, b))
              /\ ~(IsQueued(Q2, b) /\ IsReturned(r, b))
              /\ ~(IsHeld(s2, u, b) /\ IsReturned(r, b))
              /\ \A i, j \in DOMAIN r : r[i] = b /\ r[j] = b => i = j
  <2>1. CASE First(b)
    BY <1>5, <1>6, <1>8, <2>1 DEF WaitsOnce
  <2>2. CASE ~First(b)
    BY <1>5, <1>6, <2>2 DEF WaitsOnce
  <2> QED BY <2>1, <2>2
<1> QED BY <1>9, <1>10, <1>11 DEF WaitsOnce

(* Nobody waits for the writes that move to WQ. *)
LEMMA WritesMoved ==
  ASSUME NEW Q \in UpperQueues, NEW n \in 0 .. Len(Q["WQ"]), NEW Q2,
         Q2["WQ"] = Drop(Q["WQ"], n), \A p \in Queue : p # "WQ" => Q2[p] = Q[p],
         WritesPosted(Q), NEW s, NEW u, NEW A, NEW r, WaitsOnce(A, Q, s, r, u)
  PROVE  WritesPosted(Q2) /\ WaitsOnce(A, Q2, s, r, u)
<1>1. "WQ" \in Queue /\ Q["WQ"] \in Seq(Request)
  BY DEF UpperQueues, Queue
<1>2. \A k \in DOMAIN Drop(Q["WQ"], n) :
        n + k \in DOMAIN Q["WQ"] /\ Drop(Q["WQ"], n)[k] = Q["WQ"][n + k]
  BY <1>1, Dropped
<1>3. WritesPosted(Q2)
  BY <1>2 DEF WritesPosted
<1>4. \A b : /\ \A k \in DOMAIN Q["WQ"] : ~Awaits(Q["WQ"][k], b)
             /\ \A k \in DOMAIN Q2["WQ"] : ~Awaits(Q2["WQ"][k], b)
  BY <1>3 DEF WritesPosted, Awaits
<1>5. \A p \in Queue : \A b, k : k \in DOMAIN Q2[p] /\ Awaits(Q2[p][k], b)
                               <=> k \in DOMAIN Q[p] /\ Awaits(Q[p][k], b)
  BY <1>4
<1>6. \A b : IsQueued(Q2, b) <=> IsQueued(Q, b)
  BY <1>5 DEF IsQueued
<1>7. ASSUME NEW b \in Block, NEW p \in Queue, NEW q \in Queue,
             NEW i \in DOMAIN Q2[p], NEW j \in DOMAIN Q2[q], Awaits(Q2[p][i], b), Awaits(Q2[q][j], b)
      PROVE  p = q /\ i = j
  <2>1. i \in DOMAIN Q[p] /\ Awaits(Q[p][i], b) /\ j \in DOMAIN Q[q] /\ Awaits(Q[q][j], b)
    BY <1>5, <1>7
  <2> QED BY <2>1 DEF WaitsOnce
<1>8. WaitsOnce(A, Q2, s, r, u)
  BY <1>6, <1>7 DEF WaitsOnce
<1> QED BY <1>3, <1>8

(* The other channels have nothing to do with it. *)
LEMMA OthersWait ==
  ASSUME NEW s, NEW s2, NEW u \in Upper, NEW v \in Upper, u # v, NEW p \in Seq(Request),
         NEW n \in 0 .. Len(p), Fills(s, s2, u, "RQ", p, n),
         NEW A, NEW Q, NEW r, WaitsOnce(A, Q, s, r, v)
  PROVE  WaitsOnce(A, Q, s2, r, v)
<1>1. ASSUME NEW b, NEW i PROVE Holds(s2, v, b, i) <=> Holds(s, v, b, i)
  <2>1. CASE i \in Used(s)
    BY <2>1 DEF Holds, Used, Fills
  <2>2. CASE i \in Free(s)
    <3>1. ~Holds(s, v, b, i) /\ i \in DOMAIN s /\ ~s[i].used
      BY <2>2 DEF Free, Holds, Used
    <3>2. CASE s2[i] = s[i]
      BY <3>1, <3>2 DEF Holds, Used
    <3>3. CASE \E k \in 1 .. n : s2[i] = Entry(u, "RQ", p[k])
      <4>1. PICK k \in 1 .. n : s2[i] = Entry(u, "RQ", p[k])
        BY <3>3
      <4>2. p[k] \in Request
        OBVIOUS
      <4>3. v \notin s2[i].to_return
        <5> DEFINE e == Entry(u, "RQ", p[k])
        <5>1. v \in e.to_return <=> p[k].response_requested /\ v = u
          BY <4>2, ReadEntry
        <5> HIDE DEF e
        <5>2. s2[i] = e
          BY <4>1 DEF e
        <5> QED BY <5>1, <5>2
      <4> QED BY <3>1, <4>3 DEF Holds
    <3> QED BY <2>2, <3>2, <3>3 DEF Fills
  <2>3. CASE i \notin DOMAIN s
    BY <2>3 DEF Holds, Used, Fills
  <2> QED BY <2>1, <2>2, <2>3 DEF Free
<1>2. DOMAIN s2 = DOMAIN s
  BY DEF Fills
<1>3. \A b : IsHeld(s2, v, b) <=> IsHeld(s, v, b)
  BY <1>1, <1>2 DEF IsHeld
<1> QED BY <1>1, <1>2, <1>3 DEF WaitsOnce

--------------------------------------------------------------------------------
(* The steps *)

LEMMA Parts ==
  ASSUME TypeInv
  PROVE  /\ upper_queue \in [Upper -> UpperQueues] /\ \A u \in Upper : upper_queue[u] \in UpperQueues
         /\ asked \in [Upper -> SUBSET Block] /\ \A u \in Upper : asked[u] \in SUBSET Block
         /\ returned \in [Upper -> Seq(Block)] /\ \A u \in Upper : returned[u] \in Seq(Block)
         /\ chan \in Channel /\ chan.RQ \in Slots(RQ_SIZE)
         /\ chan["RQ"] = chan.RQ /\ chan["WQ"] = chan.WQ
         /\ todo \subseteq Upper
  BY ChannelFacts DEF TypeInv

LEMMA InitDram == Init => DramInv
<1> SUFFICES ASSUME Init PROVE DramInv
  OBVIOUS
<1>1. \A n \in Nat : /\ Empty(n) \in Slots(n) /\ DOMAIN Empty(n) = 1 .. n
                     /\ \A i \in 1 .. n : ~Empty(n)[i].used
  BY EmptySlot DEF Empty, Slots
<1>2. IdleBank \in BankRequest /\ ~IdleBank.valid
  <2>1. \A z \in Nat, p \in Place :
          LET b == [valid |-> FALSE, need_refresh |-> FALSE, under_refresh |-> FALSE,
                    open_row |-> z, wait |-> z, pkt |-> p]
          IN  b \in BankRequest /\ ~b.valid
    BY DEF BankRequest
  <2>2. 0 \in Nat /\ <<>> \in Place
    BY DEF Place
  <2> QED BY <2>1, <2>2 DEF IdleBank
<1>3. /\ chan.RQ = Empty(RQ_SIZE) /\ chan.WQ = Empty(WQ_SIZE)
      /\ chan.bank = [k \in Bank |-> IdleBank] /\ chan.active = NoBank /\ chan \in Channel
  <2> DEFINE R == Empty(RQ_SIZE)
             W == Empty(WQ_SIZE)
             B == [k \in Bank |-> IdleBank]
             G == [g \in Group |-> 0]
  <2>1. R \in Slots(RQ_SIZE) /\ W \in Slots(WQ_SIZE) /\ B \in [Bank -> BankRequest]
        /\ G \in [Group -> Int] /\ 0 \in Int /\ tREF \in Int
    BY <1>1, <1>2, Sizes
  <2>2. chan = [RQ |-> R, WQ |-> W, bank |-> B, active |-> NoBank, write_mode |-> FALSE,
                dbus_wait |-> 0, group_wait |-> G, refresh_wait |-> tREF]
    BY DEF Init
  <2> HIDE DEF R, W, B, G
  <2>3. \A z \in Int :
          [RQ |-> R, WQ |-> W, bank |-> B, active |-> NoBank, write_mode |-> FALSE,
           dbus_wait |-> z, group_wait |-> G, refresh_wait |-> tREF] \in Channel
    BY <2>1 DEF Channel
  <2>4. chan \in Channel
    BY <2>1, <2>2, <2>3
  <2>5. chan.RQ = R /\ chan.WQ = W /\ chan.bank = B /\ chan.active = NoBank
    BY <2>2
  <2> QED BY <2>4, <2>5 DEF R, W, B
<1>4. TypeInv
  <2>1. [q \in Queue |-> <<>>] \in UpperQueues
    BY DEF UpperQueues
  <2> QED BY <1>3, <2>1 DEF TypeInv, Init
<1>5. \A q \in OwnQueue : \A i \in DOMAIN chan[q] : ~chan[q][i].used
  <2>1. chan["RQ"] = Empty(RQ_SIZE) /\ chan["WQ"] = Empty(WQ_SIZE)
    BY <1>3, <1>4, Parts
  <2>2. /\ \A i \in DOMAIN Empty(RQ_SIZE) : ~Empty(RQ_SIZE)[i].used
        /\ \A i \in DOMAIN Empty(WQ_SIZE) : ~Empty(WQ_SIZE)[i].used
    BY <1>1, Sizes
  <2> QED BY <2>1, <2>2 DEF OwnQueue
<1>6. \A i : i \notin Used(chan.RQ) /\ i \notin Used(chan.WQ)
  BY <1>4, <1>5, Parts DEF Used, OwnQueue
<1>7. Match(chan) /\ Idle(chan)
  BY <1>2, <1>3, <1>5, <1>6 DEF Match, Idle, Busy
<1>8. BankInv
  BY <1>7 DEF BankInv, Init
<1>9. ASSUME NEW u \in Upper
      PROVE  /\ WritesPosted(upper_queue[u])
             /\ WaitsOnce(asked[u], upper_queue[u], chan.RQ, returned[u], u)
  <2>1. asked[u] = {} /\ returned[u] = <<>> /\ upper_queue[u] = [q \in Queue |-> <<>>]
    BY DEF Init
  <2>2. \A b, i : ~Holds(chan.RQ, u, b, i)
    BY <1>6 DEF Holds
  <2>3. \A b : ~IsHeld(chan.RQ, u, b)
    BY <2>2 DEF IsHeld
  <2>4. DOMAIN returned[u] = {} /\ \A q \in Queue : DOMAIN upper_queue[u][q] = {}
    BY <2>1
  <2>5. \A b : ~IsReturned(returned[u], b) /\ ~IsQueued(upper_queue[u], b)
    BY <2>4 DEF IsReturned, IsQueued
  <2>6. WaitsOnce(asked[u], upper_queue[u], chan.RQ, returned[u], u)
    BY <2>1, <2>2, <2>3, <2>4, <2>5 DEF WaitsOnce
  <2>7. WritesPosted(upper_queue[u])
    BY <2>4 DEF WritesPosted, Queue
  <2> QED BY <2>6, <2>7
<1> QED BY <1>4, <1>8, <1>9 DEF DramInv, WaitInv

LEMMA UpperRequestKeeps ==
  ASSUME DramInv, NEW u \in Upper, NEW kind \in RequestKinds, NEW b \in Block,
         UpperRequest(u, kind, b)
  PROVE  DramInv'
<1> DEFINE q == kind.queue
           req == [addr |-> b, response_requested |-> kind.response_requested]
           Q == upper_queue[u]
           Q2 == [Q EXCEPT ![q] = Append(@, req)]
           A2 == IF req.response_requested THEN asked[u] \cup {req.addr} ELSE asked[u]
<1>1. /\ q \in Queue /\ req \in Request /\ req.addr = b
      /\ req.response_requested = kind.response_requested
      /\ q = "WQ" => ~req.response_requested
  BY DramAssumption DEF DramAssumption, Request
<1>2. TypeInv /\ BankInv /\ WaitInv
  BY DEF DramInv
<1>3. /\ Q \in UpperQueues /\ asked[u] \in SUBSET Block
      /\ WaitsOnce(asked[u], Q, chan.RQ, returned[u], u) /\ WritesPosted(Q)
  BY <1>2, Parts DEF WaitInv
<1>4. /\ upper_queue' = [upper_queue EXCEPT ![u] = Q2]
      /\ asked' = [asked EXCEPT ![u] = A2]
      /\ req.response_requested => req.addr \notin asked[u]
      /\ UNCHANGED <<returned, chan, warmup, stage, todo>>
  <2>1. upper_queue' = [upper_queue EXCEPT ![u] = Q2]
    <3>1. upper_queue' = [upper_queue EXCEPT ![u][kind.queue] =
       Append(@, [addr |-> b, response_requested |-> kind.response_requested])]
      BY DEF UpperRequest
    <3> QED BY <3>1
  <2>2. asked' = [asked EXCEPT ![u] = A2]
    <3>1. CASE kind.response_requested
      BY <3>1 DEF UpperRequest
    <3>2. CASE ~kind.response_requested
      BY <1>2, <3>2, Parts DEF UpperRequest
    <3> QED BY <3>1, <3>2
  <2> QED BY <1>1, <2>1, <2>2 DEF UpperRequest
<1> HIDE DEF q, req, Q, A2
<1>5. Q2 \in UpperQueues /\ WaitsOnce(A2, Q2, chan.RQ, returned[u], u)
  BY <1>1, <1>3, <1>4, AskWaits DEF A2
<1>6. A2 \in SUBSET Block
  BY <1>1, <1>3 DEF A2
<1>7. WritesPosted(Q2)
  <2>1. CASE q # "WQ"
    BY <1>3, <2>1 DEF WritesPosted, UpperQueues, Queue
  <2>2. CASE q = "WQ"
    <3>1. Q["WQ"] \in Seq(Request) /\ Q2["WQ"] = Append(Q["WQ"], req)
      BY <1>1, <1>3, <2>2 DEF UpperQueues
    <3>2. \A k \in DOMAIN Append(Q["WQ"], req) :
            \/ k \in DOMAIN Q["WQ"] /\ Append(Q["WQ"], req)[k] = Q["WQ"][k]
            \/ Append(Q["WQ"], req)[k] = req
      BY <1>1, <3>1
    <3> QED BY <1>1, <1>3, <2>2, <3>1, <3>2 DEF WritesPosted
  <2> QED BY <2>1, <2>2
<1> HIDE DEF Q2
<1>8. TypeInv'
  BY <1>2, <1>4, <1>5, <1>6 DEF TypeInv
<1>9. BankInv'
  BY <1>2, <1>4 DEF BankInv
<1>10. ASSUME NEW v \in Upper
       PROVE  /\ WritesPosted(upper_queue'[v])
              /\ WaitsOnce(asked'[v], upper_queue'[v], chan.RQ, returned[v], v)
  <2>1. CASE v = u
    BY <1>2, <1>4, <1>5, <1>7, <2>1, Parts
  <2>2. CASE v # u
    BY <1>2, <1>4, <2>2, Parts DEF WaitInv
  <2> QED BY <2>1, <2>2
<1>11. WaitInv'
  BY <1>4, <1>10 DEF WaitInv
<1> QED BY <1>8, <1>9, <1>11 DEF DramInv

LEMMA UpperFinishPacketKeeps ==
  ASSUME DramInv, NEW u \in Upper, UpperFinishPacket(u)
  PROVE  DramInv'
<1>1. TypeInv /\ BankInv /\ WaitInv
  BY DEF DramInv
<1>2. /\ returned[u] # <<>> /\ returned[u] \in Seq(Block)
      /\ asked' = [asked EXCEPT ![u] = asked[u] \ {Head(returned[u])}]
      /\ returned' = [returned EXCEPT ![u] = Tail(returned[u])]
      /\ UNCHANGED <<upper_queue, chan, warmup, stage, todo>>
  BY <1>1, Parts DEF UpperFinishPacket
<1>3. /\ Tail(returned[u]) \in Seq(Block)
      /\ WaitsOnce(asked[u] \ {Head(returned[u])}, upper_queue[u], chan.RQ, Tail(returned[u]), u)
  BY <1>1, <1>2, ReadWaits DEF WaitInv
<1>4. TypeInv'
  BY <1>1, <1>2, <1>3 DEF TypeInv
<1>5. BankInv'
  BY <1>1, <1>2 DEF BankInv
<1>6. ASSUME NEW v \in Upper
      PROVE  WaitsOnce(asked'[v], upper_queue[v], chan.RQ, returned'[v], v)
  <2>1. CASE v = u
    BY <1>1, <1>2, <1>3, <2>1, Parts
  <2>2. CASE v # u
    BY <1>1, <1>2, <2>2, Parts DEF WaitInv
  <2> QED BY <2>1, <2>2
<1>7. WaitInv'
  BY <1>1, <1>2, <1>6 DEF WaitInv
<1> QED BY <1>4, <1>5, <1>7 DEF DramInv

LEMMA BeginPhaseKeeps ==
  ASSUME DramInv, BeginPhase
  PROVE  DramInv'
<1>1. TypeInv' /\ WaitInv'
  BY DEF DramInv, TypeInv, WaitInv, BeginPhase, upper
<1>2. BankInv'
  BY DEF DramInv, BankInv, BeginPhase
<1> QED BY <1>1, <1>2 DEF DramInv

(* A step that changes only what chan does with the reads it holds. *)
LEMMA SameReadsKeep ==
  ASSUME TypeInv, WaitInv, UNCHANGED <<upper_queue, asked, returned>>,
         chan' \in Channel, SameReads(chan.RQ, chan'.RQ), todo' \subseteq Upper
  PROVE  TypeInv' /\ WaitInv'
<1>1. \A u \in Upper : /\ WritesPosted(upper_queue[u])
                       /\ WaitsOnce(asked[u], upper_queue[u], chan'.RQ, returned[u], u)
  BY SameReadsWait DEF WaitInv
<1>2. WaitInv'
  BY <1>1 DEF WaitInv
<1> QED BY <1>2 DEF TypeInv

LEMMA BeginCycleKeeps ==
  ASSUME DramInv, BeginCycle
  PROVE  DramInv'
<1>1. TypeInv /\ BankInv /\ WaitInv /\ chan \in Channel /\ Match(chan)
  BY Parts DEF DramInv, BankInv
<1>2. chan' = Tick(chan) /\ stage' = "initiate" /\ todo' = Upper
      /\ UNCHANGED <<upper_queue, asked, returned, warmup>>
  BY DEF BeginCycle, upper
<1>3. chan' \in Channel /\ Match(chan') /\ (Idle(chan) => Idle(chan'))
      /\ SameReads(chan.RQ, chan'.RQ)
  BY <1>1, <1>2, TickKeeps, SameReadsFacts
<1>4. TypeInv' /\ WaitInv'
  BY <1>1, <1>2, <1>3, SameReadsKeep
<1>5. BankInv'
  <2>1. (warmup => Idle(chan)) /\ warmup' = warmup /\ stage' # "collisions"
    BY <1>1, <1>2 DEF BankInv
  <2> QED BY <1>3, <2>1 DEF BankInv
<1> QED BY <1>4, <1>5 DEF DramInv

LEMMA BeginOperateKeeps ==
  ASSUME DramInv, BeginOperate
  PROVE  DramInv'
<1> DEFINE c == IF warmup THEN [chan EXCEPT !.WQ = Empty(WQ_SIZE)] ELSE chan
<1>1. TypeInv /\ BankInv /\ WaitInv /\ chan \in Channel /\ Match(chan) /\ (warmup => Idle(chan))
  BY Parts DEF DramInv, BankInv
<1>2. chan' = check_write_collision(c) /\ UNCHANGED <<upper_queue, asked, returned, warmup, todo>>
  BY DEF BeginOperate, upper
<1>3. /\ c \in Channel /\ c.RQ = chan.RQ /\ Match(c)
      /\ warmup => Idle(c) /\ Used(c.WQ) = {}
  <2>1. CASE warmup
    BY <1>1, <2>1, EmptyKeeps
  <2>2. CASE ~warmup
    BY <1>1, <2>2
  <2> QED BY <2>1, <2>2
<1> HIDE DEF c
<1>4. /\ chan' \in Channel /\ chan'.RQ = chan.RQ /\ Match(chan')
      /\ Unchecked(chan'.WQ) = {} /\ (warmup => Idle(chan') /\ Used(chan'.WQ) = {})
  BY <1>2, <1>3, CheckWritesKeeps
<1>5. TypeInv' /\ WaitInv'
  <2>1. todo' \subseteq Upper /\ SameReads(chan.RQ, chan'.RQ)
    BY <1>1, <1>2, <1>4, SameReadsFacts, Parts
  <2> QED BY <1>1, <1>2, <1>4, <2>1, SameReadsKeep
<1>6. BankInv'
  BY <1>2, <1>4 DEF BankInv
<1> QED BY <1>5, <1>6 DEF DramInv

(* While initiate_requests works on channel u: s is <<the queues of u, chan>>. *)
Initiating(s, u) ==
  /\ s = <<s[1], s[2]>> /\ s[1] \in UpperQueues /\ s[2] \in Channel
  /\ Match(s[2]) /\ (warmup => Idle(s[2]))
  /\ WritesPosted(s[1])
  /\ WaitsOnce(asked[u], s[1], s[2].RQ, returned[u], u)
  /\ \A v \in Upper : v # u => WaitsOnce(asked[v], upper_queue[v], s[2].RQ, returned[v], v)

LEMMA InitiateKeeps ==
  ASSUME NEW u \in Upper, NEW s, Initiating(s, u), NEW q \in Queue
  PROVE  Initiating(Initiate(s, u, q), u)
<1> DEFINE Q == s[1]
           c == s[2]
           t == Initiate(<<Q, c>>, u, q)
           Q2 == t[1]
           c2 == t[2]
<1>1. /\ s = <<Q, c>> /\ Q \in UpperQueues /\ c \in Channel /\ Match(c) /\ WritesPosted(Q)
      /\ WaitsOnce(asked[u], Q, c.RQ, returned[u], u)
  BY DEF Initiating
<1>2. t = <<Q2, c2>>
  <2>1. \E x, y : t = <<x, y>>
    BY DEF Initiate
  <2> HIDE DEF t
  <2> QED BY <2>1
<1> HIDE DEF Q, c
<1>3. /\ Q2 \in UpperQueues /\ c2 \in Channel
      /\ Match(c2) /\ (Idle(c) => Idle(c2))
      /\ \A p \in Queue : p # q => Q2[p] = Q[p]
      /\ \E n \in 0 .. Len(Q[q]) : /\ Q2[q] = Drop(Q[q], n)
                                   /\ q = "WQ" => c2.RQ = c.RQ
                                   /\ q # "WQ" => Fills(c.RQ, c2.RQ, u, "RQ", Q[q], n)
  BY <1>1, InitiateFacts
<1> HIDE DEF t, Q2, c2
<1>4. PICK n \in 0 .. Len(Q[q]) : /\ Q2[q] = Drop(Q[q], n)
                                  /\ q = "WQ" => c2.RQ = c.RQ
                                  /\ q # "WQ" => Fills(c.RQ, c2.RQ, u, "RQ", Q[q], n)
  BY <1>3
<1>5. (warmup => Idle(c2))
  BY <1>3 DEF Initiating, c
<1>6. \A v \in Upper : v # u => WaitsOnce(asked[v], upper_queue[v], c.RQ, returned[v], v)
  BY DEF Initiating, c
<1>7. CASE q = "WQ"
  <2>1. WritesPosted(Q2) /\ WaitsOnce(asked[u], Q2, c.RQ, returned[u], u)
    BY <1>1, <1>3, <1>4, <1>7, WritesMoved
  <2>2. Initiating(<<Q2, c2>>, u)
    BY <1>3, <1>4, <1>5, <1>6, <1>7, <2>1 DEF Initiating
  <2> QED BY <1>1, <1>2, <2>2 DEF t
<1>8. CASE q # "WQ"
  <2>1. Fills(c.RQ, c2.RQ, u, "RQ", Q[q], n)
    BY <1>4, <1>8
  <2>2. c.RQ \in Slots(RQ_SIZE) /\ RQ_SIZE \in Nat /\ Q[q] \in Seq(Request)
    BY <1>1, ChannelFacts, Sizes DEF UpperQueues
  <2>3. WaitsOnce(asked[u], Q2, c2.RQ, returned[u], u)
    BY <1>1, <1>3, <1>4, <2>1, <2>2, MovedWaits
  <2>4. \A v \in Upper : v # u => WaitsOnce(asked[v], upper_queue[v], c2.RQ, returned[v], v)
    BY <1>6, <2>1, <2>2, OthersWait
  <2>5. WritesPosted(Q2)
    BY <1>1, <1>3, <1>8 DEF WritesPosted, Queue
  <2>6. Initiating(<<Q2, c2>>, u)
    BY <1>3, <1>5, <2>3, <2>4, <2>5 DEF Initiating
  <2> QED BY <1>1, <1>2, <2>6 DEF t
<1> QED BY <1>7, <1>8

LEMMA InitiateRequestsKeeps ==
  ASSUME DramInv, NEW u \in Upper, InitiateRequests(u)
  PROVE  DramInv'
<1> DEFINE s == Initiate(Initiate(Initiate(<<upper_queue[u], chan>>, u, "RQ"), u, "PQ"), u, "WQ")
<1>1. TypeInv /\ BankInv /\ WaitInv
  BY DEF DramInv
<1>2. /\ upper_queue' = [upper_queue EXCEPT ![u] = s[1]] /\ chan' = s[2]
      /\ todo' = todo \ {u} /\ stage = "initiate"
      /\ UNCHANGED <<asked, returned, warmup, stage>>
  BY DEF InitiateRequests
<1>3. Initiating(<<upper_queue[u], chan>>, u)
  BY <1>1, Parts DEF Initiating, BankInv, WaitInv
<1>4. "RQ" \in Queue /\ "PQ" \in Queue /\ "WQ" \in Queue
  BY DEF Queue
<1>5. Initiating(s, u)
  <2>1. Initiating(Initiate(<<upper_queue[u], chan>>, u, "RQ"), u)
    BY <1>3, <1>4, InitiateKeeps
  <2>2. Initiating(Initiate(Initiate(<<upper_queue[u], chan>>, u, "RQ"), u, "PQ"), u)
    BY <1>4, <2>1, InitiateKeeps
  <2> QED BY <1>4, <2>2, InitiateKeeps
<1> HIDE DEF s
<1>6. TypeInv'
  BY <1>1, <1>2, <1>5 DEF TypeInv, Initiating
<1>7. BankInv'
  BY <1>2, <1>5 DEF BankInv, Initiating
<1>8. ASSUME NEW v \in Upper
      PROVE  /\ WritesPosted(upper_queue'[v])
             /\ WaitsOnce(asked[v], upper_queue'[v], chan'.RQ, returned[v], v)
  <2>1. CASE v = u
    <3>1. upper_queue'[v] = s[1]
      BY <1>1, <1>2, <2>1, Parts
    <3> QED BY <1>2, <1>5, <2>1, <3>1 DEF Initiating
  <2>2. CASE v # u
    <3>1. upper_queue'[v] = upper_queue[v]
      BY <1>1, <1>2, <2>2, Parts
    <3> QED BY <1>1, <1>2, <1>5, <2>2, <3>1 DEF Initiating, WaitInv
  <2> QED BY <2>1, <2>2
<1>9. WaitInv'
  BY <1>2, <1>8 DEF WaitInv
<1> QED BY <1>6, <1>7, <1>9 DEF DramInv

(* An entry of RQ is answered. *)
LEMMA AnsweredKeeps ==
  ASSUME TypeInv, WaitInv, NEW i \in Used(chan.RQ),
         Respond(chan.RQ[i].to_return, chan.RQ[i].addr),
         UNCHANGED <<upper_queue, asked>>, chan' \in Channel, todo' \subseteq Upper,
         SameReads([chan.RQ EXCEPT ![i] = NoEntry], chan'.RQ)
  PROVE  TypeInv' /\ WaitInv'
<1> DEFINE t == [chan.RQ EXCEPT ![i] = NoEntry]
<1>1. ASSUME NEW u \in Upper
      PROVE  /\ returned'[u] \in Seq(Block)
             /\ WaitsOnce(asked[u], upper_queue[u], chan'.RQ, returned'[u], u)
  <2> DEFINE r2 == IF u \in chan.RQ[i].to_return THEN Append(returned[u], chan.RQ[i].addr)
                                                 ELSE returned[u]
  <2>1. returned'[u] = r2
    BY DEF Respond
  <2>2. /\ chan.RQ \in Slots(RQ_SIZE) /\ RQ_SIZE \in Nat /\ asked[u] \in SUBSET Block
        /\ returned[u] \in Seq(Block)
        /\ WaitsOnce(asked[u], upper_queue[u], chan.RQ, returned[u], u)
    BY Parts, Sizes DEF WaitInv
  <2>3. r2 \in Seq(Block) /\ WaitsOnce(asked[u], upper_queue[u], t, r2, u)
    BY <2>2, ReleaseWaits
  <2> HIDE DEF r2, t
  <2>4. SameReads(t, chan'.RQ)
    BY DEF t
  <2>5. WaitsOnce(asked[u], upper_queue[u], chan'.RQ, r2, u)
    BY <2>3, <2>4, SameReadsWait
  <2> QED BY <2>1, <2>3, <2>5
<1>2. returned' \in [Upper -> Seq(Block)]
  BY <1>1 DEF Respond
<1>3. WaitInv'
  BY <1>1 DEF WaitInv
<1> QED BY <1>2, <1>3 DEF TypeInv

(* Entry i of RQ goes: the read under examination, or any in warmup. *)
LEMMA RemovedRead ==
  ASSUME TypeInv, BankInv, stage = "collisions", NEW i \in Used(chan.RQ),
         i \in Unchecked(chan.RQ) \/ warmup,
         chan' = [chan EXCEPT !.RQ = [chan.RQ EXCEPT ![i] = NoEntry]], UNCHANGED <<warmup, stage>>
  PROVE  BankInv' /\ chan' \in Channel /\ chan'.RQ = [chan.RQ EXCEPT ![i] = NoEntry]
<1>1. chan \in Channel /\ Match(chan) /\ i \in DOMAIN chan.RQ /\ chan["RQ"] = chan.RQ
  BY Parts DEF BankInv, Used
<1>2. ~(chan.RQ[i].used /\ chan.RQ[i].scheduled)
  <2>1. CASE i \in Unchecked(chan.RQ)
    BY <1>1, <2>1 DEF Unchecked, Match, Busy, OwnQueue
  <2>2. CASE warmup
    BY <1>1, <2>2 DEF BankInv, Idle, Busy, OwnQueue
  <2> QED BY <2>1, <2>2
<1>3. SameToBank(chan.RQ[i], NoEntry)
  BY <1>2, EmptySlot DEF SameToBank
<1>4. /\ chan' \in Channel /\ chan'.RQ = [chan.RQ EXCEPT ![i] = NoEntry] /\ chan'.WQ = chan.WQ
      /\ Match(chan') /\ (Idle(chan) => Idle(chan'))
  BY <1>1, <1>3, ReadSlotKeeps
<1>5. BankInv'
  BY <1>4 DEF BankInv
<1> QED BY <1>4, <1>5

LEMMA SomeSlots ==
  ASSUME NEW n \in Nat, NEW S \in SUBSET (1 .. n)
  PROVE  IsFiniteSet(S) /\ S \in SUBSET Int
<1>1. IsFiniteSet(1 .. n)
  BY FS_Interval
<1>2. IsFiniteSet(S)
  BY <1>1, FS_Subset
<1> QED BY <1>2

LEMMA WarmupAnswerKeeps ==
  ASSUME DramInv, WarmupAnswer
  PROVE  DramInv'
<1> DEFINE i == Least(Used(chan.RQ))
<1>1. TypeInv /\ BankInv /\ WaitInv
  BY DEF DramInv
<1>2. i \in Used(chan.RQ)
  <2>1. Used(chan.RQ) \in SUBSET (1 .. RQ_SIZE) /\ Used(chan.RQ) # {}
    BY <1>1, Parts, Sizes, SlotFacts DEF WarmupAnswer
  <2>2. Used(chan.RQ) \in SUBSET Int /\ IsFiniteSet(Used(chan.RQ))
    BY <2>1, SomeSlots, Sizes
  <2> QED BY <2>1, <2>2, LeastMember
<1>3. /\ Respond(chan.RQ[i].to_return, chan.RQ[i].addr)
      /\ chan' = [chan EXCEPT !.RQ = [chan.RQ EXCEPT ![i] = NoEntry]]
      /\ UNCHANGED <<upper_queue, asked, warmup, stage, todo>>
      /\ stage = "collisions" /\ warmup
  BY DEF WarmupAnswer, upper
<1> HIDE DEF i
<1>4. BankInv' /\ chan' \in Channel /\ chan'.RQ = [chan.RQ EXCEPT ![i] = NoEntry]
  BY <1>1, <1>2, <1>3, RemovedRead
<1>5. TypeInv' /\ WaitInv'
  <2>1. SameReads([chan.RQ EXCEPT ![i] = NoEntry], chan'.RQ) /\ todo' \subseteq Upper
    BY <1>1, <1>3, <1>4, SameReadsFacts, Parts
  <2> QED BY <1>1, <1>2, <1>3, <1>4, <2>1, AnsweredKeeps
<1> QED BY <1>4, <1>5 DEF DramInv

LEMMA NewReadFacts ==
  ASSUME TypeInv, NEW i, NewRead(i)
  PROVE  i \in Unchecked(chan.RQ) /\ i \in Used(chan.RQ) /\ i \in DOMAIN chan.RQ
         /\ chan.RQ[i] \in Packet /\ stage = "collisions" /\ ~warmup
<1>1. Unchecked(chan.RQ) \in SUBSET (1 .. RQ_SIZE) /\ Unchecked(chan.RQ) # {}
  BY Parts, Sizes, SlotFacts DEF NewRead, Unchecked
<1>2. Unchecked(chan.RQ) \in SUBSET Int /\ IsFiniteSet(Unchecked(chan.RQ))
  BY <1>1, SomeSlots, Sizes
<1>3. i \in Unchecked(chan.RQ)
  BY <1>1, <1>2, LeastMember DEF NewRead
<1>4. i \in Used(chan.RQ) /\ i \in DOMAIN chan.RQ
  BY <1>3 DEF Unchecked, Used
<1>5. chan.RQ[i] \in Packet
  BY <1>4, Parts, Sizes, SlotFacts
<1> QED BY <1>3, <1>4, <1>5 DEF NewRead

LEMMA ForwardWriteKeeps ==
  ASSUME DramInv, NEW i, ForwardWrite(i)
  PROVE  DramInv'
<1>1. TypeInv /\ BankInv /\ WaitInv
  BY DEF DramInv
<1>2. NewRead(i) /\ i \in Unchecked(chan.RQ) /\ i \in Used(chan.RQ) /\ stage = "collisions"
  BY <1>1, NewReadFacts DEF ForwardWrite
<1>3. /\ Respond(chan.RQ[i].to_return, chan.RQ[i].addr)
      /\ chan' = [chan EXCEPT !.RQ = [chan.RQ EXCEPT ![i] = NoEntry]]
      /\ UNCHANGED <<upper_queue, asked, warmup, stage, todo>>
  BY DEF ForwardWrite, upper
<1>4. BankInv' /\ chan' \in Channel /\ chan'.RQ = [chan.RQ EXCEPT ![i] = NoEntry]
  BY <1>1, <1>2, <1>3, RemovedRead
<1>5. TypeInv' /\ WaitInv'
  <2>1. SameReads([chan.RQ EXCEPT ![i] = NoEntry], chan'.RQ) /\ todo' \subseteq Upper
    BY <1>1, <1>3, <1>4, SameReadsFacts, Parts
  <2> QED BY <1>1, <1>2, <1>3, <1>4, <2>1, AnsweredKeeps
<1> QED BY <1>4, <1>5 DEF DramInv

LEMMA MergeTargetFacts ==
  ASSUME TypeInv, NEW i \in Used(chan.RQ), Reads(chan.RQ[i].addr) # {i}
  PROVE  LET j == MergeTarget(i)
         IN  j \in Used(chan.RQ) /\ j # i /\ chan.RQ[j].addr = chan.RQ[i].addr
<1> DEFINE R == Reads(chan.RQ[i].addr)
           others == R \ {i}
           S == IF \E j \in others : j < i THEN {j \in others : j < i} ELSE others
<1>1. i \in R /\ R \in SUBSET (1 .. RQ_SIZE)
  <2>1. Used(chan.RQ) \subseteq 1 .. RQ_SIZE
    BY Parts, Sizes, SlotFacts
  <2> QED BY <2>1 DEF Reads
<1>2. others # {} /\ S # {} /\ S \subseteq others
  BY <1>1
<1>3. S \in SUBSET (1 .. RQ_SIZE)
  BY <1>1, <1>2
<1>4. MergeTarget(i) = Least(S)
  BY DEF MergeTarget
<1>5. Least(S) \in S
  <2> HIDE DEF S
  <2>1. IsFiniteSet(S) /\ S \in SUBSET Int
    BY <1>3, SomeSlots, Sizes
  <2> QED BY <1>2, <2>1, LeastMember
<1> QED BY <1>2, <1>4, <1>5 DEF Reads

LEMMA MergeReadKeeps ==
  ASSUME DramInv, NEW i, MergeRead(i)
  PROVE  DramInv'
<1> DEFINE j == MergeTarget(i)
           f == [chan.RQ[j] EXCEPT !.to_return = @ \cup chan.RQ[i].to_return]
           R == [chan.RQ EXCEPT ![j] = f]
           c == [chan EXCEPT !.RQ = R]
           t == [R EXCEPT ![i] = NoEntry]
<1>1. TypeInv /\ BankInv /\ WaitInv /\ chan \in Channel /\ Match(chan)
  BY Parts DEF DramInv, BankInv
<1>2. /\ i \in Unchecked(chan.RQ) /\ i \in Used(chan.RQ) /\ i \in DOMAIN chan.RQ
      /\ chan.RQ[i] \in Packet
  BY <1>1, NewReadFacts DEF MergeRead
<1>3. j \in Used(chan.RQ) /\ j # i /\ chan.RQ[j].addr = chan.RQ[i].addr
  BY <1>1, <1>2, MergeTargetFacts DEF MergeRead
<1>4. j \in DOMAIN chan.RQ /\ chan.RQ[j] \in Packet
  BY <1>1, <1>3, Parts, Sizes, SlotFacts DEF Used
<1>5. /\ f \in Packet /\ f.used /\ f.addr = chan.RQ[j].addr
      /\ f.to_return = chan.RQ[j].to_return \cup chan.RQ[i].to_return
      /\ SameToBank(chan.RQ[j], f)
  <2> DEFINE e == chan.RQ[j]
             T == chan.RQ[i].to_return
  <2>1. e \in Packet /\ T \subseteq Upper /\ e.to_return \subseteq Upper
    BY <1>2, <1>4, PacketFacts
  <2>2. f = [e EXCEPT !.to_return = e.to_return \cup T]
    OBVIOUS
  <2> HIDE DEF e, T, f
  <2>3. /\ f \in Packet /\ f.used = e.used /\ f.addr = e.addr /\ f.to_return = e.to_return \cup T
        /\ f.scheduled = e.scheduled /\ f.forward_checked = e.forward_checked
    BY <2>1, <2>2 DEF Packet
  <2>4. e.used = TRUE
    BY <2>1, PacketFacts
  <2> QED BY <2>3, <2>4 DEF e, T, SameToBank
<1>6. /\ chan' = [chan EXCEPT !.RQ = t]
      /\ UNCHANGED <<upper_queue, asked, returned, warmup, stage, todo>>
  <2>1. chan' = [chan EXCEPT !.RQ[j].to_return = @ \cup chan.RQ[i].to_return, !.RQ[i] = NoEntry]
    BY DEF MergeRead
  <2>2. chan' = [chan EXCEPT !.RQ = t]
    BY <2>1
  <2> QED BY <2>2 DEF MergeRead, upper
<1> HIDE DEF j, f
<1>7. c \in Channel /\ c.RQ = R /\ c.WQ = chan.WQ /\ Match(c) /\ (Idle(chan) => Idle(c))
  BY <1>1, <1>4, <1>5, ReadSlotKeeps
<1>8. R[i] = chan.RQ[i] /\ R[j] = f /\ DOMAIN R = DOMAIN chan.RQ
  BY <1>2, <1>3, <1>4
<1>9. ~(chan.RQ[i].used /\ chan.RQ[i].scheduled)
  BY <1>1, <1>2, Parts DEF Unchecked, Match, Busy, OwnQueue
<1>10. chan' = [c EXCEPT !.RQ = t]
  BY <1>6
<1>11. /\ chan' \in Channel /\ chan'.RQ = t /\ chan'.WQ = chan.WQ
       /\ Match(chan') /\ (Idle(chan) => Idle(chan'))
  <2> HIDE DEF c, R
  <2>1. SameToBank(c.RQ[i], NoEntry) /\ i \in DOMAIN c.RQ
    BY <1>2, <1>7, <1>8, <1>9, EmptySlot DEF SameToBank
  <2> QED BY <1>7, <1>10, <2>1, ReadSlotKeeps
<1>12. /\ DOMAIN t = DOMAIN chan.RQ /\ ~t[i].used /\ t[j] = f
       /\ \A k \in DOMAIN chan.RQ : k # i /\ k # j => t[k] = chan.RQ[k]
  BY <1>2, <1>3, <1>4, EmptySlot
<1> HIDE DEF t
<1>13. ASSUME NEW u \in Upper
       PROVE  /\ WritesPosted(upper_queue[u])
              /\ WaitsOnce(asked[u], upper_queue[u], chan'.RQ, returned[u], u)
  <2>1. WaitsOnce(asked[u], upper_queue[u], chan.RQ, returned[u], u)
    BY <1>1 DEF WaitInv
  <2>2. WaitsOnce(asked[u], upper_queue[u], t, returned[u], u)
    BY <1>2, <1>3, <1>5, <1>12, <2>1, MergeWaits
  <2> QED BY <1>1, <1>11, <2>2 DEF WaitInv
<1>14. WaitInv'
  BY <1>6, <1>13 DEF WaitInv
<1>15. TypeInv'
  BY <1>1, <1>6, <1>11 DEF TypeInv
<1>16. BankInv'
  BY <1>1, <1>6, <1>11 DEF BankInv
<1> QED BY <1>14, <1>15, <1>16 DEF DramInv

LEMMA NoCollisionKeeps ==
  ASSUME DramInv, NEW i, NoCollision(i)
  PROVE  DramInv'
<1> DEFINE f == [chan.RQ[i] EXCEPT !.forward_checked = TRUE]
           R == [chan.RQ EXCEPT ![i] = f]
<1>1. TypeInv /\ BankInv /\ WaitInv /\ chan \in Channel /\ Match(chan)
  BY Parts DEF DramInv, BankInv
<1>2. /\ i \in Unchecked(chan.RQ) /\ i \in Used(chan.RQ) /\ i \in DOMAIN chan.RQ
      /\ chan.RQ[i] \in Packet
  BY <1>1, NewReadFacts DEF NoCollision
<1>3. ~(chan.RQ[i].used /\ chan.RQ[i].scheduled)
  BY <1>1, <1>2, Parts DEF Unchecked, Match, Busy, OwnQueue
<1>4. /\ f \in Packet /\ f.used = chan.RQ[i].used /\ f.addr = chan.RQ[i].addr
      /\ f.to_return = chan.RQ[i].to_return /\ f.scheduled = chan.RQ[i].scheduled
  BY <1>2 DEF Packet
<1>5. chan' = [chan EXCEPT !.RQ = R] /\ UNCHANGED <<upper_queue, asked, returned, warmup, stage, todo>>
  BY DEF NoCollision, upper
<1> HIDE DEF f
<1>6. /\ chan' \in Channel /\ chan'.RQ = R /\ chan'.WQ = chan.WQ
      /\ Match(chan') /\ (Idle(chan) => Idle(chan'))
  BY <1>1, <1>2, <1>3, <1>4, <1>5, ReadSlotKeeps DEF SameToBank
<1>7. SameReads(chan.RQ, R)
  BY <1>2, <1>4 DEF SameReads
<1>8. TypeInv' /\ WaitInv'
  <2>1. todo' \subseteq Upper
    BY <1>1, <1>5, Parts
  <2> QED BY <1>1, <1>5, <1>6, <1>7, <2>1, SameReadsKeep
<1>9. BankInv'
  BY <1>1, <1>5, <1>6 DEF BankInv
<1> QED BY <1>8, <1>9 DEF DramInv

(* The end of a cycle: who is answered, and what becomes of the banks. *)
LEMMA FinishCycleAnswers ==
  ASSUME TypeInv, BankInv, FinishCycle
  PROVE  LET c == finish_dbus_request(chan)
         IN  /\ c \in Channel /\ Match(c) /\ Fewer(chan, c)
             /\ \/ c.RQ = chan.RQ /\ returned' = returned
                \/ \E i \in Used(chan.RQ) :
                     /\ Respond(chan.RQ[i].to_return, chan.RQ[i].addr)
                     /\ c.RQ = [chan.RQ EXCEPT ![i] = NoEntry]
<1> DEFINE c == finish_dbus_request(chan)
<1>1. chan \in Channel /\ Match(chan) /\ chan["RQ"] = chan.RQ
  BY Parts DEF BankInv
<1>2. /\ c \in Channel /\ Match(c) /\ Fewer(chan, c)
      /\ ~BusDone(chan) => c.RQ = chan.RQ
      /\ BusDone(chan) =>
              \E q \in OwnQueue : \E i \in DOMAIN chan[q] :
                /\ chan[q][i] \in Packet /\ PacketOf(chan, chan.active) = chan[q][i]
                /\ q = "RQ" => c.RQ = [chan.RQ EXCEPT ![i] = NoEntry]
                /\ q = "WQ" => c.RQ = chan.RQ /\ chan[q][i].to_return = {}
  BY <1>1, FinishDbusKeeps
<1> HIDE DEF c
<1>3. CASE ~BusDone(chan)
  BY <1>2, <1>3 DEF FinishCycle, c
<1>4. CASE BusDone(chan)
  <2>1. PICK q \in OwnQueue : \E i \in DOMAIN chan[q] :
                /\ chan[q][i] \in Packet /\ PacketOf(chan, chan.active) = chan[q][i]
                /\ q = "RQ" => c.RQ = [chan.RQ EXCEPT ![i] = NoEntry]
                /\ q = "WQ" => c.RQ = chan.RQ /\ chan[q][i].to_return = {}
    BY <1>2, <1>4
  <2>2. PICK i \in DOMAIN chan[q] :
                /\ chan[q][i] \in Packet /\ PacketOf(chan, chan.active) = chan[q][i]
                /\ q = "RQ" => c.RQ = [chan.RQ EXCEPT ![i] = NoEntry]
                /\ q = "WQ" => c.RQ = chan.RQ /\ chan[q][i].to_return = {}
    BY <2>1
  <2>3. Respond(chan[q][i].to_return, chan[q][i].addr)
    BY <1>4, <2>2 DEF FinishCycle
  <2>4. CASE q = "RQ"
    <3>1. i \in Used(chan.RQ) /\ chan[q][i] = chan.RQ[i]
      BY <1>1, <2>2, <2>4, PacketFacts DEF Used
    <3> QED BY <1>2, <2>2, <2>3, <2>4, <3>1 DEF c
  <2>5. CASE q = "WQ"
    <3>1. returned' = [u \in Upper |-> returned[u]]
      BY <2>2, <2>3, <2>5 DEF Respond
    <3>2. returned' = returned
      BY <3>1, Parts
    <3> QED BY <1>2, <2>2, <2>5, <3>2 DEF c
  <2> QED BY <2>4, <2>5 DEF OwnQueue
<1> QED BY <1>3, <1>4

LEMMA FinishCycleKeeps ==
  ASSUME DramInv, FinishCycle
  PROVE  DramInv'
<1> DEFINE c == finish_dbus_request(chan)
<1>1. TypeInv /\ BankInv /\ WaitInv /\ chan \in Channel /\ chan["RQ"] = chan.RQ /\ chan["WQ"] = chan.WQ
  BY Parts DEF DramInv
<1>2. /\ c \in Channel /\ Match(c) /\ Fewer(chan, c)
      /\ \/ c.RQ = chan.RQ /\ returned' = returned
         \/ \E i \in Used(chan.RQ) :
              /\ Respond(chan.RQ[i].to_return, chan.RQ[i].addr)
              /\ c.RQ = [chan.RQ EXCEPT ![i] = NoEntry]
  BY <1>1, FinishCycleAnswers
<1>3. chan' = AfterBus(c) /\ stage' = "idle" /\ UNCHANGED <<upper_queue, asked, warmup, todo>>
      /\ stage = "collisions"
  BY DEF FinishCycle, upper
<1> HIDE DEF c
<1>4. warmup => \A q \in OwnQueue : \A i \in DOMAIN chan[q] : ~chan[q][i].used
  BY <1>1, <1>3 DEF BankInv, FinishCycle, Used, OwnQueue
<1>5. AllChecked(chan)
  <2>1. CASE warmup
    BY <1>4, <2>1 DEF AllChecked
  <2>2. CASE ~warmup
    BY <1>1, <1>3, <2>2 DEF AllChecked, BankInv, FinishCycle, Unchecked, Used, OwnQueue
  <2> QED BY <2>1, <2>2
<1>6. AllChecked(c) /\ (warmup => \A q \in OwnQueue : \A i \in DOMAIN c[q] : ~c[q][i].used)
  BY <1>2, <1>4, <1>5, FewerChecked
<1>7. /\ chan' \in Channel /\ Match(chan') /\ SameReads(c.RQ, chan'.RQ) /\ (warmup => Idle(chan'))
  BY <1>2, <1>3, <1>6, AfterBusKeeps
<1>8. todo' \subseteq Upper
  BY <1>1, <1>3, Parts
<1>9. TypeInv' /\ WaitInv'
  <2>1. CASE c.RQ = chan.RQ /\ returned' = returned
    BY <1>1, <1>3, <1>7, <1>8, <2>1, SameReadsKeep
  <2>2. CASE \E i \in Used(chan.RQ) :
              /\ Respond(chan.RQ[i].to_return, chan.RQ[i].addr)
              /\ c.RQ = [chan.RQ EXCEPT ![i] = NoEntry]
    BY <1>1, <1>3, <1>7, <1>8, <2>2, AnsweredKeeps
  <2> QED BY <1>2, <2>1, <2>2
<1>10. BankInv'
  BY <1>3, <1>7 DEF BankInv
<1> QED BY <1>9, <1>10 DEF DramInv

--------------------------------------------------------------------------------
(* The theorems *)

LEMMA NextKeepsDram == DramInv /\ [Next]_vars => DramInv'
<1> SUFFICES ASSUME DramInv, [Next]_vars PROVE DramInv'
  OBVIOUS
<1>1. CASE \E u \in Upper, kind \in RequestKinds, b \in Block : UpperRequest(u, kind, b)
  BY <1>1, UpperRequestKeeps
<1>2. CASE \E u \in Upper : UpperFinishPacket(u)
  BY <1>2, UpperFinishPacketKeeps
<1>3. CASE BeginPhase
  BY <1>3, BeginPhaseKeeps
<1>4. CASE BeginCycle
  BY <1>4, BeginCycleKeeps
<1>5. CASE \E u \in Upper : InitiateRequests(u)
  BY <1>5, InitiateRequestsKeeps
<1>6. CASE BeginOperate
  BY <1>6, BeginOperateKeeps
<1>7. CASE WarmupAnswer
  BY <1>7, WarmupAnswerKeeps
<1>8. CASE \E i \in 1 .. RQ_SIZE : ForwardWrite(i)
  BY <1>8, ForwardWriteKeeps
<1>9. CASE \E i \in 1 .. RQ_SIZE : MergeRead(i)
  BY <1>9, MergeReadKeeps
<1>10. CASE \E i \in 1 .. RQ_SIZE : NoCollision(i)
  BY <1>10, NoCollisionKeeps
<1>11. CASE FinishCycle
  BY <1>11, FinishCycleKeeps
<1>12. CASE UNCHANGED vars
  BY <1>12 DEF DramInv, TypeInv, BankInv, WaitInv, vars, upper
<1> QED BY <1>1, <1>2, <1>3, <1>4, <1>5, <1>6, <1>7, <1>8, <1>9, <1>10, <1>11, <1>12
        DEF Next, Cycle, CheckReadCollision

(* The state of the controller is well formed, banks and slots match, and each *)
(* request that a cache waits for is in one place: an upper queue, RQ or the   *)
(* answers.                                                                    *)
THEOREM DramInvHolds == Spec => []DramInv
<1>1. Init => DramInv
  BY InitDram
<1>2. DramInv /\ [Next]_vars => DramInv'
  BY NextKeepsDram
<1> QED BY <1>1, <1>2, PTL DEF Spec

LEMMA MatchIsMutual == DramInv => BanksMatchQueues
<1> SUFFICES ASSUME DramInv, NEW q \in {"RQ", "WQ"}, NEW i \in DOMAIN chan[q]
             PROVE  LET serving == {k \in Bank : chan.bank[k].valid /\ chan.bank[k].pkt = <<q, i>>}
                    IN  IF chan[q][i].used /\ chan[q][i].scheduled
                        THEN serving = {BankOf[chan[q][i].addr]}
                        ELSE serving = {}
  BY DEF BanksMatchQueues
<1> DEFINE serving == {k \in Bank : Works(chan, k, q, i)}
<1>1. Match(chan) /\ chan \in Channel /\ q \in OwnQueue
  BY DEF DramInv, BankInv, TypeInv, OwnQueue
<1>2. ASSUME NEW k \in serving PROVE Busy(chan, q, i) /\ k = BankOf[chan[q][i].addr]
  <2>1. k \in Bank /\ Works(chan, k, q, i)
    OBVIOUS
  <2>2. \E r \in OwnQueue : \E j \in DOMAIN chan[r] :
          Works(chan, k, r, j) /\ Busy(chan, r, j) /\ BankOf[chan[r][j].addr] = k
    BY <1>1, <2>1 DEF Match, Works
  <2> QED BY <2>1, <2>2, OneSlotPerBank
<1>3. ASSUME Busy(chan, q, i) PROVE BankOf[chan[q][i].addr] \in serving
  <2>1. Works(chan, BankOf[chan[q][i].addr], q, i)
    BY <1>1, <1>3 DEF Match
  <2>2. BankOf[chan[q][i].addr] \in Bank
    BY <1>1, <1>3, ChannelFacts, PacketFacts DEF Busy
  <2> QED BY <2>1, <2>2
<1> HIDE DEF serving
<1>4. IF Busy(chan, q, i) THEN serving = {BankOf[chan[q][i].addr]} ELSE serving = {}
  BY <1>2, <1>3
<1> QED BY <1>4 DEF Busy, serving, Works

(* A slot of RQ or WQ is scheduled exactly while one bank works on it, and that *)
(* is the bank of its address, whatever changes of mode, refreshes, collisions  *)
(* and answers come in between.                                                 *)
THEOREM BanksAndQueuesMatch == Spec => []BanksMatchQueues
  BY DramInvHolds, MatchIsMutual, PTL

(* Who gets an answer is waiting for it and has not been answered yet. *)
LEMMA RespondRefines ==
  ASSUME TypeInv, WaitInv, NEW i \in Used(chan.RQ),
         Respond(chan.RQ[i].to_return, chan.RQ[i].addr), UNCHANGED asked
  PROVE  UpperPort!Next \/ UNCHANGED <<asked, returned>>
<1> DEFINE cs == chan.RQ[i].to_return
           b == chan.RQ[i].addr
<1>1. cs \in SUBSET Upper /\ b \in Block
  <2>1. chan.RQ[i] \in Packet
    BY Parts, Sizes, SlotFacts DEF Used
  <2> QED BY <2>1, PacketFacts
<1>2. returned' = [u \in Upper |-> IF u \in cs THEN Append(returned[u], b) ELSE returned[u]]
  BY DEF Respond
<1>3. ASSUME NEW u \in cs PROVE b \in asked[u] /\ ~UpperPort!IsAnswered(u, b)
  <2>1. Holds(chan.RQ, u, b, i)
    BY DEF Holds
  <2>2. IsHeld(chan.RQ, u, b) /\ u \in Upper
    BY <1>1, <2>1 DEF IsHeld, Used
  <2>3. b \in asked[u] /\ ~IsReturned(returned[u], b)
    BY <1>1, <2>2 DEF WaitInv, WaitsOnce
  <2> QED BY <2>3 DEF IsReturned, UpperPort!IsAnswered
<1> HIDE DEF cs, b
<1>4. CASE cs = {}
  <2>1. returned' = [u \in Upper |-> returned[u]]
    BY <1>2, <1>4
  <2>2. returned' = returned
    BY <2>1, Parts
  <2> QED BY <2>2
<1>5. CASE cs # {}
  <2>1. UpperPort!Answer(cs, b)
    BY <1>2, <1>3, <1>5 DEF UpperPort!Answer
  <2> QED BY <1>1, <2>1 DEF UpperPort!Next
<1> QED BY <1>4, <1>5

LEMMA StepRefines ==
  ASSUME DramInv, [Next]_vars
  PROVE  UpperPort!Next \/ UNCHANGED <<asked, returned>>
<1>1. TypeInv /\ BankInv /\ WaitInv
  BY DEF DramInv
<1>2. ASSUME NEW u \in Upper, NEW kind \in RequestKinds, NEW b \in Block, UpperRequest(u, kind, b)
      PROVE  UpperPort!Next \/ UNCHANGED <<asked, returned>>
  <2>1. CASE kind.response_requested
    <3>1. UpperPort!Ask(u, b)
      BY <1>2, <2>1 DEF UpperRequest, UpperPort!Ask
    <3> QED BY <3>1 DEF UpperPort!Next
  <2>2. CASE ~kind.response_requested
    BY <1>2, <2>2 DEF UpperRequest
  <2> QED BY <2>1, <2>2
<1>3. ASSUME NEW u \in Upper, UpperFinishPacket(u)
      PROVE  UpperPort!Next \/ UNCHANGED <<asked, returned>>
  <2>1. UpperPort!Read(u)
    BY <1>3 DEF UpperFinishPacket, UpperPort!Read
  <2> QED BY <2>1 DEF UpperPort!Next
<1>4. CASE BeginPhase \/ BeginCycle \/ (\E u \in Upper : InitiateRequests(u)) \/ BeginOperate
           \/ (\E i \in 1 .. RQ_SIZE : MergeRead(i) \/ NoCollision(i))
  BY <1>4 DEF BeginPhase, BeginCycle, InitiateRequests, BeginOperate, MergeRead, NoCollision, upper
<1>5. CASE WarmupAnswer
  <2>1. /\ Least(Used(chan.RQ)) \in Used(chan.RQ)
    <3>1. Used(chan.RQ) \in SUBSET (1 .. RQ_SIZE) /\ Used(chan.RQ) # {}
      BY <1>1, <1>5, Parts, Sizes, SlotFacts DEF WarmupAnswer
    <3> QED BY <3>1, SomeSlots, Sizes, LeastMember
  <2> QED BY <1>1, <1>5, <2>1, RespondRefines DEF WarmupAnswer, upper
<1>6. ASSUME NEW i \in 1 .. RQ_SIZE, ForwardWrite(i)
      PROVE  UpperPort!Next \/ UNCHANGED <<asked, returned>>
  BY <1>1, <1>6, NewReadFacts, RespondRefines DEF ForwardWrite, upper
<1>7. CASE FinishCycle
  <2>1. \/ returned' = returned
        \/ \E i \in Used(chan.RQ) : Respond(chan.RQ[i].to_return, chan.RQ[i].addr)
    BY <1>1, <1>7, FinishCycleAnswers
  <2>2. UNCHANGED asked
    BY <1>7 DEF FinishCycle, upper
  <2> QED BY <1>1, <2>1, <2>2, RespondRefines
<1>8. CASE UNCHANGED vars
  BY <1>8 DEF vars, upper
<1> QED BY <1>2, <1>3, <1>4, <1>5, <1>6, <1>7, <1>8 DEF Next, Cycle, CheckReadCollision

(* The controller implements the server's side of the channels' contract: it   *)
(* answers who waits, for the block they asked for, once - also reads that were *)
(* merged, forwarded from a write or taken off their bank.                      *)
THEOREM MemoryPortImplemented == Spec => ImplementsMemoryPort
<1>1. Init => UpperPort!Init
  BY DEF Init, UpperPort!Init
<1>2. DramInv /\ [Next]_vars => [UpperPort!Next]_(UpperPort!vars)
  BY StepRefines DEF UpperPort!vars
<1> QED BY <1>1, <1>2, DramInvHolds, PTL DEF Spec, ImplementsMemoryPort, UpperPort!Spec

================================================================================
