------------------------------ MODULE DramChannel ------------------------------
(***************************************************************************)
(* MEMORY_CONTROLLER with one DRAM_CHANNEL (src/src/dram_controller.cc):   *)
(* requests enter RQ and WQ, are scheduled onto banks, cross the data bus  *)
(* and are answered.  Writes are saved up and drained in bursts            *)
(* (write_mode); every bank is refreshed every tREF.                       *)
(*                                                                         *)
(* The functions operate() calls are operators from a channel state to the *)
(* next, and FinishCycle composes them in the order of operate(); answers  *)
(* given before that, to colliding reads, are actions of their own, and so *)
(* is what each upper channel sends.  A time is the number of cycles until *)
(* it comes.                                                               *)
(***************************************************************************)
EXTENDS Positions

CONSTANTS
  Block,            \* block addresses
  Upper,            \* the channels of the last-level caches
  NumBanks,         \* bank_request_capacity()
  BankOf,           \* bank_request_index, as a function
  RowOf,            \* get_row, as a function
  GroupOf,          \* bankgroup_request_index, as a function
  UpperSize,        \* the sizes of the upper channels' queues, by queue
  RequestKinds,     \* what the upper levels send, by queue
  RQ_SIZE, WQ_SIZE,
  tRP, tRCD, tCAS,  \* precharge, activate, column access
  tREF, tRFC,       \* time between refreshes, and of a refresh
  DRAM_DBUS_TURN_AROUND_TIME, DRAM_DBUS_RETURN_TIME, DRAM_DBUS_BANKGROUP_STALL

Queue == {"RQ", "PQ", "WQ"}
Bank == 1..NumBanks
Group == {GroupOf[b] : b \in Block}
NoBank == 0                        \* std::end(bank_request)

ASSUME DramAssumption ==
  /\ IsFiniteSet(Upper)
  /\ NumBanks \in Nat \ {0} /\ BankOf \in [Block -> Bank]
  /\ \A b1, b2 \in Block : BankOf[b1] = BankOf[b2] => GroupOf[b1] = GroupOf[b2]
  /\ \A b \in Block : RowOf[b] \in Nat \ {0}
  /\ UpperSize \in [Queue -> Nat]
  /\ RequestKinds \subseteq [queue : Queue, response_requested : BOOLEAN]
  /\ \A kind \in RequestKinds : kind.queue = "WQ" => ~kind.response_requested    \* cache.cc:200
  /\ RQ_SIZE \in Nat \ {0} /\ WQ_SIZE \in Nat \ {0}
  /\ {tRP, tRCD, tCAS, tREF, tRFC} \subseteq Nat
  /\ {DRAM_DBUS_TURN_AROUND_TIME, DRAM_DBUS_RETURN_TIME,
      DRAM_DBUS_BANKGROUP_STALL} \subseteq Nat
  /\ tRFC < tREF

VARIABLES
  upper_queue,  \* upper_queue[u][q]: queue q of upper channel u
  asked,        \* asked[u]: the blocks u waits for
  returned,     \* returned[u]: the answers in upper channel u
  chan,         \* the state of the DRAM_CHANNEL
  warmup,
  stage,        \* "idle" between two cycles, "initiate" and "collisions" in one
  todo          \* the upper channels that initiate_requests has still to look at

upper == <<upper_queue, asked>>
vars == <<upper, returned, chan, warmup, stage, todo>>

NoEntry == [used |-> FALSE]        \* std::nullopt
IdleBank == [valid |-> FALSE, need_refresh |-> FALSE, under_refresh |-> FALSE,
             open_row |-> 0, wait |-> 0, pkt |-> <<>>]

Less1(n) == IF n > 0 THEN n - 1 ELSE 0
Used(queue) == {i \in DOMAIN queue : queue[i].used}
Waiting(queue) == {i \in Used(queue) : ~queue[i].scheduled}
Unchecked(queue) == {i \in Used(queue) : ~queue[i].forward_checked}
Empty(size) == [i \in 1..size |-> NoEntry]

(* to_return receives the answer for block b. *)
Respond(to_return, b) ==
  returned' = [u \in Upper |-> IF u \in to_return THEN Append(returned[u], b)
                                                  ELSE returned[u]]

--------------------------------------------------------------------------------
(* The upper levels *)

(* A cache waits for a block at most once. *)
UpperRequest(u, kind, b) ==
  /\ stage = "idle"
  /\ Len(upper_queue[u][kind.queue]) < UpperSize[kind.queue]
  /\ kind.response_requested => b \notin asked[u]
  /\ upper_queue' = [upper_queue EXCEPT ![u][kind.queue] =
       Append(@, [addr |-> b, response_requested |-> kind.response_requested])]
  /\ asked' = IF kind.response_requested THEN [asked EXCEPT ![u] = @ \cup {b}] ELSE asked
  /\ UNCHANGED <<returned, chan, warmup, stage, todo>>

UpperFinishPacket(u) ==
  /\ stage = "idle"
  /\ returned[u] # <<>>
  /\ asked' = [asked EXCEPT ![u] = @ \ {Head(returned[u])}]
  /\ returned' = [returned EXCEPT ![u] = Tail(@)]
  /\ UNCHANGED <<upper_queue, chan, warmup, stage, todo>>

(* MEMORY_CONTROLLER::begin_phase: the phase after warmup. *)
BeginPhase ==
  /\ stage = "idle" /\ warmup
  /\ warmup' = FALSE
  /\ UNCHANGED <<upper, returned, chan, stage, todo>>

--------------------------------------------------------------------------------
(* A cycle begins: time passes, and requests enter RQ and WQ *)

(* Only the order of the waiting entries' times matters: their ranks. *)
Older(queue) ==
  LET Later(i) == {j \in Waiting(queue) : queue[j].age < queue[i].age}
  IN  [i \in DOMAIN queue |->
         IF i \in Waiting(queue) THEN [queue[i] EXCEPT !.age = 1 + Cardinality(Later(i))]
                                 ELSE queue[i]]

Tick(c) ==
  LET Later(bank) == IF bank.valid \/ bank.under_refresh THEN [bank EXCEPT !.wait = @ - 1]
                                                         ELSE bank
  IN  [c EXCEPT !.RQ = Older(@), !.WQ = Older(@),
                !.bank = [k \in Bank |-> Later(c.bank[k])],
                !.dbus_wait = Less1(@),
                !.group_wait = [g \in Group |-> Less1(c.group_wait[g])],
                !.refresh_wait = Less1(@)]

BeginCycle ==
  /\ stage = "idle"
  /\ chan' = Tick(chan)
  /\ stage' = "initiate" /\ todo' = Upper
  /\ UNCHANGED <<upper, returned, warmup>>

(* add_rq and add_wq: each request in the first slot still empty.  No one *)
(* waits for a write.                                                     *)
Free(queue) == DOMAIN queue \ Used(queue)
Rank(queue, i) == Cardinality({j \in Free(queue) : j <= i})
Entry(u, target, req) ==
  [used |-> TRUE, addr |-> req.addr,
   to_return |-> IF target = "RQ" /\ req.response_requested THEN {u} ELSE {},
   forward_checked |-> FALSE, scheduled |-> FALSE, age |-> 0]
Added(queue, u, target, reqs) ==
  [i \in DOMAIN queue |->
     IF i \in Free(queue) /\ Rank(queue, i) <= Len(reqs)
     THEN Entry(u, target, reqs[Rank(queue, i)]) ELSE queue[i]]

(* One queue of upper channel u in initiate_requests: the requests there is *)
(* a slot for.  s is <<the queues of u, chan>>.                             *)
Initiate(s, u, q) ==
  LET target == IF q = "WQ" THEN "WQ" ELSE "RQ"
      pending == s[1][q]
      n == Lesser(Len(pending), Cardinality(Free(s[2][target])))
  IN  << [s[1] EXCEPT ![q] = Drop(@, n)],
         [s[2] EXCEPT ![target] = Added(@, u, target, SubSeq(pending, 1, n))] >>

(* Which upper channel comes first is left open. *)
InitiateRequests(u) ==
  /\ stage = "initiate" /\ u \in todo
  /\ LET s == Initiate(Initiate(Initiate(<<upper_queue[u], chan>>, u, "RQ"), u, "PQ"), u, "WQ")
     IN  /\ upper_queue' = [upper_queue EXCEPT ![u] = s[1]]
         /\ chan' = s[2]
  /\ todo' = todo \ {u}
  /\ UNCHANGED <<asked, returned, warmup, stage>>

(* A write of a block that another entry of WQ writes is dropped: of several *)
(* new ones the loop keeps the last.                                         *)
Collides(queue, i) ==
  \E j \in Used(queue) \ {i} :
    queue[j].addr = queue[i].addr /\ (queue[j].forward_checked \/ j > i)
check_write_collision(c) ==
  [c EXCEPT !.WQ = [i \in DOMAIN @ |->
     IF i \notin Unchecked(@) THEN @[i]
     ELSE IF Collides(@, i) THEN NoEntry ELSE [@[i] EXCEPT !.forward_checked = TRUE]]]

(* What operate() does to WQ first: in warmup writes are dropped. *)
BeginOperate ==
  /\ stage = "initiate" /\ todo = {}
  /\ chan' = check_write_collision(IF warmup THEN [chan EXCEPT !.WQ = Empty(WQ_SIZE)] ELSE chan)
  /\ stage' = "collisions"
  /\ UNCHANGED <<upper, returned, warmup, todo>>

--------------------------------------------------------------------------------
(* Answers that need no bank *)

(* The new read under examination in check_read_collision. *)
NewRead(i) ==
  /\ stage = "collisions" /\ ~warmup
  /\ Unchecked(chan.RQ) # {} /\ i = Least(Unchecked(chan.RQ))

Writes(b) == {j \in Used(chan.WQ) : chan.WQ[j].addr = b}
Reads(b) == {j \in Used(chan.RQ) : chan.RQ[j].addr = b}

WarmupAnswer ==
  /\ stage = "collisions" /\ warmup
  /\ Used(chan.RQ) # {}
  /\ LET i == Least(Used(chan.RQ))
     IN  /\ Respond(chan.RQ[i].to_return, chan.RQ[i].addr)
         /\ chan' = [chan EXCEPT !.RQ[i] = NoEntry]
  /\ UNCHANGED <<upper, warmup, stage, todo>>

(* The data of a waiting write is forwarded. *)
ForwardWrite_Keeps(i) ==    \* mutant: the read stays in RQ
  /\ NewRead(i)
  /\ Writes(chan.RQ[i].addr) # {}
  /\ Respond(chan.RQ[i].to_return, chan.RQ[i].addr)
  /\ chan' = [chan EXCEPT !.RQ[i].forward_checked = TRUE]
  /\ UNCHANGED <<upper, warmup, stage, todo>>
ForwardWrite(i) ==
  /\ NewRead(i)
  /\ Writes(chan.RQ[i].addr) # {}
  /\ Respond(chan.RQ[i].to_return, chan.RQ[i].addr)
  /\ chan' = [chan EXCEPT !.RQ[i] = NoEntry]
  /\ UNCHANGED <<upper, warmup, stage, todo>>

(* Another read of the block is queued (the first before i, or else the first *)
(* behind it): it takes over the ones to answer.                              *)
MergeTarget(i) ==
  LET others == Reads(chan.RQ[i].addr) \ {i}
  IN  Least(IF \E j \in others : j < i THEN {j \in others : j < i} ELSE others)

MergeRead(i) ==
  /\ NewRead(i)
  /\ Writes(chan.RQ[i].addr) = {}
  /\ Reads(chan.RQ[i].addr) # {i}
  /\ chan' = [chan EXCEPT !.RQ[MergeTarget(i)].to_return = @ \cup chan.RQ[i].to_return,
                          !.RQ[i] = NoEntry]
  /\ UNCHANGED <<upper, returned, warmup, stage, todo>>

NoCollision(i) ==
  /\ NewRead(i)
  /\ Writes(chan.RQ[i].addr) = {}
  /\ Reads(chan.RQ[i].addr) = {i}
  /\ chan' = [chan EXCEPT !.RQ[i].forward_checked = TRUE]
  /\ UNCHANGED <<upper, returned, warmup, stage, todo>>

--------------------------------------------------------------------------------
(* The rest of operate() *)

PacketOf(c, k) == c[c.bank[k].pkt[1]][c.bank[k].pkt[2]]

(* The request on the data bus has crossed it. *)
BusDone(c) == c.active # NoBank /\ c.bank[c.active].wait <= 0

finish_dbus_request(c) ==
  LET k == c.active
  IN  IF ~BusDone(c) THEN c
      ELSE [c EXCEPT !.bank[k] = [@ EXCEPT !.valid = FALSE, !.pkt = <<>>, !.wait = 0],
                     ![c.bank[k].pkt[1]][c.bank[k].pkt[2]] = NoEntry,
                     !.active = NoBank]

DRAM_WRITE_HIGH_WM_Low == (WQ_SIZE * 3) \div 8    \* mutant: 0 for a short queue
DRAM_WRITE_HIGH_WM == (WQ_SIZE * 7) \div 8
DRAM_WRITE_LOW_WM == (WQ_SIZE * 6) \div 8

Unbalanced(c) ==
  LET wq_occu == Cardinality(Used(c.WQ))
      rq_occu == Cardinality(Used(c.RQ))
  IN  \/ ~c.write_mode /\ (wq_occu >= DRAM_WRITE_HIGH_WM \/ (rq_occu = 0 /\ wq_occu > 0))
      \/ c.write_mode /\ (wq_occu = 0 \/ (rq_occu > 0 /\ wq_occu < DRAM_WRITE_LOW_WM))

(* Scheduled requests leave their banks, except the one on the data bus. *)
Unscheduled_Forgets(c) ==    \* mutant: the packets stay scheduled
  LET reset == {k \in Bank : k # c.active /\ c.bank[k].valid}
  IN  [c EXCEPT !.bank = [k \in Bank |->
           IF k \in reset THEN [@[k] EXCEPT !.valid = FALSE, !.pkt = <<>>, !.wait = 0] ELSE @[k]]]
Unscheduled(c) ==
  LET reset == {k \in Bank : k # c.active /\ c.bank[k].valid}
      Back(q) == [i \in DOMAIN c[q] |->
                    IF \E k \in reset : c.bank[k].pkt = <<q, i>>
                    THEN [c[q][i] EXCEPT !.scheduled = FALSE, !.age = 0] ELSE c[q][i]]
  IN  [c EXCEPT !.RQ = Back("RQ"), !.WQ = Back("WQ"),
                !.bank = [k \in Bank |->
                   IF k \in reset
                   THEN [c.bank[k] EXCEPT !.valid = FALSE, !.pkt = <<>>, !.wait = 0,
                                          !.open_row = IF c.bank[k].wait < tCAS THEN 0 ELSE @]
                   ELSE c.bank[k]]]

swap_write_mode(c) ==
  IF ~Unbalanced(c) THEN c
  ELSE [Unscheduled(c) EXCEPT
          !.dbus_wait = DRAM_DBUS_TURN_AROUND_TIME
                        + (IF c.active # NoBank THEN c.bank[c.active].wait ELSE 0),
          !.write_mode = ~@]

schedule_refresh_IdleOnly(c) ==    \* mutant: need_refresh is not remembered
  LET due == c.refresh_wait = 0
      Refresh(bank) ==
        CASE due /\ ~bank.valid -> [bank EXCEPT !.wait = tRFC, !.under_refresh = TRUE]
          [] ~due /\ bank.under_refresh /\ bank.wait <= 0 ->
               [bank EXCEPT !.under_refresh = FALSE, !.open_row = 0, !.wait = 0]
          [] OTHER -> bank
  IN  [c EXCEPT !.bank = [k \in Bank |-> Refresh(@[k])],
                !.refresh_wait = IF due THEN tREF ELSE @]
schedule_refresh(c) ==
  LET due == c.refresh_wait = 0
      Refresh(bank) ==
        LET needed == bank.need_refresh \/ due
        IN  CASE needed /\ ~bank.valid ->
                   [bank EXCEPT !.wait = tRFC, !.need_refresh = FALSE, !.under_refresh = TRUE]
              [] ~(needed /\ ~bank.valid) /\ bank.under_refresh /\ bank.wait <= 0 ->
                   [bank EXCEPT !.need_refresh = needed, !.under_refresh = FALSE,
                                !.open_row = 0, !.wait = 0]
              [] OTHER -> [bank EXCEPT !.need_refresh = needed]
  IN  [c EXCEPT !.bank = [k \in Bank |-> Refresh(@[k])],
                !.refresh_wait = IF due THEN tREF ELSE @]

(* std::min_element over the banks: a valid one, ready first. *)
NextOnBus(c) ==
  LET valid == {k \in Bank : c.bank[k].valid}
  IN  IF valid = {} THEN NoBank
      ELSE Least({k \in valid : \A l \in valid : c.bank[k].wait <= c.bank[l].wait})

populate_dbus(c) ==
  LET k == NextOnBus(c)
      g == GroupOf[PacketOf(c, k).addr]
  IN  IF k # NoBank /\ c.bank[k].wait <= 0 /\ c.active = NoBank /\ c.dbus_wait = 0
      THEN [c EXCEPT !.active = k,
                     !.bank[k].wait = c.group_wait[g] + DRAM_DBUS_RETURN_TIME,
                     !.group_wait[g] = DRAM_DBUS_RETURN_TIME + DRAM_DBUS_BANKGROUP_STALL]
      ELSE c

(* std::min_element over the queue of the mode: a waiting packet whose bank is *)
(* not valid, then the one that waits longest, then the last slot.             *)
schedule_packet(c) ==
  LET queue == IF c.write_mode THEN c.WQ ELSE c.RQ
      Ready(i) == ~c.bank[BankOf[queue[i].addr]].valid
      Before(i, j) == \/ Ready(i) /\ ~Ready(j)
                      \/ Ready(i) = Ready(j) /\ queue[i].age > queue[j].age
                      \/ Ready(i) = Ready(j) /\ queue[i].age = queue[j].age /\ i > j
      candidates == Waiting(queue)
  IN  {i \in candidates : \A j \in candidates \ {i} : Before(i, j)}

service_packet(c) ==
  LET q == IF c.write_mode THEN "WQ" ELSE "RQ"
      Served(i) ==
        LET k == BankOf[c[q][i].addr]
            bank == c.bank[k]
            row == RowOf[c[q][i].addr]
            charge == IF bank.open_row = row THEN 0
                      ELSE IF bank.open_row # 0 THEN tRP + tRCD ELSE tRCD
        IN  IF bank.valid \/ bank.under_refresh THEN c
            ELSE [c EXCEPT !.bank[k] = [valid |-> TRUE, need_refresh |-> FALSE,
                                        under_refresh |-> FALSE, open_row |-> row,
                                        wait |-> tCAS + charge, pkt |-> <<q, i>>],
                           ![q][i].scheduled = TRUE, ![q][i].age = 0]
  IN  IF schedule_packet(c) = {} THEN c
      ELSE Served(CHOOSE i \in schedule_packet(c) : TRUE)

AfterBus(c) ==
  service_packet(populate_dbus(schedule_refresh(swap_write_mode(c))))

FinishCycle ==
  /\ stage = "collisions"
  /\ IF warmup THEN Used(chan.RQ) = {} ELSE Unchecked(chan.RQ) = {}
  /\ IF BusDone(chan)
     THEN LET answered == PacketOf(chan, chan.active)
          IN  Respond(answered.to_return, answered.addr)
     ELSE UNCHANGED returned
  /\ chan' = AfterBus(finish_dbus_request(chan))
  /\ stage' = "idle"
  /\ UNCHANGED <<upper, warmup, todo>>

--------------------------------------------------------------------------------
Init ==
  /\ upper_queue = [u \in Upper |-> [q \in Queue |-> <<>>]]
  /\ asked = [u \in Upper |-> {}]
  /\ returned = [u \in Upper |-> <<>>]
  /\ chan = [RQ |-> Empty(RQ_SIZE), WQ |-> Empty(WQ_SIZE),
             bank |-> [k \in Bank |-> IdleBank], active |-> NoBank, write_mode |-> FALSE,
             dbus_wait |-> 0, group_wait |-> [g \in Group |-> 0], refresh_wait |-> tREF]
  /\ warmup = TRUE
  /\ stage = "idle" /\ todo = {}

CheckReadCollision ==
  \E i \in 1..RQ_SIZE : ForwardWrite(i) \/ MergeRead(i) \/ NoCollision(i)
Cycle ==
  \/ BeginCycle \/ (\E u \in Upper : InitiateRequests(u)) \/ BeginOperate
  \/ WarmupAnswer \/ CheckReadCollision \/ FinishCycle

Next ==
  \/ \E u \in Upper, kind \in RequestKinds, b \in Block : UpperRequest(u, kind, b)
  \/ \E u \in Upper : UpperFinishPacket(u)
  \/ BeginPhase
  \/ Cycle

(* do_cycle operates the controller, and the caches that read its answers, *)
(* in every cycle.  Cycle is always enabled, so that it is taken again and *)
(* again is what WF_vars(Cycle) says.                                      *)
Fairness == []<><<Cycle>>_vars /\ \A u \in Upper : SF_vars(UpperFinishPacket(u))

Spec == Init /\ [][Next]_vars /\ Fairness

--------------------------------------------------------------------------------
(* Properties *)

(* A slot is scheduled exactly while one bank works on it, and that bank is    *)
(* the one of its address: a change of mode (swap_write_mode) or an answer     *)
(* leaves neither a packet nobody serves nor a bank with a dead iterator.      *)
BanksMatchQueues ==
  \A q \in {"RQ", "WQ"} : \A i \in DOMAIN chan[q] :
    LET serving == {k \in Bank : chan.bank[k].valid /\ chan.bank[k].pkt = <<q, i>>}
    IN  IF chan[q][i].used /\ chan[q][i].scheduled
        THEN serving = {BankOf[chan[q][i].addr]}
        ELSE serving = {}

(* The controller keeps the server side of the contract the caches rely on. *)
UpperPort == INSTANCE MemoryPort WITH Client <- Upper
ImplementsMemoryPort == UpperPort!Spec

(* Every read is answered, whatever mode changes and refreshes take it off its *)
(* bank - provided that the writes pause: reads wait while WQ does not fall    *)
(* below the low watermark, and nothing but the writers limits that.           *)
WritesPause == <>[](\A u \in Upper : upper_queue[u]["WQ"] = <<>>)
EventuallyAnswered ==
  WritesPause => \A u \in Upper, b \in Block : (b \in asked[u]) ~> (b \notin asked[u])

(* No stream of requests keeps a bank from its refresh for ever. *)
EveryBankRefreshed == \A k \in Bank : []<>chan.bank[k].under_refresh

===============================================================================
