------------------------------- MODULE FrontEnd -------------------------------
(***************************************************************************)
(* The front end of O3_CPU (src/src/ooo_cpu.cc): instructions of the trace *)
(* enter the fetch buffer behind the branch predictor, hit in the decoded  *)
(* instruction buffer (DIB) or are fetched from the L1I in chunks of one   *)
(* block, take one of two ways to decode and are merged in program order   *)
(* into the dispatch buffer.  A mispredicted branch stops the trace until  *)
(* decode or execution finds out.                                          *)
(*                                                                         *)
(* operate() runs to completion in one cycle; `stage' sequences its calls. *)
(* The predictor, the back end and the L1I decide what they like.          *)
(***************************************************************************)
EXTENDS Positions
Seqs == INSTANCE SequencesExt

CONSTANTS
  Programs,   \* sequences of [block, window (of the DIB), branch, taken]
  IFETCH_BUFFER_SIZE, DECODE_BUFFER_SIZE, DIB_HIT_BUFFER_SIZE, DISPATCH_BUFFER_SIZE,
  DIB_SIZE,   \* ways of the DIB, which has one set here
  FETCH_WIDTH, DECODE_WIDTH, DIB_INORDER_WIDTH, L1I_BANDWIDTH,
  DECODE_LATENCY, DIB_HIT_LATENCY, DISPATCH_LATENCY, BRANCH_MISPREDICT_PENALTY

Never == BRANCH_MISPREDICT_PENALTY + 1    \* time_point::max()

ASSUME FrontEndAssumption ==
  /\ {IFETCH_BUFFER_SIZE, DECODE_BUFFER_SIZE, DIB_HIT_BUFFER_SIZE, DISPATCH_BUFFER_SIZE,
      FETCH_WIDTH, DECODE_WIDTH, DIB_INORDER_WIDTH, L1I_BANDWIDTH} \subseteq Nat \ {0}
  /\ {DIB_SIZE, DECODE_LATENCY, DIB_HIT_LATENCY, DISPATCH_LATENCY,
      BRANCH_MISPREDICT_PENALTY} \subseteq Nat
  (* Only conditional branches (and BRANCH_OTHER) fall through. *)
  /\ \A p \in Programs : \A i \in DOMAIN p :
       /\ p[i].branch \in {"none", "direct", "conditional", "indirect"}
       /\ p[i].branch \in {"direct", "indirect"} => p[i].taken

VARIABLES
  program,     \* never changes
  input,       \* the head of input_queue
  IFETCH, DIB_HIT, DECODE, DISPATCH,   \* the four buffers
  DIB,         \* windows, most recently used first
  fetch_resume,  \* cycles until fetch_resume_time
  asked,       \* requests [block, ids] that the L1I took and did not answer
  returned,    \* L1I_bus.lower_level->returned
  dispatched,  \* how many instructions went to the ROB
  unresolved,  \* those of them that are branches known to be mispredicted
  stage, scan,
  budget       \* what is left of the bandwidths of this stage

buffers == <<IFETCH, DIB_HIT, DECODE, DISPATCH>>
vars == <<program, input, buffers, DIB, fetch_resume, asked, returned,
          dispatched, unresolved, stage, scan, budget>>

(* A set of instructions in program order. *)
InOrder(S) == LET ids == {e.id : e \in S}
              IN  [k \in 1 .. Cardinality(ids) |-> CHOOSE e \in S : e.id = Nth(ids, k)]

Init ==
  /\ program \in Programs /\ input = 1
  /\ IFETCH = <<>> /\ DIB_HIT = <<>> /\ DECODE = <<>> /\ DISPATCH = <<>>
  /\ DIB = <<>>
  /\ fetch_resume = 0
  /\ asked = <<>> /\ returned = <<>>
  /\ dispatched = 0 /\ unresolved = {}
  /\ stage = "complete" /\ scan = 1 /\ budget = [fetch |-> 0, l1i |-> 0]

--------------------------------------------------------------------------------
(* The back end, seen from here *)

(* do_complete_execution of mispredicted branches. *)
Resumes_IndirectOnly(B) ==    \* mutant: direct branches are left to decode
  {b \in B : program[b].branch = "indirect"}
Resumes(B) == B

Complete(B) ==
  /\ stage = "complete"
  /\ B \subseteq unresolved
  /\ unresolved' = unresolved \ B
  /\ fetch_resume' = IF Resumes(B) = {} THEN fetch_resume ELSE BRANCH_MISPREDICT_PENALTY
  /\ stage' = "memory_return"
  /\ budget' = [fetch |-> FETCH_WIDTH, l1i |-> L1I_BANDWIDTH]
  /\ UNCHANGED <<program, input, buffers, DIB, asked, returned, dispatched, scan>>

(* handle_memory_return, the L1I: the oldest answer completes the next of  *)
(* its instructions that is still in the fetch buffer.                     *)
Completes(e, r) ==
  /\ e.id = Head(r.ids)
  /\ program[e.id].block = r.block
  /\ e.fetch_issued

ServeInstruction ==
  /\ stage = "memory_return"
  /\ budget.fetch > 0 /\ budget.l1i > 0
  /\ returned # <<>> /\ Head(returned).ids # <<>>
  /\ LET r == Head(returned)
         hit == {i \in DOMAIN IFETCH : Completes(IFETCH[i], r)}
     IN  /\ IFETCH' = [i \in DOMAIN IFETCH |->
                         IF i \in hit THEN [IFETCH[i] EXCEPT !.fetch_completed = TRUE]
                         ELSE IFETCH[i]]
         /\ budget' = [budget EXCEPT !.fetch = @ - Cardinality(hit)]
         /\ returned' = [returned EXCEPT ![1].ids = Tail(@)]
  /\ UNCHANGED <<program, input, DIB_HIT, DECODE, DISPATCH, DIB, fetch_resume, asked,
                 dispatched, unresolved, stage, scan>>

PopResponse ==
  /\ stage = "memory_return"
  /\ budget.l1i > 0
  /\ returned # <<>> /\ Head(returned).ids = <<>>
  /\ returned' = Tail(returned)
  /\ budget' = [budget EXCEPT !.l1i = @ - 1]
  /\ UNCHANGED <<program, input, buffers, DIB, fetch_resume, asked, dispatched,
                 unresolved, stage, scan>>

(* An answer served in part stays at the front. *)
EndReturn ==
  /\ stage = "memory_return"
  /\ ~(/\ budget.l1i > 0 /\ returned # <<>>
       /\ Head(returned).ids = <<>> \/ budget.fetch > 0)
  /\ stage' = "dispatch"
  /\ UNCHANGED <<program, input, buffers, DIB, fetch_resume, asked, returned, dispatched,
                 unresolved, scan, budget>>

(* dispatch_instruction takes n instructions, those that are ready. *)
Dispatch(n) ==
  /\ stage = "dispatch"
  /\ n \in 0 .. Len(DISPATCH)
  /\ \A i \in 1 .. n : DISPATCH[i].wait = 0
  /\ DISPATCH' = Drop(DISPATCH, n)
  /\ dispatched' = dispatched + n
  /\ unresolved' = unresolved \cup
       {DISPATCH[i].id : i \in {j \in 1 .. n : DISPATCH[j].branch_mispredicted}}
  /\ stage' = "decode"
  /\ UNCHANGED <<program, input, IFETCH, DIB_HIT, DECODE, DIB, fetch_resume, asked,
                 returned, scan, budget>>

--------------------------------------------------------------------------------
(* decode_instruction *)

Entries(s) == {s[i] : i \in DOMAIN s}

(* The three loops together: the longest stretch of both buffers in program *)
(* order that is ready, fits in the dispatch buffer and decodes no more     *)
(* than DECODE_WIDTH.                                                       *)
Room == Lesser(DIB_INORDER_WIDTH, DISPATCH_BUFFER_SIZE - Len(DISPATCH))
Decoding_TwoQueues ==    \* mutant: each buffer goes at its own pace
  LET Ahead(e, S) == {f \in S : f.id <= e.id}
  IN  {e \in Entries(DECODE) :
         /\ Cardinality(Ahead(e, Entries(DECODE))) <= Lesser(DECODE_WIDTH, Room)
         /\ \A f \in Ahead(e, Entries(DECODE)) : f.wait = 0}
      \cup {e \in Entries(DIB_HIT) :
         /\ Cardinality(Ahead(e, Entries(DIB_HIT))) <= Room - Len(DECODE)
         /\ \A f \in Ahead(e, Entries(DIB_HIT)) : f.wait = 0}
Decoding ==
  LET Both  == Entries(DIB_HIT) \cup Entries(DECODE)
      Ahead(e) == {f \in Both : f.id <= e.id}
  IN  {e \in Both :
         /\ \A f \in Ahead(e) : f.wait = 0
         /\ Cardinality(Ahead(e)) <= Room
         /\ Cardinality(Ahead(e) \cap Entries(DECODE)) <= DECODE_WIDTH}

(* A misprediction that decode can see: the target of a direct branch, or *)
(* the target of a conditional branch whose direction was right.          *)
SeenAtDecode(e) ==
  /\ e.branch_mispredicted
  /\ \/ program[e.id].branch = "direct"
     \/ program[e.id].branch = "conditional" /\ program[e.id].taken = e.branch_prediction

(* lru_table::fill of the DIB. *)
Fill(table, w) == LET rest == SelectSeq(table, LAMBDA v : v # w)
                  IN  SubSeq(<<w>> \o rest, 1, Lesser(DIB_SIZE, Len(rest) + 1))

Resumed_Twice(e) == [e EXCEPT !.wait = DISPATCH_LATENCY]    \* mutant: flag kept
Resumed(e) ==
  [e EXCEPT !.wait = DISPATCH_LATENCY, !.branch_mispredicted = @ /\ ~SeenAtDecode(e)]

Decode ==
  /\ stage = "decode"
  /\ LET Count(s) == Cardinality({i \in DOMAIN s : s[i] \in Decoding})
         Left(s)  == Drop(s, Count(s))
         Taken(s) == SubSeq(s, 1, Count(s))
         decoded  == {Resumed(e) : e \in Entries(Taken(DECODE))}
         hits     == {[e EXCEPT !.wait = DISPATCH_LATENCY] : e \in Entries(Taken(DIB_HIT))}
     IN  /\ DISPATCH' = DISPATCH \o InOrder(decoded \cup hits)
         /\ DECODE' = Left(DECODE)
         /\ DIB_HIT' = Left(DIB_HIT)
         /\ DIB' = Seqs!FoldLeft(LAMBDA t, e : Fill(t, program[e.id].window), DIB, Taken(DECODE))
         /\ fetch_resume' = IF \E e \in Entries(Taken(DECODE)) : SeenAtDecode(e)
                            THEN BRANCH_MISPREDICT_PENALTY ELSE fetch_resume
  /\ stage' = "promote"
  /\ UNCHANGED <<program, input, IFETCH, asked, returned, dispatched, unresolved, scan, budget>>

(* promote_to_decode: the fetched instructions at the head part, decoded *)
(* ones to the DIB hit buffer, the others to the decode buffer.          *)
PromoteWidth ==
  Lesser(FETCH_WIDTH, Lesser(DIB_HIT_BUFFER_SIZE - Len(DIB_HIT), DECODE_BUFFER_SIZE - Len(DECODE)))
Promote ==
  /\ stage = "promote"
  /\ LET n == Greatest({k \in 0 .. Lesser(Len(IFETCH), PromoteWidth) :
                          \A i \in 1 .. k : IFETCH[i].fetch_completed})
         hits == {i \in 1 .. n : IFETCH[i].decoded}
         Mark(s, latency) == [i \in DOMAIN s |-> [s[i] EXCEPT !.wait = latency]]
     IN  /\ DIB_HIT' = DIB_HIT \o Mark(At(IFETCH, hits), DIB_HIT_LATENCY)
         /\ DECODE' = DECODE \o Mark(At(IFETCH, (1 .. n) \ hits), DECODE_LATENCY)
         /\ IFETCH' = Drop(IFETCH, n)
  /\ stage' = "fetch"
  /\ scan' = 1
  /\ budget' = [fetch |-> 0, l1i |-> L1I_BANDWIDTH]
  /\ UNCHANGED <<program, input, DISPATCH, DIB, fetch_resume, asked, returned, dispatched, unresolved>>

--------------------------------------------------------------------------------
(* fetch_instruction: the next chunk of one block whose first instruction  *)
(* has been checked against the DIB and not sent; the rest of the chunk    *)
(* need not be either, and DIB hits are sent with it.                      *)
ChunkStarts ==
  {i \in DOMAIN IFETCH : i >= scan /\ IFETCH[i].dib_checked /\ ~IFETCH[i].fetch_issued}
block(i) == program[IFETCH[i].id].block
ChunkEnd(b) == Least({j \in b .. Len(IFETCH) :
                        j = Len(IFETCH) \/ block(j + 1) # block(j)})

ChunkIds(b, e) == [k \in 1 .. e - b + 1 |-> IFETCH[b + k - 1].id]

FetchChunk(accepted) ==
  /\ stage = "fetch"
  /\ ChunkStarts # {} /\ budget.l1i > 0
  /\ LET b == Least(ChunkStarts)
         e == ChunkEnd(b)
     IN  /\ IFETCH' = [i \in DOMAIN IFETCH |->
                         IF accepted /\ i \in b .. e
                         THEN [IFETCH[i] EXCEPT !.fetch_issued = TRUE] ELSE IFETCH[i]]
         /\ asked' = IF accepted THEN Append(asked, [block |-> block(b), ids |-> ChunkIds(b, e)]) ELSE asked
         /\ scan' = e + 1
  /\ budget' = [budget EXCEPT !.l1i = @ - 1]
  /\ UNCHANGED <<program, input, DIB_HIT, DECODE, DISPATCH, DIB, fetch_resume, returned,
                 dispatched, unresolved, stage>>

EndFetch ==
  /\ stage = "fetch"
  /\ ChunkStarts = {} \/ budget.l1i = 0
  /\ stage' = "check_dib"
  /\ UNCHANGED <<program, input, buffers, DIB, fetch_resume, asked, returned, dispatched,
                 unresolved, scan, budget>>

(* check_dib: up to FETCH_WIDTH instructions from the first unchecked one; *)
(* a hit counts as a use of the window.                                    *)
CheckDib ==
  /\ stage = "check_dib"
  /\ LET unchecked == {i \in DOMAIN IFETCH : ~IFETCH[i].dib_checked}
         first  == IF unchecked = {} THEN Len(IFETCH) + 1 ELSE Least(unchecked)
         last   == Lesser(Len(IFETCH), first + FETCH_WIDTH - 1)
         Hit(i) == program[IFETCH[i].id].window \in Entries(DIB)
     IN  /\ IFETCH' = [i \in DOMAIN IFETCH |->
                         IF i \in first .. last
                         THEN [IFETCH[i] EXCEPT !.dib_checked = TRUE,
                                 !.fetch_completed = @ \/ Hit(i),
                                 !.decoded = @ \/ Hit(i)]
                         ELSE IFETCH[i]]
         /\ DIB' = Seqs!FoldLeft(LAMBDA t, e : IF program[e.id].window \in Entries(t)
                                          THEN Fill(t, program[e.id].window) ELSE t,
                            DIB, SubSeq(IFETCH, first, last))
  /\ stage' = "initialize"
  /\ budget' = [fetch |-> Lesser(FETCH_WIDTH, IFETCH_BUFFER_SIZE - Len(IFETCH)), l1i |-> 0]
  /\ UNCHANGED <<program, input, DIB_HIT, DECODE, DISPATCH, fetch_resume, asked, returned,
                 dispatched, unresolved, scan>>

--------------------------------------------------------------------------------
(* initialize_instruction *)

Reading == fetch_resume = 0 /\ budget.fetch > 0 /\ input <= Len(program)

(* do_predict_branch: the direction predicted, and whether the target of the *)
(* BTB, which counts only for a branch predicted taken, is the right one.    *)
Mispredicted(i, taken, right) ==
  /\ i.branch # "none"
  /\ IF i.taken THEN ~(taken /\ right) ELSE taken

StopFetch(i, wrong) == wrong \/ (i.branch # "none" /\ i.taken)

ResumeTime(wrong) == IF wrong THEN Never ELSE fetch_resume

InitInstruction(taken, right) ==
  /\ stage = "initialize"
  /\ Reading
  /\ program[input].branch = "none" => ~taken /\ ~right
  /\ ~taken => ~right
  /\ LET wrong == Mispredicted(program[input], taken, right)
     IN  /\ IFETCH' = Append(IFETCH,
              [id |-> input, dib_checked |-> FALSE, fetch_issued |-> FALSE,
               fetch_completed |-> FALSE, decoded |-> FALSE, wait |-> 0,
               branch_prediction |-> taken, branch_mispredicted |-> wrong])
         /\ fetch_resume' = ResumeTime(wrong)
         /\ budget' = [budget EXCEPT !.fetch = IF StopFetch(program[input], wrong)
                                               THEN 0 ELSE @ - 1]
  /\ input' = input + 1
  /\ UNCHANGED <<program, DIB_HIT, DECODE, DISPATCH, DIB, asked, returned, dispatched,
                 unresolved, stage, scan>>

(* The cycle ends: time moves every ready_time one cycle closer. *)
EndCycle ==
  /\ stage = "initialize"
  /\ ~Reading
  /\ LET Tick(w) == IF w = 0 THEN 0 ELSE w - 1
         Ticked(s) == [i \in DOMAIN s |-> [s[i] EXCEPT !.wait = Tick(@)]]
     IN  /\ DIB_HIT' = Ticked(DIB_HIT)
         /\ DECODE' = Ticked(DECODE)
         /\ DISPATCH' = Ticked(DISPATCH)
         /\ fetch_resume' = IF fetch_resume = Never THEN Never ELSE Tick(fetch_resume)
  /\ stage' = "complete"
  /\ budget' = [fetch |-> 0, l1i |-> 0]
  /\ UNCHANGED <<program, input, IFETCH, DIB, asked, returned, dispatched, unresolved, scan>>

(* The L1I, between two cycles, answers requests for one block together. *)
Answer(S) ==
  /\ stage = "complete"
  /\ S \subseteq DOMAIN asked /\ S # {}
  /\ \A i, j \in S : asked[i].block = asked[j].block
  /\ LET served == [i \in DOMAIN asked |-> IF i \in S THEN asked[i].ids ELSE <<>>]
         first  == Least(S)
     IN  returned' = Append(returned, [block |-> asked[first].block, ids |-> Seqs!FlattenSeq(served)])
  /\ asked' = At(asked, DOMAIN asked \ S)
  /\ UNCHANGED <<program, input, buffers, DIB, fetch_resume, dispatched, unresolved,
                 stage, scan, budget>>

Next ==
  \/ \E B \in SUBSET unresolved : Complete(B)
  \/ ServeInstruction \/ PopResponse \/ EndReturn
  \/ \E n \in 0 .. Len(DISPATCH) : Dispatch(n)
  \/ Decode \/ Promote
  \/ \E accepted \in BOOLEAN : FetchChunk(accepted)
  \/ EndFetch \/ CheckDib
  \/ \E taken, right \in BOOLEAN : InitInstruction(taken, right)
  \/ EndCycle
  \/ \E S \in SUBSET DOMAIN asked : Answer(S)

Spec == Init /\ [][Next]_vars

(* The clock keeps ticking; branches are resolved and ready instructions    *)
(* dispatched some day; the L1I does not refuse for good and answers.       *)
FairSpec ==
  /\ Spec
  /\ WF_vars(\E B \in SUBSET unresolved : Complete(B))
  /\ WF_vars(ServeInstruction) /\ WF_vars(PopResponse) /\ WF_vars(EndReturn)
  /\ WF_vars(\E n \in 0 .. Len(DISPATCH) : Dispatch(n))
  /\ WF_vars(Decode) /\ WF_vars(Promote)
  /\ WF_vars(\E accepted \in BOOLEAN : FetchChunk(accepted))
  /\ WF_vars(EndFetch) /\ WF_vars(CheckDib)
  /\ WF_vars(\E taken, right \in BOOLEAN : InitInstruction(taken, right))
  /\ WF_vars(EndCycle)
  /\ SF_vars(Complete(unresolved) /\ unresolved # {})
  /\ SF_vars(\E n \in 1 .. Len(DISPATCH) : Dispatch(n))
  /\ SF_vars(FetchChunk(TRUE))
  /\ SF_vars(\E S \in SUBSET DOMAIN asked : 1 \in S /\ Answer(S))

--------------------------------------------------------------------------------
(* Properties *)

Pipeline == <<DISPATCH, DIB_HIT, DECODE, IFETCH>>

(* The two ways through decode never overtake each other: instructions     *)
(* reach the ROB in program order, and what is still in the front end is   *)
(* every other instruction read so far, each exactly once.                 *)
ProgramOrder ==
  /\ \A i \in DOMAIN DISPATCH : DISPATCH[i].id = dispatched + i
  /\ \A i \in DOMAIN IFETCH : IFETCH[i].id = input - 1 - Len(IFETCH) + i
  /\ {e.id : e \in Entries(DIB_HIT) \cup Entries(DECODE)}
       = dispatched + Len(DISPATCH) + 1 .. input - 1 - Len(IFETCH)
  /\ Len(DIB_HIT) + Len(DECODE) = input - 1 - Len(IFETCH) - dispatched - Len(DISPATCH)

(* Fetch is stopped exactly while one mispredicted branch is on its way,    *)
(* and nothing younger than that branch has been read: fetch is never       *)
(* resumed twice for one branch nor stopped with nobody left to resume it.  *)
MispredictedInFlight ==
  unresolved \cup
    {e.id : e \in {f \in UNION {Entries(Pipeline[k]) : k \in 1 .. 4} : f.branch_mispredicted}}
StopsBehindMispredict ==
  MispredictedInFlight = IF fetch_resume = Never THEN {input - 1} ELSE {}

(* Every instruction of the program is dispatched, whatever is predicted,   *)
(* hit, refused or full.                                                    *)
EverythingDispatched == <>(dispatched = Len(program))
===============================================================================
