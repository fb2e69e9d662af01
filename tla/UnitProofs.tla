------------------------------ MODULE UnitProofs ------------------------------
(***************************************************************************)
(* Proofs about the sequential parts that one run drives side by side: the *)
(* search of agent_loop.py and the CHIA prefetcher it tunes, the phases of *)
(* champsim.cc and the trace reader that feeds them, lru_table, the        *)
(* replacement policies, the branch target buffer, the signature path      *)
(* prefetcher and the line prefetchers - for any genomes, programs,        *)
(* phases, traces, hashes, accesses and sizes of the tables.               *)
(***************************************************************************)
EXTENDS AgentLoop, CustomPref, Simulation, TraceReader, BranchTargets, Replacement,
        SignaturePath, LinePrefetchers, PositionProofs, TLAPS

(* The search loop *)

SearchedGenomes == AgentGenomes \cup {AgentDefault}
Results == {Failed} \cup {LoadedConfiguration(genome) : genome \in SearchedGenomes}
Records == [generation : Nat, genome : SearchedGenomes, average_of : SUBSET (1 .. AgentTraces),
            trace_results : Seq(Results)]

AgentTypes ==
  /\ genome_file.state = "whole" => genome_file.content \in SearchedGenomes
  /\ history_file.state \in {"missing", "broken", "whole"}
  /\ current_genome \in SearchedGenomes /\ gen \in Nat
  /\ search_history \in Seq(Records) /\ written \in Seq(Records)
  /\ trace_results \in Seq(Results) /\ Len(trace_results) <= AgentTraces

(* While traces run, the file holds the genome they are run with, and what     *)
(* they gave so far was measured under it.                                     *)
Measuring ==
  main = "simulate" =>
    /\ genome_file = Whole(current_genome)
    /\ \A t \in DOMAIN trace_results :
         trace_results[t] \in {Failed, LoadedConfiguration(current_genome)}

(* The history in memory is what has been written, but for the record that is  *)
(* about to be.                                                                *)
InMemory ==
  /\ main \notin {"down", "dump history"} => search_history = written
  /\ main = "dump history" =>
       \E r \in Records : IsTrue(r) /\ search_history = Append(written, r)

AgentInv == AgentTypes /\ Measuring /\ InMemory /\ SearchIsRecorded

-------------------------------------------------------------------------------
(* What the prover needs to know of the empty sequence. *)
LEMMA EmptyResults == \A S : <<>> \in Seq(S) /\ Len(<<>>) = 0 /\ \A i : i \notin DOMAIN <<>>
<1>1. \A S : <<>> \in Seq(S) /\ Len(<<>>) = 0
  OBVIOUS
<1>2. DOMAIN <<>> = 1 .. 0
  BY <1>1
<1> QED BY <1>1, <1>2

LEMMA NoResults == <<>> \in Seq(Results) /\ Len(<<>>) <= AgentTraces
  BY AgentAssumption, EmptyResults

(* A record made at the end of the traces says what was measured. *)
LEMMA RecordIsTrue ==
  ASSUME AgentInv, main = "simulate", Len(trace_results) = AgentTraces
  PROVE  run_record \in Records /\ IsTrue(run_record)
<1>1. DOMAIN trace_results = 1 .. AgentTraces
  BY DEF AgentInv, AgentTypes
<1>2. Valid(trace_results) = {t \in 1 .. AgentTraces : trace_results[t] # Failed}
  BY <1>1 DEF Valid
<1>3. \A t \in Valid(trace_results) : trace_results[t] = LoadedConfiguration(current_genome)
  BY <1>1, <1>2 DEF AgentInv, Measuring
<1>4. run_record \in Records
  BY <1>2 DEF run_record, Records, AgentInv, AgentTypes
<1>5. IsTrue(run_record)
  BY <1>2, <1>3 DEF IsTrue, run_record
<1> QED BY <1>4, <1>5

LEMMA AgentInvHolds == AgentInit => AgentInv
<1> SUFFICES ASSUME AgentInit PROVE AgentInv
  OBVIOUS
<1> USE AgentAssumption
<1>1. AgentTypes
  BY DEF AgentInit, AgentTypes, Missing, Whole, SearchedGenomes
<1>2. Measuring /\ InMemory
  BY DEF AgentInit, Measuring, InMemory
<1>3. SearchIsRecorded
  BY DEF AgentInit, SearchIsRecorded, RecordsAreTrue, Missing
<1> QED BY <1>1, <1>2, <1>3 DEF AgentInv

LEMMA AgentInvKept == AgentInv /\ [AgentNext]_agentVars => AgentInv'
<1> SUFFICES ASSUME AgentInv, [AgentNext]_agentVars PROVE AgentInv'
  OBVIOUS
<1> USE AgentAssumption DEF AgentInv
<1>1. CASE StartSearch
  <2>1. search_history' = written' /\ written' \in Seq(Records)
    <3>1. CASE history_file.state = "whole"
      BY <1>1, <3>1 DEF StartSearch, read_json, SearchIsRecorded, AgentTypes
    <3>2. CASE history_file.state = "missing"
      BY <1>1, <3>2 DEF StartSearch, read_json, SearchIsRecorded, AgentTypes
    <3>3. CASE history_file.state = "broken"
      <4>1. search_history' = <<>> /\ written' = <<>>
        BY <1>1, <3>3 DEF StartSearch, read_json
      <4>2. <<>> \in Seq(Records)
        OBVIOUS
      <4> QED BY <4>1, <4>2
    <3> QED BY <3>1, <3>2, <3>3 DEF AgentTypes
  <2>2. AgentTypes'
    <3>1. current_genome' \in SearchedGenomes
      BY <1>1 DEF StartSearch, read_json, AgentTypes, SearchedGenomes
    <3>2. trace_results' \in Seq(Results) /\ Len(trace_results') <= AgentTraces
      BY <1>1, NoResults DEF StartSearch
    <3> QED BY <1>1, <2>1, <3>1, <3>2 DEF StartSearch, AgentTypes
  <2>3. Measuring' /\ InMemory'
    BY <1>1, <2>1 DEF StartSearch, Measuring, InMemory
  <2>4. SearchIsRecorded'
    <3>1. RecordsAreTrue'
      <4>1. CASE written' = <<>>
        BY <4>1, EmptyResults DEF RecordsAreTrue
      <4>2. CASE written' = written
        BY <4>2 DEF SearchIsRecorded, RecordsAreTrue, IsTrue
      <4> QED BY <1>1, <4>1, <4>2 DEF StartSearch
    <3> QED BY <1>1, <3>1 DEF StartSearch, SearchIsRecorded
  <2> QED BY <2>2, <2>3, <2>4
<1>2. CASE OpenGenome
  <2>1. AgentTypes'
    <3>1. genome_file'.state # "whole"
      BY <1>2 DEF OpenGenome, Broken
    <3> QED BY <1>2, <3>1 DEF OpenGenome, memory, AgentTypes
  <2>2. Measuring' /\ InMemory' /\ SearchIsRecorded'
    BY <1>2 DEF OpenGenome, memory, Measuring, InMemory, SearchIsRecorded, RecordsAreTrue, IsTrue
  <2> QED BY <2>1, <2>2
<1>3. CASE DumpGenome
  <2>1. AgentTypes'
    <3>1. genome_file'.content \in SearchedGenomes
      BY <1>3 DEF DumpGenome, Whole, AgentTypes
    <3> QED BY <1>3, <3>1, NoResults DEF DumpGenome, AgentTypes
  <2>2. Measuring'
    <3>1. \A t : t \notin DOMAIN trace_results'
      BY <1>3, EmptyResults DEF DumpGenome
    <3> QED BY <1>3, <3>1 DEF DumpGenome, Measuring
  <2>3. InMemory' /\ SearchIsRecorded'
    BY <1>3 DEF DumpGenome, InMemory, SearchIsRecorded, RecordsAreTrue
  <2> QED BY <2>1, <2>2, <2>3
<1>4. CASE RunTrace
  <2>1. PICK result \in {Failed, LoadedConfiguration(current_genome)} :
          trace_results' = Append(trace_results, result)
    BY <1>4 DEF RunTrace, Measuring, Whole
  <2>2. result \in Results
    BY <2>1 DEF Results, AgentTypes
  <2>3. AgentTypes'
    BY <1>4, <2>1, <2>2 DEF RunTrace, AgentTypes
  <2>4. \A t \in DOMAIN trace_results' :
          trace_results'[t] \in {Failed, LoadedConfiguration(current_genome)}
    BY <1>4, <2>1, <2>2 DEF RunTrace, AgentTypes, Measuring
  <2>5. Measuring'
    BY <1>4, <2>4 DEF RunTrace, Measuring
  <2>6. InMemory' /\ SearchIsRecorded'
    BY <1>4 DEF RunTrace, InMemory, SearchIsRecorded, RecordsAreTrue
  <2> QED BY <2>3, <2>5, <2>6
<1>5. CASE OpenHistory
  <2>1. run_record \in Records /\ IsTrue(run_record)
    BY <1>5, RecordIsTrue DEF OpenHistory
  <2>2. search_history' = Append(written, run_record) /\ written' = written
    BY <1>5 DEF OpenHistory, InMemory
  <2>3. AgentTypes'
    <3>1. search_history' \in Seq(Records)
      BY <2>1, <2>2 DEF AgentTypes
    <3>2. history_file'.state = "broken"
      BY <1>5 DEF OpenHistory, Broken
    <3> QED BY <1>5, <3>1, <3>2 DEF OpenHistory, AgentTypes
  <2>4. Measuring' /\ InMemory'
    BY <1>5, <2>1, <2>2 DEF OpenHistory, Measuring, InMemory
  <2>5. SearchIsRecorded'
    BY <1>5 DEF OpenHistory, SearchIsRecorded, RecordsAreTrue, Broken
  <2> QED BY <2>3, <2>4, <2>5
<1>6. CASE DumpHistory
  <2>1. PICK r \in Records : IsTrue(r) /\ search_history = Append(written, r)
    BY <1>6 DEF DumpHistory, InMemory
  <2>2. search_history[Len(search_history)] = r
    BY <2>1 DEF AgentTypes
  <2>3. written' = search_history /\ search_history' = search_history
    BY <1>6, <2>1, <2>2 DEF DumpHistory
  <2>4. AgentTypes'
    <3>1. history_file'.state = "whole"
      BY <1>6 DEF DumpHistory, Whole
    <3> QED BY <1>6, <2>3, <3>1 DEF DumpHistory, AgentTypes
  <2>5. Measuring' /\ InMemory'
    BY <1>6, <2>3 DEF DumpHistory, Measuring, InMemory
  <2>6. RecordsAreTrue'
    <3>1. \A i \in DOMAIN written' : written'[i] = r \/ (i \in DOMAIN written /\ written'[i] = written[i])
      BY <2>1, <2>3 DEF AgentTypes
    <3> QED BY <2>1, <3>1 DEF SearchIsRecorded, RecordsAreTrue, IsTrue
  <2>7. SearchIsRecorded'
    BY <1>6, <2>3, <2>6 DEF DumpHistory, SearchIsRecorded, Whole
  <2> QED BY <2>4, <2>5, <2>7
<1>7. ASSUME NEW g \in SearchedGenomes, main = "ask", NextGeneration(g) PROVE AgentInv'
  <2>1. AgentTypes'
    <3>1. gen' = gen + 1 /\ current_genome' = g
      BY <1>7 DEF NextGeneration
    <3>2. gen' \in Nat
      BY <3>1 DEF AgentTypes
    <3>3. current_genome' \in SearchedGenomes
      BY <3>1
    <3> QED BY <1>7, <3>2, <3>3 DEF NextGeneration, AgentTypes
  <2>2. Measuring' /\ InMemory' /\ SearchIsRecorded'
    BY <1>7 DEF NextGeneration, Measuring, InMemory, SearchIsRecorded, RecordsAreTrue
  <2> QED BY <2>1, <2>2
<1>8. CASE Answered
  BY <1>7, <1>8 DEF Answered, SearchedGenomes
<1>9. CASE Refused
  BY <1>7, <1>9 DEF Refused, AgentTypes
<1>10. CASE Busy
  BY <1>10 DEF Busy, AgentTypes, Measuring, InMemory, SearchIsRecorded, RecordsAreTrue
<1>11. CASE Crash
  <2>1. AgentTypes'
    BY <1>11 DEF Crash, AgentTypes, SearchedGenomes
  <2>2. Measuring' /\ InMemory' /\ SearchIsRecorded'
    BY <1>11 DEF Crash, Measuring, InMemory, SearchIsRecorded, RecordsAreTrue
  <2> QED BY <2>1, <2>2
<1>12. CASE UNCHANGED agentVars
  BY <1>12 DEF agentVars, memory, AgentTypes, Measuring, InMemory, SearchIsRecorded, RecordsAreTrue
<1> QED
  BY <1>1, <1>2, <1>3, <1>4, <1>5, <1>6, <1>8, <1>9, <1>10, <1>11, <1>12 DEF AgentNext

(* Every record of the history tells what was measured under the genome it     *)
(* names, and no record is lost but by a crash while the history is rewritten, *)
(* in main() of agent_loop.py, however often it dies and is started again.     *)
THEOREM SearchRecorded == AgentSpec => []SearchIsRecorded
<1>1. AgentInv => SearchIsRecorded
  BY DEF AgentInv
<1> QED BY <1>1, AgentInvHolds, AgentInvKept, PTL DEF AgentSpec

-------------------------------------------------------------------------------
(* The simulation loop *)

Reports == [roi : [Operables -> Int], sim_events : [Devices -> Nat], phase : 1 .. Len(Phases),
            eof : BOOLEAN]

SimulationTypes ==
  /\ left \in [Cpus -> Nat \cup {Endless}]
  /\ phase \in Nat \ {0} /\ running \in BOOLEAN /\ aborted \in BOOLEAN
  /\ running => phase <= Len(Phases)
  /\ input_queue \in [Cpus -> 0 .. IN_QUEUE_SIZE]
  /\ num_retired \in [Cpus -> Nat] /\ begin_phase_instr \in [Cpus -> Nat]
  /\ phase_complete \in [Cpus -> BOOLEAN]
  /\ events \in [Devices -> Nat] /\ roi_stats \in [Operables -> Int]
  /\ results \in Seq(Reports)

(* What a processor may report of a phase of the given length. *)
OwnRegion(instrs, instructions, eof) ==
  /\ instrs < instructions + RETIRE_WIDTH \/ (instructions = 0 /\ instrs = RETIRE_WIDTH)
  /\ instrs >= instructions \/ eof

(* While a phase runs: who is not complete is below the length, or has done     *)
(* nothing yet; who is complete has taken its region already; and the others    *)
(* have taken theirs again when the last processor was complete.                *)
RegionsTaken ==
  running /\ ~aborted =>
    /\ \A c \in Cpus :
         IF phase_complete[c] THEN OwnRegion(roi_stats[c], Phases[phase].length, TracesEnd(left))
         ELSE \/ sim_instr(num_retired, c) < Phases[phase].length
              \/ sim_instr(num_retired, c) = 0
    /\ (\A c \in Cpus : phase_complete[c]) => \A o \in Devices : roi_stats[o] = events[o]

SimulationInv == SimulationTypes /\ RegionsTaken /\ RegionOfInterest

LEMMA PhaseTypes ==
  /\ Len(Phases) \in Nat \ {0}
  /\ \A p \in 1 .. Len(Phases) : Phases[p].length \in Nat /\ Phases[p].is_warmup \in BOOLEAN
<1>1. Phases \in Seq([is_warmup : BOOLEAN, length : Nat]) /\ Phases # <<>>
  BY SimulationAssumption
<1>2. Len(Phases) \in Nat \ {0}
  BY <1>1, EmptySeq
<1>3. \A p \in 1 .. Len(Phases) : Phases[p] \in [is_warmup : BOOLEAN, length : Nat]
  BY <1>1, ElementOfSeq
<1> QED BY <1>2, <1>3

LEMMA SimulationStarts == SimulationInit => SimulationInv
<1> SUFFICES ASSUME SimulationInit PROVE SimulationInv
  OBVIOUS
<1>1. SimulationTypes
  <2>1. <<>> \in Seq(Reports)
    BY EmptySeq
  <2>2. left \in [Cpus -> Nat \cup {Endless}]
    BY SimulationAssumption DEF SimulationInit
  <2>3. input_queue \in [Cpus -> 0 .. IN_QUEUE_SIZE]
    BY SimulationAssumption DEF SimulationInit
  <2>4. /\ phase \in Nat \ {0} /\ running \in BOOLEAN /\ aborted \in BOOLEAN
        /\ running => phase <= Len(Phases)
    <3>1. phase = 1
      BY DEF SimulationInit
    <3>2. running = FALSE /\ aborted = FALSE
      BY DEF SimulationInit
    <3>3. running \in BOOLEAN /\ aborted \in BOOLEAN /\ ~running
      BY <3>2, Zenon
    <3> QED BY <3>1, <3>3
  <2>5. /\ num_retired \in [Cpus -> Nat] /\ begin_phase_instr \in [Cpus -> Nat]
        /\ phase_complete \in [Cpus -> BOOLEAN] /\ events \in [Devices -> Nat]
        /\ roi_stats \in [Operables -> Int]
    BY DEF SimulationInit
  <2>6. results \in Seq(Reports)
    BY <2>1 DEF SimulationInit
  <2> QED BY <2>2, <2>3, <2>4, <2>5, <2>6 DEF SimulationTypes
<1>2. RegionsTaken
  BY DEF SimulationInit, RegionsTaken
<1>3. RegionOfInterest
  <2>1. DOMAIN <<>> = {}
    OBVIOUS
  <2> QED BY <2>1 DEF SimulationInit, RegionOfInterest
<1> QED BY <1>1, <1>2, <1>3 DEF SimulationInv

LEMMA BeginPhaseKeeps ==
  ASSUME SimulationInv, BeginPhase
  PROVE  SimulationInv'
<1>1. SimulationTypes /\ RegionsTaken /\ RegionOfInterest
  BY DEF SimulationInv
<1>2. SimulationTypes'
  <2>1. roi_stats' \in [Operables -> Int]
    BY <1>1 DEF BeginPhase, SimulationTypes
  <2> QED BY <1>1, <2>1 DEF BeginPhase, SimulationTypes
<1>3. RegionsTaken'
  <2>1. \A c \in Cpus : ~phase_complete'[c] /\ sim_instr(num_retired, c)' = 0
    BY <1>1 DEF BeginPhase, SimulationTypes, sim_instr
  <2>2. \E c \in Cpus : TRUE
    BY SimulationAssumption
  <2> QED BY <2>1, <2>2 DEF RegionsTaken
<1>4. RegionOfInterest'
  BY <1>1 DEF BeginPhase, RegionOfInterest
<1> QED BY <1>2, <1>3, <1>4 DEF SimulationInv

LEMMA FinishPhaseKeeps ==
  ASSUME SimulationInv, FinishPhase
  PROVE  SimulationInv'
<1>1. SimulationTypes /\ RegionsTaken /\ RegionOfInterest
  BY DEF SimulationInv
<1> DEFINE r == [roi |-> roi_stats, sim_events |-> events, phase |-> phase, eof |-> TracesEnd(left)]
<1>2. phase \in 1 .. Len(Phases)
  BY <1>1, PhaseTypes DEF FinishPhase, SimulationTypes
<1>3. r \in Reports
  <2>1. TracesEnd(left) \in BOOLEAN
    BY DEF TracesEnd
  <2> QED BY <1>1, <1>2, <2>1 DEF SimulationTypes, Reports
<1>4. results' = results \/ results' = Append(results, r)
  BY DEF FinishPhase
<1>5. /\ \A c \in Cpus : OwnRegion(r.roi[c], Phases[r.phase].length, r.eof)
      /\ \A o \in Devices : r.roi[o] = r.sim_events[o]
  BY <1>1 DEF FinishPhase, RegionsTaken
<1>6. r.roi \in [Operables -> Int] /\ Phases[r.phase].length \in Nat
  BY <1>1, <1>2, PhaseTypes DEF SimulationTypes
<1> HIDE DEF r
<1>7. SimulationTypes'
  <2>1. results' \in Seq(Reports)
    <3>1. results \in Seq(Reports)
      BY <1>1 DEF SimulationTypes
    <3>2. Append(results, r) \in Seq(Reports)
      BY <1>3, <3>1, AppendProperties
    <3> QED BY <1>4, <3>1, <3>2
  <2>2. /\ phase' = phase + 1 /\ running' = FALSE
        /\ UNCHANGED <<left, aborted, input_queue, num_retired, phase_complete,
                       begin_phase_instr, events, roi_stats>>
    BY DEF FinishPhase
  <2>3. phase' \in Nat \ {0}
    BY <1>1, <2>2 DEF SimulationTypes
  <2> QED BY <1>1, <2>1, <2>2, <2>3 DEF SimulationTypes
<1>8. RegionsTaken'
  BY DEF FinishPhase, RegionsTaken
<1>9. RegionOfInterest'
  <2>1. CASE results' = results
    BY <1>1, <2>1 DEF RegionOfInterest
  <2>2. CASE results' = Append(results, r)
    <3>1. /\ DOMAIN results = 1 .. Len(results) /\ Len(results) \in Nat
          /\ DOMAIN results' = 1 .. Len(results) + 1
          /\ \A i \in DOMAIN results : results'[i] = results[i]
          /\ results'[Len(results) + 1] = r
      BY <1>1, <1>3, <2>2 DEF SimulationTypes
    <3>2. \A i \in DOMAIN results' : i \in DOMAIN results \/ results'[i] = r
      BY <3>1
    <3>3. \A c \in Cpus : /\ \/ r.roi[c] < Phases[r.phase].length + RETIRE_WIDTH
                             \/ Phases[r.phase].length = 0 /\ r.roi[c] = RETIRE_WIDTH
                          /\ r.roi[c] >= Phases[r.phase].length \/ r.eof
      BY <1>5 DEF OwnRegion
    <3> QED BY <1>1, <1>5, <3>1, <3>2, <3>3 DEF RegionOfInterest
  <2> QED BY <1>4, <2>1, <2>2
<1> QED BY <1>7, <1>8, <1>9 DEF SimulationInv

LEMMA QuantumKeeps ==
  ASSUME SimulationInv,
         NEW retires \in [Cpus -> 0 .. RETIRE_WIDTH], NEW works \in SUBSET Devices,
         Quantum(retires, works)
  PROVE  SimulationInv'
<1>1. SimulationTypes /\ RegionsTaken /\ RegionOfInterest
  BY DEF SimulationInv
<1> DEFINE retired == [c \in Cpus |-> num_retired[c] + retires[c]]
           seen == [o \in Devices |-> events[o] + IF o \in works THEN 1 ELSE 0]
           queues == [c \in Cpus |-> input_queue[c] - retires[c]]
           reads == [c \in Cpus |-> Reads(c, queues[c])]
           remaining == [c \in Cpus |-> IF left[c] = Endless THEN Endless ELSE left[c] - reads[c]]
           complete == [c \in Cpus |-> \/ phase_complete[c] \/ TracesEnd(remaining)
                                       \/ sim_instr(retired, c) >= Phases[phase].length]
           finishes == {c \in Cpus : complete[c] # phase_complete[c]}
<1>2. /\ running /\ ~aborted /\ \E c \in Cpus : ~phase_complete[c]
      /\ \A c \in Cpus : retires[c] <= input_queue[c]
      /\ num_retired' = retired /\ events' = seen /\ left' = remaining
      /\ input_queue' = [c \in Cpus |-> queues[c] + reads[c]]
      /\ aborted' \in BOOLEAN
      /\ IF aborted' THEN UNCHANGED <<phase_complete, roi_stats>>
         ELSE phase_complete' = complete /\ EndPhase(finishes, retired, seen)
      /\ UNCHANGED <<phase, running, begin_phase_instr, results>>
  <2>1. aborted' \in BOOLEAN
    BY Zenon DEF Quantum
  <2>2. IF aborted' THEN UNCHANGED <<phase_complete, roi_stats>>
        ELSE phase_complete' = complete /\ EndPhase(finishes, retired, seen)
    BY Zenon DEF Quantum
  <2> QED BY <2>1, <2>2, Zenon DEF Quantum
<1>3. /\ retired \in [Cpus -> Nat] /\ seen \in [Devices -> Nat]
      /\ \A c \in Cpus : retired[c] = num_retired[c] + retires[c]
  BY <1>1, SimulationAssumption DEF SimulationTypes
<1>4. \A c \in Cpus : queues[c] \in 0 .. IN_QUEUE_SIZE
  <2> SUFFICES ASSUME NEW c \in Cpus PROVE input_queue[c] - retires[c] \in 0 .. IN_QUEUE_SIZE
    OBVIOUS
  <2>1. input_queue[c] \in 0 .. IN_QUEUE_SIZE
    BY <1>1 DEF SimulationTypes
  <2>2. retires[c] \in 0 .. RETIRE_WIDTH
    OBVIOUS
  <2>3. retires[c] <= input_queue[c]
    BY <1>2
  <2> QED BY <2>1, <2>2, <2>3, SimulationAssumption
<1>5. \A c \in Cpus :
        /\ reads[c] \in Nat /\ queues[c] + reads[c] \in 0 .. IN_QUEUE_SIZE
        /\ left[c] # Endless => reads[c] <= left[c]
  <2> SUFFICES ASSUME NEW c \in Cpus
               PROVE  LET n == Reads(c, queues[c])
                      IN  /\ n \in Nat /\ queues[c] + n \in 0 .. IN_QUEUE_SIZE
                          /\ left[c] # Endless => n <= left[c]
    OBVIOUS
  <2>1. queues[c] \in 0 .. IN_QUEUE_SIZE /\ IN_QUEUE_SIZE \in Nat /\ left[c] \in Nat \cup {Endless}
    BY <1>1, <1>4, SimulationAssumption DEF SimulationTypes
  <2> HIDE DEF queues
  <2> QED BY <2>1 DEF Reads, Lesser
<1>6. /\ remaining \in [Cpus -> Nat \cup {Endless}]
      /\ TracesEnd(left) => TracesEnd(remaining)
  <2> SUFFICES ASSUME NEW c \in Cpus
               PROVE  remaining[c] \in Nat \cup {Endless} /\ (left[c] = 0 => remaining[c] = 0)
    BY DEF TracesEnd
  <2>1. left[c] \in Nat \cup {Endless}
    BY <1>1 DEF SimulationTypes
  <2>2. remaining[c] = IF left[c] = Endless THEN Endless ELSE left[c] - reads[c]
    OBVIOUS
  <2> HIDE DEF reads, remaining
  <2> QED BY <1>5, <2>1, <2>2 DEF Endless
<1>7. /\ complete \in [Cpus -> BOOLEAN]
      /\ \A c \in Cpus : complete[c] <=> \/ phase_complete[c] \/ TracesEnd(remaining)
                                         \/ sim_instr(retired, c) >= Phases[phase].length
      /\ \A c \in Cpus : c \in finishes <=> complete[c] /\ ~phase_complete[c]
  <2>1. phase_complete \in [Cpus -> BOOLEAN]
    BY <1>1 DEF SimulationTypes
  <2>2. TracesEnd(remaining) \in BOOLEAN
    BY DEF TracesEnd
  <2>3. phase \in 1 .. Len(Phases)
    BY <1>1, <1>2, PhaseTypes DEF SimulationTypes
  <2> HIDE DEF retired, remaining
  <2>4. complete \in [Cpus -> BOOLEAN]
    BY <2>1, <2>2, <2>3, PhaseTypes
  <2> QED BY <2>1, <2>4
<1>8. \A c \in Cpus : sim_instr(num_retired, c) \in Int
                      /\ sim_instr(retired, c) = sim_instr(num_retired, c) + retires[c]
  BY <1>1, <1>3 DEF SimulationTypes, sim_instr
<1> HIDE DEF retired, seen, queues, reads, remaining, complete, finishes
<1>9. finishes \subseteq Cpus
  BY DEF finishes
<1>10. ~aborted' =>
         /\ roi_stats' \in [Operables -> Int]
         /\ \A c \in Cpus : roi_stats'[c] = IF c \in finishes THEN sim_instr(retired, c) ELSE roi_stats[c]
         /\ finishes # {} => \A o \in Devices : roi_stats'[o] = seen[o]
  <2> SUFFICES ASSUME ~aborted' PROVE
         /\ roi_stats' \in [Operables -> Int]
         /\ \A c \in Cpus : roi_stats'[c] = IF c \in finishes THEN sim_instr(retired, c) ELSE roi_stats[c]
         /\ finishes # {} => \A o \in Devices : roi_stats'[o] = seen[o]
    OBVIOUS
  <2>1. roi_stats' = [o \in Operables |->
                  CASE o \in finishes -> sim_instr(retired, o)
                    [] o \in Devices /\ finishes # {} -> seen[o]
                    [] OTHER -> roi_stats[o]]
    BY <1>2 DEF EndPhase
  <2>2. \A c \in Cpus : c \in Operables /\ c \notin Devices
    BY SimulationAssumption DEF Operables
  <2>3. \A o \in Devices : o \in Operables /\ o \notin finishes
    BY <1>9, <2>2 DEF Operables
  <2>4. \A c \in finishes : sim_instr(retired, c) \in Int
    <3>1. \A c \in Cpus : retires[c] \in Int
      BY SimulationAssumption
    <3> QED BY <1>8, <1>9, <3>1
  <2>5. \A c \in Cpus : roi_stats'[c] = IF c \in finishes THEN sim_instr(retired, c) ELSE roi_stats[c]
    BY <2>1, <2>2
  <2>6. finishes # {} => \A o \in Devices : roi_stats'[o] = seen[o]
    BY <2>1, <2>3
  <2>7. roi_stats \in [Operables -> Int]
    BY <1>1 DEF SimulationTypes
  <2>8. \A o \in Operables : roi_stats'[o] \in Int
    BY <1>3, <2>1, <2>4, <2>7
  <2>9. roi_stats' \in [Operables -> Int]
    BY <2>1, <2>8
  <2> QED BY <2>5, <2>6, <2>9
<1>11. SimulationTypes'
  <2>1. phase_complete' \in [Cpus -> BOOLEAN] /\ roi_stats' \in [Operables -> Int]
    BY <1>1, <1>2, <1>7, <1>10 DEF SimulationTypes
  <2>2. input_queue' \in [Cpus -> 0 .. IN_QUEUE_SIZE]
    BY <1>2, <1>5
  <2> QED BY <1>1, <1>2, <1>3, <1>6, <2>1, <2>2 DEF SimulationTypes
<1>12. RegionsTaken'
  <2> SUFFICES ASSUME ~aborted'
               PROVE  /\ \A c \in Cpus :
                           IF phase_complete'[c]
                           THEN OwnRegion(roi_stats'[c], Phases[phase].length, TracesEnd(left'))
                           ELSE \/ sim_instr(num_retired', c) < Phases[phase].length
                                \/ sim_instr(num_retired', c) = 0
                      /\ (\A c \in Cpus : phase_complete'[c]) =>
                           \A o \in Devices : roi_stats'[o] = events'[o]
    <3>1. \A c \in Cpus : sim_instr(num_retired, c)' = sim_instr(num_retired', c)
      BY <1>2 DEF sim_instr
    <3> QED BY <1>2, <3>1 DEF RegionsTaken
  <2>1. ASSUME NEW c \in Cpus
        PROVE  IF phase_complete'[c]
               THEN OwnRegion(roi_stats'[c], Phases[phase].length, TracesEnd(left'))
               ELSE \/ sim_instr(num_retired', c) < Phases[phase].length
                    \/ sim_instr(num_retired', c) = 0
    <3>1. Phases[phase].length \in Nat
      BY <1>1, <1>2, PhaseTypes DEF SimulationTypes
    <3>2. /\ phase_complete'[c] <=> \/ phase_complete[c] \/ TracesEnd(remaining)
                                    \/ sim_instr(retired, c) >= Phases[phase].length
          /\ c \in finishes <=> phase_complete'[c] /\ ~phase_complete[c]
      BY <1>2, <1>7
    <3>3. retires[c] \in Nat /\ retires[c] <= RETIRE_WIDTH /\ RETIRE_WIDTH \in Nat
      BY SimulationAssumption
    <3>4. sim_instr(num_retired, c) \in Int
          /\ sim_instr(retired, c) = sim_instr(num_retired, c) + retires[c]
      BY <1>8
    <3>5. CASE ~phase_complete'[c]
      BY <1>2, <3>1, <3>2, <3>3, <3>4, <3>5
    <3>6. CASE phase_complete[c]
      <4>1. OwnRegion(roi_stats[c], Phases[phase].length, TracesEnd(left))
        BY <1>1, <1>2, <3>6 DEF RegionsTaken
      <4>2. roi_stats'[c] = roi_stats[c] /\ phase_complete'[c]
        BY <1>10, <3>2, <3>6
      <4> QED BY <1>2, <1>6, <4>1, <4>2 DEF OwnRegion
    <3>7. CASE phase_complete'[c] /\ ~phase_complete[c]
      <4>1. roi_stats'[c] = sim_instr(retired, c)
        BY <1>10, <3>2, <3>7
      <4>2. sim_instr(num_retired, c) < Phases[phase].length \/ sim_instr(num_retired, c) = 0
        BY <1>1, <1>2, <3>7 DEF RegionsTaken
      <4>3. sim_instr(retired, c) >= Phases[phase].length \/ TracesEnd(left')
        BY <1>2, <3>2, <3>7
      <4>4. \/ sim_instr(retired, c) < Phases[phase].length + RETIRE_WIDTH
            \/ Phases[phase].length = 0 /\ sim_instr(retired, c) = RETIRE_WIDTH
        BY <3>1, <3>3, <3>4, <4>2
      <4> QED BY <3>7, <4>1, <4>3, <4>4 DEF OwnRegion
    <3> QED BY <3>5, <3>6, <3>7
  <2>2. (\A c \in Cpus : phase_complete'[c]) => \A o \in Devices : roi_stats'[o] = events'[o]
    BY <1>2, <1>7, <1>10
  <2> QED BY <2>1, <2>2
<1>13. RegionOfInterest'
  BY <1>1, <1>2 DEF RegionOfInterest
<1> QED BY <1>11, <1>12, <1>13 DEF SimulationInv

LEMMA SimulationKeeps == SimulationInv /\ [SimulationNext]_simVars => SimulationInv'
<1> SUFFICES ASSUME SimulationInv, [SimulationNext]_simVars PROVE SimulationInv'
  OBVIOUS
<1>1. CASE UNCHANGED simVars
  <2>1. SimulationTypes' /\ RegionOfInterest'
    BY <1>1 DEF simVars, SimulationInv, SimulationTypes, RegionOfInterest
  <2>2. RegionsTaken'
    BY <1>1 DEF simVars, SimulationInv, RegionsTaken, sim_instr
  <2> QED BY <2>1, <2>2 DEF SimulationInv
<1> QED BY <1>1, BeginPhaseKeeps, FinishPhaseKeeps, QuantumKeeps DEF SimulationNext

(* Every processor reports the instructions of its own region, and the parts   *)
(* they share report theirs up to the end of the last one (do_phase).          *)
THEOREM RegionsReported == SimulationSpec => []RegionOfInterest
<1>1. SimulationInv => RegionOfInterest
  BY DEF SimulationInv
<1> QED BY <1>1, SimulationStarts, SimulationKeeps, PTL DEF SimulationSpec

-------------------------------------------------------------------------------
(* The trace reader *)

Instr == [position : Nat, target : Nat]

(* The instructions up to `from', in order, each but the last with its target. *)
Stretch(buffer, from) ==
  /\ buffer \in Seq(Instr) /\ Len(buffer) <= from
  /\ \A i \in 1 .. Len(buffer) : buffer[i].position = from - Len(buffer) + i
  /\ \A i \in 1 .. Len(buffer) - 1 : buffer[i].target = buffer[i].position + 1

(* Another instruction is left behind in the buffer until the end of the file *)
(* has been seen.                                                             *)
LeftBehind(buffer, from, eof) ==
  /\ from \in 0 .. length
  /\ eof => from = length
  /\ ~eof => Len(buffer) >= 1 \/ from = 0

TraceInv ==
  /\ length \in Nat \ {0} /\ reopened \in Nat
  /\ Stretch(instr_buffer, position) /\ LeftBehind(instr_buffer, position, stream_eof)
  /\ handed_out \in [position : Nat, target : Nat, instr_id : Int]
  /\ handed_out.position = position - Len(instr_buffer)
  /\ Len(instr_buffer) >= 1 \/ position = 0 => handed_out.target = handed_out.position + 1

LEMMA TraceStarts == TraceInit => TraceInv
<1> SUFFICES ASSUME TraceInit PROVE TraceInv
  OBVIOUS
<1>1. length \in Nat \ {0} /\ reopened \in Nat /\ position = 0 /\ stream_eof = FALSE
  BY TraceAssumption DEF TraceInit
<1>2. instr_buffer \in Seq(Instr) /\ Len(instr_buffer) = 0
  BY EmptySeq DEF TraceInit
<1>3. handed_out \in [position : Nat, target : Nat, instr_id : Int]
      /\ handed_out.position = 0 /\ handed_out.target = 1
  BY DEF TraceInit
<1>4. Stretch(instr_buffer, position)
  BY <1>1, <1>2 DEF Stretch
<1>5. LeftBehind(instr_buffer, position, stream_eof)
  BY <1>1 DEF LeftBehind
<1> QED BY <1>1, <1>2, <1>3, <1>4, <1>5 DEF TraceInv

(* A refill appends the next instructions of the file, and tells the last of *)
(* the old ones its target.                                                  *)
LEMMA Refilled ==
  ASSUME NEW old, NEW from \in Nat, Stretch(old, from), NEW count \in Nat
  PROVE  LET filled == SetBranchTargets(old, [i \in 1 .. count |-> [position |-> from + i, target |-> 0]])
         IN  Stretch(filled, from + count) /\ Len(filled) = Len(old) + count
<1> DEFINE new == [i \in 1 .. count |-> [position |-> from + i, target |-> 0]]
           all == old \o new
           filled == SetBranchTargets(old, new)
           n == Len(old)
<1>1. old \in Seq(Instr) /\ n \in Nat /\ n <= from
  BY DEF Stretch
<1>2. new \in Seq(Instr) /\ Len(new) = count
      /\ \A i \in 1 .. count : new[i].position = from + i
  BY DEF Instr
<1>3. /\ all \in Seq(Instr) /\ Len(all) = n + count
      /\ \A i \in 1 .. n + count : all[i] = IF i <= n THEN old[i] ELSE new[i - n]
  <2> HIDE DEF new
  <2> QED BY <1>1, <1>2, ConcatProperties
<1>4. \A i \in 1 .. n + count : all[i].position = from - n + i
  <2> SUFFICES ASSUME NEW i \in 1 .. n + count PROVE all[i].position = from - n + i
    OBVIOUS
  <2> HIDE DEF new, all
  <2>1. CASE i <= n
    <3>1. i \in 1 .. n
      BY <1>1, <2>1
    <3> QED BY <1>3, <2>1, <3>1 DEF Stretch
  <2>2. CASE i > n
    <3>1. i - n \in 1 .. count
      BY <1>1, <2>2
    <3>2. all[i] = new[i - n]
      BY <1>1, <1>3, <2>2
    <3> HIDE DEF n
    <3> QED BY <1>1, <1>2, <3>1, <3>2
  <2> QED BY <1>1, <2>1, <2>2
<1>5. \A i \in 1 .. n + count : all[i] \in Instr
  <2> HIDE DEF all
  <2> QED BY <1>3, ElementOfSeq
<1>6. filled = [i \in 1 .. n + count |->
         [all[i] EXCEPT !.target = IF i < n + count THEN all[i + 1].position ELSE @]]
  <2>1. DOMAIN all = 1 .. n + count
    <3> HIDE DEF all
    <3> QED BY <1>3
  <2> QED BY <1>3, <2>1 DEF SetBranchTargets
<1> HIDE DEF new, all, filled, n
<1>7. \A i \in 1 .. n + count :
        /\ filled[i] \in Instr /\ filled[i].position = from - n + i
        /\ i < n + count => filled[i].target = from - n + i + 1
  <2> SUFFICES ASSUME NEW i \in 1 .. n + count
               PROVE  /\ filled[i] \in Instr /\ filled[i].position = from - n + i
                      /\ i < n + count => filled[i].target = from - n + i + 1
    OBVIOUS
  <2>1. filled[i] = [all[i] EXCEPT !.target = IF i < n + count THEN all[i + 1].position ELSE @]
    BY <1>6
  <2>2. all[i] \in Instr /\ all[i].position = from - n + i
    BY <1>4, <1>5
  <2>3. i < n + count => all[i + 1].position = from - n + i + 1 /\ all[i + 1].position \in Nat
    <3> SUFFICES ASSUME i < n + count
                 PROVE  all[i + 1].position = from - n + i + 1 /\ all[i + 1].position \in Nat
      OBVIOUS
    <3>1. i + 1 \in 1 .. n + count
      BY <1>1
    <3>2. all[i + 1].position = from - n + (i + 1) /\ all[i + 1] \in Instr
      BY <1>4, <1>5, <3>1
    <3> QED BY <1>1, <3>2 DEF Instr
  <2> QED BY <2>1, <2>2, <2>3 DEF Instr
<1>8. filled \in Seq(Instr) /\ Len(filled) = n + count
  <2>1. filled \in [1 .. n + count -> Instr]
    BY <1>6, <1>7
  <2>2. n + count \in Nat
    BY <1>1
  <2> HIDE DEF Instr
  <2> QED BY <2>1, <2>2
<1>9. Stretch(filled, from + count)
  <2>1. \A i \in 1 .. Len(filled) : filled[i].position = from + count - Len(filled) + i
    BY <1>1, <1>7, <1>8
  <2>2. \A i \in 1 .. Len(filled) - 1 : filled[i].target = filled[i].position + 1
    BY <1>1, <1>7, <1>8
  <2> QED BY <1>1, <1>8, <2>1, <2>2 DEF Stretch
<1> QED BY <1>8, <1>9 DEF filled, new, n

(* The front of a stretch, and what is left. *)
LEMMA Handed ==
  ASSUME NEW filled, NEW from \in Nat, Stretch(filled, from), Len(filled) >= 1
  PROVE  /\ Stretch(Tail(filled), from) /\ Len(Tail(filled)) = Len(filled) - 1
         /\ filled[1] \in Instr /\ filled[1].position = from - Len(Tail(filled))
         /\ Len(Tail(filled)) >= 1 => filled[1].target = filled[1].position + 1
<1>1. filled \in Seq(Instr) /\ Len(filled) \in Nat /\ filled # <<>>
  BY EmptySeq DEF Stretch
<1>2. /\ Tail(filled) \in Seq(Instr) /\ Len(Tail(filled)) = Len(filled) - 1
      /\ \A i \in 1 .. Len(filled) - 1 : Tail(filled)[i] = filled[i + 1]
  BY <1>1, HeadTailProperties
<1>3. filled[1] \in Instr
  BY <1>1, ElementOfSeq
<1>4. filled[1].position = from - Len(filled) + 1
  BY <1>1 DEF Stretch
<1>5. Len(filled) - 1 >= 1 => filled[1].target = filled[1].position + 1
  BY <1>1 DEF Stretch
<1>6. Stretch(Tail(filled), from)
  <2> DEFINE rest == Tail(filled)
  <2>1. \A i \in 1 .. Len(filled) - 1 :
          rest[i].position = from - (Len(filled) - 1) + i
    <3> SUFFICES ASSUME NEW i \in 1 .. Len(filled) - 1
                 PROVE  rest[i].position = from - (Len(filled) - 1) + i
      OBVIOUS
    <3>1. i + 1 \in 1 .. Len(filled) /\ rest[i] = filled[i + 1]
      BY <1>1, <1>2
    <3>2. filled[i + 1].position = from - Len(filled) + (i + 1)
      BY <3>1 DEF Stretch
    <3> QED BY <1>1, <3>1, <3>2
  <2>2. \A i \in 1 .. Len(filled) - 2 : rest[i].target = rest[i].position + 1
    <3> SUFFICES ASSUME NEW i \in 1 .. Len(filled) - 2
                 PROVE  rest[i].target = rest[i].position + 1
      OBVIOUS
    <3>1. i + 1 \in 1 .. Len(filled) - 1 /\ rest[i] = filled[i + 1]
      BY <1>1, <1>2
    <3>2. filled[i + 1].target = filled[i + 1].position + 1
      BY <3>1 DEF Stretch
    <3> QED BY <3>1, <3>2
  <2> HIDE DEF rest
  <2>3. rest \in Seq(Instr) /\ Len(rest) = Len(filled) - 1
    BY <1>2 DEF rest
  <2>4. Len(filled) <= from
    BY DEF Stretch
  <2>5. Len(rest) <= from
    BY <1>1, <2>3, <2>4
  <2>6. \A i \in 1 .. Len(rest) : rest[i].position = from - Len(rest) + i
    BY <2>1, <2>3
  <2>7. \A i \in 1 .. Len(rest) - 1 : rest[i].target = rest[i].position + 1
    <3>1. Len(rest) - 1 = Len(filled) - 2
      BY <1>1, <2>3
    <3> QED BY <2>2, <3>1
  <2>8. Stretch(rest, from)
    BY <2>3, <2>5, <2>6, <2>7 DEF Stretch
  <2> QED BY <2>8 DEF rest
<1> QED BY <1>1, <1>2, <1>3, <1>4, <1>5, <1>6

(* One call of operator(): the next instruction, and the invariant again. *)
LEMMA HandOutInOrder ==
  ASSUME length \in Nat \ {0}, length' = length, reopened' \in Nat,
         handed_out.instr_id \in Int,
         NEW from \in Nat, NEW eof, NEW buffer,
         Stretch(buffer, from), LeftBehind(buffer, from, eof), ~TraceEof(eof, buffer),
         HandOut(from, eof, buffer)
  PROVE  /\ TraceInv'
         /\ handed_out'.position = from - Len(buffer) + 1
         /\ handed_out'.instr_id = handed_out.instr_id + 1
<1> DEFINE refill == Len(buffer) <= refresh_thresh
           missing == buffer_size - refresh_thresh
           count == IF length - from < missing THEN length - from ELSE missing
           new == [i \in 1 .. count |-> [position |-> from + i, target |-> 0]]
           filled == IF refill THEN SetBranchTargets(buffer, new) ELSE buffer
           to == IF refill THEN from + count ELSE from
<1>1. /\ position' = to
      /\ stream_eof' = IF refill THEN count < missing ELSE eof
      /\ instr_buffer' = Tail(filled)
      /\ handed_out' = [position |-> filled[1].position, target |-> filled[1].target,
                        instr_id |-> handed_out.instr_id + 1]
  BY DEF HandOut
<1>2. /\ refill => (stream_eof' <=> count < missing)
      /\ ~refill => (stream_eof' <=> eof)
  <2>1. stream_eof' = IF refill THEN count < missing ELSE eof
    BY <1>1
  <2> HIDE DEF refill, count, missing
  <2> QED BY <2>1, Zenon
<1>3. missing \in Nat /\ missing >= 2 /\ refresh_thresh \in Nat /\ refresh_thresh >= 1
  BY TraceAssumption
<1>4. Len(buffer) \in Nat /\ Len(buffer) <= from /\ from <= length
  BY DEF Stretch, LeftBehind
<1> HIDE DEF missing
<1>5. count \in Nat /\ count <= length - from
      /\ (count < missing => count = length - from)
      /\ (count >= missing => count = missing)
  BY <1>3, <1>4
<1> HIDE DEF count
<1>6. refill => ~eof
  BY DEF TraceEof
<1>7. refill => Stretch(filled, to) /\ Len(filled) = Len(buffer) + count
  BY <1>5, Refilled
<1>8. ~refill => Stretch(filled, to) /\ Len(filled) = Len(buffer)
  OBVIOUS
<1> HIDE DEF new, filled
<1>9. Stretch(filled, to) /\ to \in Nat /\ to <= length
      /\ to - Len(filled) = from - Len(buffer)
  BY <1>4, <1>5, <1>7, <1>8
<1>10. Len(filled) \in Nat /\ Len(filled) >= 1
  <2>1. CASE refill
    <3>1. Len(buffer) >= 1 \/ from = 0
      BY <1>6, <2>1 DEF LeftBehind
    <3>2. from = 0 => count >= 1
      BY <1>3, <1>5
    <3> QED BY <1>4, <1>5, <1>7, <2>1, <3>1, <3>2
  <2>2. CASE ~refill
    BY <1>3, <1>4, <1>8, <2>2
  <2> QED BY <2>1, <2>2
<1>11. /\ Stretch(Tail(filled), to) /\ Len(Tail(filled)) = Len(filled) - 1
       /\ filled[1] \in Instr /\ filled[1].position = to - Len(Tail(filled))
       /\ Len(Tail(filled)) >= 1 => filled[1].target = filled[1].position + 1
  BY <1>9, <1>10, Handed
<1>12. LeftBehind(instr_buffer, position, stream_eof)'
  <2>1. position' \in 0 .. length
    BY <1>1, <1>9
  <2>2. stream_eof' => position' = length
    <3>1. CASE refill
      BY <1>1, <1>2, <1>4, <1>5, <3>1
    <3>2. CASE ~refill
      <4>1. stream_eof' => eof
        BY <1>2, <3>2
      <4>2. eof => from = length
        BY DEF LeftBehind
      <4>3. position' = from
        BY <1>1, <3>2
      <4> QED BY <4>1, <4>2, <4>3
    <3> QED BY <3>1, <3>2
  <2>3. ~stream_eof' => Len(instr_buffer') >= 1
    <3> SUFFICES ASSUME ~stream_eof' PROVE Len(filled) >= 2
      BY <1>1, <1>10, <1>11
    <3>1. CASE refill
      <4>1. count >= 2
        BY <1>3, <1>5, <1>2, <3>1
      <4> QED BY <1>4, <1>5, <1>7, <3>1, <4>1
    <3>2. CASE ~refill
      BY <1>3, <1>4, <1>8, <3>2
    <3> QED BY <3>1, <3>2
  <2> QED BY <2>1, <2>2, <2>3 DEF LeftBehind
<1>13. handed_out' \in [position : Nat, target : Nat, instr_id : Int]
       /\ handed_out'.position = position' - Len(instr_buffer')
       /\ handed_out'.position = from - Len(buffer) + 1
       /\ handed_out'.instr_id = handed_out.instr_id + 1
  <2>1. handed_out' \in [position : Nat, target : Nat, instr_id : Int]
        /\ handed_out'.position = filled[1].position
        /\ handed_out'.instr_id = handed_out.instr_id + 1
    BY <1>1, <1>11 DEF Instr
  <2>2. filled[1].position = position' - Len(instr_buffer')
    BY <1>1, <1>11
  <2>3. filled[1].position = from - Len(buffer) + 1
    BY <1>4, <1>9, <1>10, <1>11
  <2> QED BY <2>1, <2>2, <2>3
<1>14. Len(instr_buffer') >= 1 \/ position' = 0 => handed_out'.target = handed_out'.position + 1
  <2>1. position' # 0
    BY <1>1, <1>4, <1>9, <1>10
  <2> QED BY <1>1, <1>11, <2>1
<1>15. Stretch(instr_buffer, position)'
  BY <1>1, <1>11
<1>16. TraceInv'
  BY <1>12, <1>13, <1>14, <1>15 DEF TraceInv
<1> QED BY <1>13, <1>16

LEMMA TraceStep ==
  ASSUME TraceInv, TraceNext
  PROVE  /\ TraceInv'
         /\ handed_out'.instr_id = handed_out.instr_id + 1
         /\ IF reopened' = reopened
            THEN handed_out'.position = handed_out.position + 1
                 /\ handed_out.target = handed_out'.position
            ELSE handed_out'.position = 1 /\ handed_out.position >= length - refresh_thresh
<1>1. /\ length \in Nat \ {0} /\ reopened \in Nat /\ length' = length
      /\ handed_out.instr_id \in Int /\ position \in Nat
      /\ Stretch(instr_buffer, position) /\ LeftBehind(instr_buffer, position, stream_eof)
      /\ handed_out.position = position - Len(instr_buffer) /\ handed_out.position \in Nat
      /\ Len(instr_buffer) \in Nat
  BY DEF TraceInv, TraceNext, LeftBehind, Stretch
<1>2. CASE /\ ~TraceEof(stream_eof, instr_buffer)
           /\ HandOut(position, stream_eof, instr_buffer)
           /\ UNCHANGED reopened
  <2>1. TraceInv' /\ handed_out'.position = position - Len(instr_buffer) + 1
        /\ handed_out'.instr_id = handed_out.instr_id + 1
    BY <1>1, <1>2, HandOutInOrder
  <2>2. Len(instr_buffer) >= 1 \/ position = 0
    <3>1. CASE stream_eof
      BY <1>1, <1>2, <3>1, TraceAssumption DEF TraceEof
    <3>2. CASE ~stream_eof
      BY <1>1, <3>2 DEF LeftBehind
    <3> QED BY <3>1, <3>2
  <2>3. handed_out.target = handed_out.position + 1
    BY <2>2 DEF TraceInv
  <2> QED BY <1>1, <1>2, <2>1, <2>3
<1>3. CASE /\ repeat /\ TraceEof(stream_eof, instr_buffer)
           /\ HandOut(0, FALSE, <<>>)
           /\ reopened' = reopened + 1
  <2>1. <<>> \in Seq(Instr) /\ Len(<<>>) = 0
    BY EmptySeq
  <2>2. Stretch(<<>>, 0) /\ LeftBehind(<<>>, 0, FALSE) /\ ~TraceEof(FALSE, <<>>)
    BY <1>1, <2>1 DEF Stretch, LeftBehind, TraceEof
  <2>3. reopened' \in Nat /\ reopened' # reopened
    BY <1>1, <1>3
  <2>4. TraceInv' /\ handed_out'.position = 0 - Len(<<>>) + 1
        /\ handed_out'.instr_id = handed_out.instr_id + 1
    BY <1>1, <1>3, <2>2, <2>3, HandOutInOrder
  <2>5. handed_out.position >= length - refresh_thresh
    <3>1. Len(instr_buffer) <= refresh_thresh /\ position = length
      BY <1>1, <1>3 DEF TraceEof, LeftBehind
    <3> QED BY <1>1, <3>1, TraceAssumption
  <2> QED BY <2>1, <2>3, <2>4, <2>5
<1> QED BY <1>2, <1>3 DEF TraceNext

LEMMA TraceKeeps == TraceInv /\ [TraceNext]_traceVars => TraceInv'
<1>1. ASSUME TraceInv, UNCHANGED traceVars PROVE TraceInv'
  BY <1>1 DEF traceVars, TraceInv, Stretch, LeftBehind
<1> QED BY <1>1, TraceStep

(* Whatever the length of the file and of the buffer: no instruction is skipped *)
(* or repeated at a refill, and each carries the right target (operator(),      *)
(* set_branch_targets).                                                         *)
THEOREM InstructionsAsTraced == TraceSpec => TraceInOrder
<1> DEFINE Step == /\ handed_out'.instr_id = handed_out.instr_id + 1
                   /\ IF reopened' = reopened
                      THEN handed_out'.position = handed_out.position + 1
                           /\ handed_out.target = handed_out'.position
                      ELSE handed_out'.position = 1 /\ handed_out.position >= length - refresh_thresh
<1>1. TraceInv /\ [TraceNext]_traceVars => [Step]_traceVars
  BY TraceStep
<1> HIDE DEF Step
<1>2. TraceSpec => [][Step]_traceVars
  BY <1>1, TraceStarts, TraceKeeps, PTL DEF TraceSpec
<1> QED BY <1>2 DEF Step, TraceInOrder

-------------------------------------------------------------------------------
(* The CHIA prefetcher *)

LoadedGenomes == Genomes \cup {DefaultGenome}
Blocks == 0 .. LINES - 1
StrideEntry == [last_addr : Blocks, last_stride : Int, confidence : 0 .. 3]
DeltaEntry == [last_addr : Blocks, delta_history : Int]

Prefetchers ==
  [active_genome : LoadedGenomes, current_degree : Nat, loaded : BOOLEAN,
   total_pref_issued : Nat, total_pref_useful : Nat,
   stride_table : [Ips -> StrideEntry], delta_table : [Ips -> DeltaEntry]]

CprefTypes ==
  /\ cpref \in Prefetchers
  /\ asked.accesses \in Nat
  /\ touched \in [Ips -> Seq(Blocks)]

(* What an entry remembers of the lines s of its instruction. *)
LastOf(s) == IF Len(s) > 1 THEN LastStep(s) ELSE 0
StrideRemembers(entry, s) ==
  /\ Len(s) > 0 /\ entry.last_addr = s[Len(s)] /\ entry.last_stride = LastOf(s)
  /\ (entry.confidence >= 1) <=> Repeats(s, 2)
  /\ (entry.confidence >= 2) <=> Repeats(s, 3)
DeltaRemembers(entry, s) ==
  Len(s) > 0 /\ entry.last_addr = s[Len(s)] /\ entry.delta_history = LastOf(s)

TablesRemember ==
  \A ip \in Ips :
    /\ ~cpref.loaded \/ pattern_type = "STRIDE" => StrideRemembers(cpref.stride_table[ip], touched[ip])
    /\ ~cpref.loaded \/ pattern_type = "DELTA" => DeltaRemembers(cpref.delta_table[ip], touched[ip])

CprefInv ==
  /\ CprefTypes /\ TablesRemember /\ PrefetchesFollowHistory
  /\ cpref.current_degree \in 1 .. cpref.active_genome.degree
  /\ ~cpref.loaded => asked.accesses = 0

LEMMA GenomeTypes == \A g \in LoadedGenomes : g.degree \in Nat \ {0} /\ g.distance \in Nat
  BY CustomPrefAssumption DEF LoadedGenomes, DefaultGenome

(* Learning one more line keeps an entry in step with the lines of its instruction. *)
LEMMA StrideTrained ==
  ASSUME NEW entry \in StrideEntry, NEW s \in Seq(Blocks), NEW line \in Blocks,
         StrideRemembers(entry, s)
  PROVE  /\ TrainStride(entry, line) \in StrideEntry
         /\ StrideRemembers(TrainStride(entry, line), Append(s, line))
<1> DEFINE t == Append(s, line)
           n == Len(s)
           stride == line - entry.last_addr
           same == stride = entry.last_stride /\ stride # 0
           new == TrainStride(entry, line)
<1>1. t \in Seq(Blocks) /\ Len(t) = n + 1 /\ t[n + 1] = line /\ \A i \in 1 .. n : t[i] = s[i]
  BY AppendProperties
<1>2. n \in Nat \ {0} /\ LINES \in Nat /\ \A i \in 1 .. n : s[i] \in Int
  BY CustomPrefAssumption DEF StrideRemembers, Blocks
<1>3. new.last_addr = line /\ new.last_stride = stride /\ stride \in Int
  BY <1>2 DEF TrainStride, StrideEntry, Blocks
<1>4. LastOf(t) = stride
  BY <1>1, <1>2 DEF LastOf, LastStep, StrideRemembers
<1>5. /\ Repeats(t, 2) <=> same
      /\ Repeats(t, 3) <=> same /\ Repeats(s, 2)
  BY <1>1, <1>2 DEF Repeats, LastOf, LastStep, StrideRemembers
<1>6. new.confidence = IF same THEN IF entry.confidence < 3 THEN entry.confidence + 1 ELSE 3 ELSE 0
  BY DEF TrainStride
<1>7. (new.confidence >= 1 <=> same) /\ (new.confidence >= 2 <=> same /\ entry.confidence >= 1)
      /\ new.confidence \in 0 .. 3
  BY <1>6 DEF StrideEntry
<1>8. new \in StrideEntry
  BY <1>3, <1>7 DEF StrideEntry, TrainStride
<1> QED BY <1>1, <1>2, <1>3, <1>4, <1>5, <1>7, <1>8 DEF StrideRemembers

LEMMA DeltaTrained ==
  ASSUME NEW entry \in DeltaEntry, NEW s \in Seq(Blocks), NEW line \in Blocks,
         DeltaRemembers(entry, s)
  PROVE  /\ TrainDelta(entry, line) \in DeltaEntry
         /\ DeltaRemembers(TrainDelta(entry, line), Append(s, line))
         /\ LastOf(s) \in Int
         /\ Repeats(Append(s, line), 2) <=>
              LastOf(s) = LastOf(Append(s, line)) /\ LastOf(s) # 0
<1> DEFINE t == Append(s, line)
           n == Len(s)
<1>1. t \in Seq(Blocks) /\ Len(t) = n + 1 /\ t[n + 1] = line /\ \A i \in 1 .. n : t[i] = s[i]
  BY AppendProperties
<1>2. n \in Nat \ {0} /\ LINES \in Nat /\ \A i \in 1 .. n : s[i] \in Int
  BY CustomPrefAssumption DEF DeltaRemembers, Blocks
<1>3. LastOf(t) = line - s[n] /\ LastOf(s) \in Int
  BY <1>1, <1>2 DEF LastOf, LastStep
<1>4. TrainDelta(entry, line) \in DeltaEntry /\ DeltaRemembers(TrainDelta(entry, line), t)
  BY <1>1, <1>2, <1>3 DEF TrainDelta, DeltaRemembers, DeltaEntry, Blocks
<1>5. Repeats(t, 2) <=> LastOf(s) = LastOf(t) /\ LastOf(s) # 0
  BY <1>1, <1>2 DEF Repeats, LastOf, LastStep
<1> QED BY <1>3, <1>4, <1>5

(* The throttle leaves a degree between one and the genome's. *)
LEMMA DegreeInRange ==
  ASSUME CprefInv, NEW useful \in Nat, NEW occupancy
  PROVE  BandwidthDegree(occupancy, AccuracyDegree(useful)) \in 1 .. cpref.active_genome.degree
<1> DEFINE degree == cpref.active_genome.degree
<1>1. degree \in Nat \ {0} /\ cpref.current_degree \in 1 .. degree
  BY GenomeTypes DEF CprefInv, CprefTypes, Prefetchers
<1>2. AccuracyDegree(useful) \in 1 .. degree
  BY <1>1 DEF AccuracyDegree
<1> QED BY <1>1, <1>2 DEF BandwidthDegree

LEMMA CprefStarts == CprefInit => CprefInv
<1> SUFFICES ASSUME CprefInit PROVE CprefInv
  OBVIOUS
<1>1. 0 \in Blocks /\ <<0>> \in Seq(Blocks) /\ Len(<<0>>) = 1
  BY CustomPrefAssumption DEF Blocks
<1>2. CprefTypes
  BY <1>1 DEF CprefInit, CprefTypes, Prefetchers, LoadedGenomes, StrideEntry, DeltaEntry
<1>3. \A ip \in Ips : /\ StrideRemembers(cpref.stride_table[ip], touched[ip])
                      /\ DeltaRemembers(cpref.delta_table[ip], touched[ip])
  BY <1>1 DEF CprefInit, StrideRemembers, DeltaRemembers, LastOf, Repeats
<1>4. asked.accesses = 0 /\ cpref.current_degree = 1 /\ cpref.active_genome.degree = 1
  BY DEF CprefInit, DefaultGenome
<1> QED BY <1>2, <1>3, <1>4 DEF CprefInv, TablesRemember, PrefetchesFollowHistory

(* The prefetcher with a genome that was read. *)
LoadedWith(p, g, d) == [p EXCEPT !.active_genome = g, !.current_degree = d, !.loaded = TRUE]

LEMMA Loaded ==
  ASSUME NEW p \in Prefetchers, NEW g \in LoadedGenomes, NEW d \in Nat
  PROVE  LET q == LoadedWith(p, g, d)
         IN  /\ q \in Prefetchers /\ q.active_genome = g /\ q.current_degree = d /\ q.loaded
             /\ q.stride_table = p.stride_table /\ q.delta_table = p.delta_table
  BY DEF Prefetchers, LoadedWith

LEMMA NotLoaded ==
  ASSUME NEW p \in Prefetchers
  PROVE  [p EXCEPT !.loaded = TRUE]
           = [p EXCEPT !.active_genome = p.active_genome, !.current_degree = p.current_degree, !.loaded = TRUE]
  BY DEF Prefetchers

LEMMA GenomeLoaded == CprefInv /\ load_genome => CprefInv'
<1> SUFFICES ASSUME CprefInv, load_genome PROVE CprefInv'
  OBVIOUS
<1>1. PICK g \in LoadedGenomes : \E d \in 1 .. g.degree : cpref' = LoadedWith(cpref, g, d)
  <2>1. cpref \in Prefetchers /\ cpref.active_genome \in LoadedGenomes
        /\ cpref.current_degree \in 1 .. cpref.active_genome.degree
    BY DEF CprefInv, CprefTypes, Prefetchers
  <2>2. ASSUME NEW g \in Genomes PROVE g \in LoadedGenomes /\ g.degree \in 1 .. g.degree
    BY GenomeTypes DEF LoadedGenomes
  <2>3. ASSUME cpref' = [cpref EXCEPT !.loaded = TRUE]
        PROVE  cpref' = LoadedWith(cpref, cpref.active_genome, cpref.current_degree)
    BY <2>1, <2>3, NotLoaded DEF LoadedWith
  <2>4. (\E g \in Genomes : cpref' = LoadedWith(cpref, g, g.degree)) \/ cpref' = [cpref EXCEPT !.loaded = TRUE]
    BY DEF load_genome, LoadedWith
  <2> QED BY <2>1, <2>2, <2>3, <2>4
<1>2. PICK d \in 1 .. g.degree : cpref' = LoadedWith(cpref, g, d)
  BY <1>1
<1>3. /\ cpref' \in Prefetchers /\ cpref'.active_genome = g /\ cpref'.current_degree = d
      /\ cpref'.loaded
      /\ cpref'.stride_table = cpref.stride_table /\ cpref'.delta_table = cpref.delta_table
  <2>1. d \in Nat /\ cpref \in Prefetchers
    BY GenomeTypes DEF CprefInv, CprefTypes
  <2> QED BY <1>2, <2>1, Loaded
<1>4. \A ip \in Ips : /\ StrideRemembers(cpref.stride_table[ip], touched[ip])
                      /\ DeltaRemembers(cpref.delta_table[ip], touched[ip])
  BY DEF CprefInv, TablesRemember, load_genome
<1>5. UNCHANGED <<touched, asked>> /\ asked.accesses = 0
  BY DEF CprefInv, load_genome
<1>6. TablesRemember'
  BY <1>3, <1>4, <1>5 DEF TablesRemember, StrideRemembers, DeltaRemembers, Repeats, LastOf, LastStep
<1>7. CprefTypes'
  BY <1>3, <1>5 DEF CprefInv, CprefTypes
<1>8. PrefetchesFollowHistory'
  BY <1>5 DEF PrefetchesFollowHistory
<1> QED BY <1>3, <1>5, <1>6, <1>7, <1>8 DEF CprefInv

(* One access, with the parts it is made of. *)
Recording(p, useful, degree, n, strides, deltas) ==
  [p EXCEPT !.total_pref_useful = useful, !.current_degree = degree, !.total_pref_issued = @ + n,
            !.stride_table = strides, !.delta_table = deltas]

LEMMA Recorded ==
  ASSUME NEW p \in Prefetchers, NEW useful \in Nat, NEW degree \in Nat, NEW n \in Nat,
         NEW strides \in [Ips -> StrideEntry], NEW deltas \in [Ips -> DeltaEntry]
  PROVE  LET q == Recording(p, useful, degree, n, strides, deltas)
         IN  /\ q \in Prefetchers /\ q.active_genome = p.active_genome /\ (p.loaded => q.loaded)
             /\ q.current_degree = degree /\ q.stride_table = strides /\ q.delta_table = deltas
<1> DEFINE new == Recording(p, useful, degree, n, strides, deltas)
<1>1. p.total_pref_issued + n \in Nat
  BY DEF Prefetchers
<1>2. PICK m \in Nat : m = p.total_pref_issued + n
  BY <1>1
<1>3. PICK r : r = [p EXCEPT !.total_pref_useful = useful, !.current_degree = degree,
                             !.total_pref_issued = m]
  OBVIOUS
<1>4. /\ r \in Prefetchers /\ r.active_genome = p.active_genome /\ (p.loaded => r.loaded)
      /\ r.current_degree = degree
  BY <1>3 DEF Prefetchers
<1>5. new = [r EXCEPT !.stride_table = strides, !.delta_table = deltas]
  BY <1>2, <1>3 DEF Recording
<1> HIDE DEF new
<1>6. /\ new \in Prefetchers /\ new.active_genome = p.active_genome /\ (p.loaded => new.loaded)
      /\ new.current_degree = degree /\ new.stride_table = strides /\ new.delta_table = deltas
  BY <1>4, <1>5 DEF Prefetchers
<1> QED BY <1>6 DEF new

LEMMA CandidatesCounted ==
  ASSUME CprefInv, NEW ip, NEW line, NEW stride, NEW delta, NEW degree \in Nat
  PROVE  Len(CandidatesOf(ip, line, stride, delta, degree)) \in Nat
<1>1. \A f : [i \in 1 .. degree |-> f] = [i \in 1 .. degree |-> f]
  OBVIOUS
<1>2. \A step, first : Len(Ahead(line, step, first, degree)) \in Nat
  BY DEF Ahead
<1>3. Len([i \in 1 .. degree |-> Wrap(line + i * cpref.active_genome.distance)]) \in Nat
  OBVIOUS
<1>4. Len(<<>>) = 0
  OBVIOUS
<1> QED BY <1>2, <1>3, <1>4 DEF CandidatesOf

LEMMA AccessTypes == \A a \in Accesses : a[1] \in Ips /\ a[2] \in Blocks
  BY CustomPrefAssumption DEF Ips, Blocks

(* An access trains the table of the pattern and asks for what the lines of its *)
(* instruction, this one included, call for.                                    *)
LEMMA OperateKeeps ==
  ASSUME CprefInv, NEW ip \in Ips, NEW line \in Blocks, NEW occupancy,
         CprefOperate(ip, line, occupancy)
  PROVE  CprefInv'
<1> DEFINE useful == cpref.total_pref_useful + IF line \in prefetched THEN 1 ELSE 0
           degree == BandwidthDegree(occupancy, AccuracyDegree(useful))
           stride == TrainStride(cpref.stride_table[ip], line)
           delta == TrainDelta(cpref.delta_table[ip], line)
           lines == CandidatesOf(ip, line, stride, delta, degree)
           strides == IF pattern_type = "STRIDE" THEN [cpref.stride_table EXCEPT ![ip] = stride]
                      ELSE cpref.stride_table
           deltas == IF pattern_type = "DELTA" THEN [cpref.delta_table EXCEPT ![ip] = delta]
                     ELSE cpref.delta_table
           s == touched[ip]
           t == Append(s, line)
<1>1. /\ cpref \in Prefetchers /\ cpref.stride_table \in [Ips -> StrideEntry]
      /\ cpref.delta_table \in [Ips -> DeltaEntry] /\ s \in Seq(Blocks)
      /\ useful \in Nat /\ asked.accesses \in Nat
  BY DEF CprefInv, CprefTypes, Prefetchers
<1>2. degree \in 1 .. cpref.active_genome.degree /\ degree \in Nat
  <2>1. cpref.active_genome.degree \in Nat
    BY <1>1, GenomeTypes DEF Prefetchers
  <2> QED BY <1>1, <2>1, DegreeInRange
<1>3. Len(lines) \in Nat
  BY <1>2, CandidatesCounted
<1>4. /\ cpref.loaded /\ touched' = [touched EXCEPT ![ip] = t]
      /\ asked' = [ip |-> ip, lines |-> lines, accesses |-> asked.accesses + 1]
      /\ cpref' = Recording(cpref, useful, degree, Len(lines), strides, deltas)
  BY DEF CprefOperate, Recording
<1>5. /\ t \in Seq(Blocks) /\ Len(t) = Len(s) + 1 /\ t[Len(t)] = line
      /\ touched' \in [Ips -> Seq(Blocks)] /\ touched'[ip] = t
      /\ \A i \in Ips : i # ip => touched'[i] = touched[i]
  <2>1. t \in Seq(Blocks) /\ Len(t) = Len(s) + 1 /\ t[Len(t)] = line
    BY <1>1, AppendProperties
  <2> QED BY <1>4, <2>1 DEF CprefInv, CprefTypes
<1>6. /\ strides \in [Ips -> StrideEntry] /\ deltas \in [Ips -> DeltaEntry]
      /\ \A i \in Ips :
           /\ pattern_type = "STRIDE" => StrideRemembers(strides[i], touched'[i])
           /\ pattern_type = "DELTA" => DeltaRemembers(deltas[i], touched'[i])
  <2>1. ASSUME pattern_type = "STRIDE"
        PROVE  stride \in StrideEntry /\ StrideRemembers(stride, t)
    BY <1>1, <2>1, StrideTrained DEF CprefInv, TablesRemember
  <2>2. ASSUME pattern_type = "DELTA"
        PROVE  delta \in DeltaEntry /\ DeltaRemembers(delta, t)
    BY <1>1, <2>2, DeltaTrained DEF CprefInv, TablesRemember
  <2>3. \A i \in Ips : /\ pattern_type = "STRIDE" => StrideRemembers(cpref.stride_table[i], touched[i])
                       /\ pattern_type = "DELTA" => DeltaRemembers(cpref.delta_table[i], touched[i])
    BY DEF CprefInv, TablesRemember
  <2> HIDE DEF stride, delta, t, s
  <2> QED BY <1>1, <1>5, <2>1, <2>2, <2>3
<1>7. lines = CASE pattern_type = "STRIDE" ->
                     IF Repeats(t, 3) THEN Ahead(line, LastStep(t), cpref.active_genome.distance, degree)
                     ELSE <<>>
                [] pattern_type = "DELTA" ->
                     IF Repeats(t, 2) THEN Ahead(line, LastStep(t), 0, degree) ELSE <<>>
                [] OTHER -> [i \in 1 .. degree |-> Wrap(line + cpref.active_genome.distance * i)]
  <2>1. CASE pattern_type = "STRIDE"
    <3>1. StrideRemembers(stride, t)
      BY <1>5, <1>6, <2>1
    <3>2. (stride.confidence >= 2 <=> Repeats(t, 3)) /\ stride.last_stride = LastOf(t)
      BY <3>1 DEF StrideRemembers
    <3>3. Repeats(t, 3) => LastOf(t) = LastStep(t)
      BY <1>5, <1>1 DEF Repeats, LastOf
    <3> HIDE DEF stride, t, degree
    <3> QED BY <2>1, <3>2, <3>3 DEF CandidatesOf
  <2>2. CASE pattern_type = "DELTA"
    <3>1. /\ DeltaRemembers(cpref.delta_table[ip], s) /\ DeltaRemembers(delta, t)
          /\ Repeats(t, 2) <=> LastOf(s) = LastOf(t) /\ LastOf(s) # 0
      BY <1>1, <2>2, DeltaTrained DEF CprefInv, TablesRemember
    <3>2. cpref.delta_table[ip].delta_history = LastOf(s) /\ delta.delta_history = LastOf(t)
      BY <3>1 DEF DeltaRemembers
    <3>3. Repeats(t, 2) => LastOf(t) = LastStep(t)
      BY <1>5, <1>1 DEF Repeats, LastOf
    <3> HIDE DEF delta, s, t, degree
    <3> QED BY <2>2, <3>1, <3>2, <3>3 DEF CandidatesOf
  <2>3. CASE pattern_type # "STRIDE" /\ pattern_type # "DELTA"
    <3>1. cpref.active_genome.distance \in Nat
      BY <1>1, GenomeTypes DEF Prefetchers
    <3>2. \A i \in 1 .. degree : i * cpref.active_genome.distance = cpref.active_genome.distance * i
      BY <1>2, <3>1
    <3>3. lines = [i \in 1 .. degree |-> Wrap(line + i * cpref.active_genome.distance)]
      BY <2>3 DEF CandidatesOf
    <3> HIDE DEF lines, degree
    <3> QED BY <2>3, <3>2, <3>3
  <2> QED BY <2>1, <2>2, <2>3
<1> HIDE DEF strides, deltas, lines, degree, useful, t
<1>8. /\ cpref' \in Prefetchers /\ cpref'.active_genome = cpref.active_genome /\ cpref'.loaded
      /\ cpref'.current_degree = degree /\ cpref'.stride_table = strides /\ cpref'.delta_table = deltas
  <2>1. cpref \in Prefetchers /\ strides \in [Ips -> StrideEntry] /\ deltas \in [Ips -> DeltaEntry]
        /\ useful \in Nat /\ degree \in Nat /\ Len(lines) \in Nat /\ cpref.loaded
    BY <1>1, <1>2, <1>3, <1>4, <1>6
  <2> DEFINE new == Recording(cpref, useful, degree, Len(lines), strides, deltas)
  <2>2. cpref' = new
    BY <1>4
  <2>3. /\ new \in Prefetchers /\ new.active_genome = cpref.active_genome
        /\ new.current_degree = degree /\ new.stride_table = strides /\ new.delta_table = deltas
    BY <2>1, Recorded
  <2>4. new.loaded
    BY <2>1, Recorded
  <2> HIDE DEF new
  <2> QED BY <2>2, <2>3, <2>4
<1>9. CprefTypes'
  BY <1>1, <1>4, <1>5, <1>8 DEF CprefTypes
<1>10. TablesRemember'
  BY <1>6, <1>8 DEF TablesRemember, pattern_type, StrideRemembers, DeltaRemembers, Repeats, LastOf, LastStep
<1>11. PrefetchesFollowHistory'
  <2>1. /\ touched'[asked'.ip] = t /\ t[Len(t)] = line /\ asked'.lines = lines
        /\ cpref'.active_genome = cpref.active_genome /\ cpref'.current_degree = degree
    BY <1>4, <1>5, <1>8
  <2>2. PICK genome, n, u : genome = cpref.active_genome /\ n = degree /\ u = t
    OBVIOUS
  <2>3. /\ touched'[asked'.ip] = u /\ u[Len(u)] = line
        /\ cpref'.active_genome = genome /\ cpref'.current_degree = n /\ n \in 1 .. genome.degree
        /\ asked'.lines =
             CASE genome.pattern_type = "STRIDE" ->
                    IF Repeats(u, 3) THEN Ahead(line, LastStep(u), genome.distance, n) ELSE <<>>
               [] genome.pattern_type = "DELTA" ->
                    IF Repeats(u, 2) THEN Ahead(line, LastStep(u), 0, n) ELSE <<>>
               [] OTHER -> [i \in 1 .. n |-> Wrap(line + genome.distance * i)]
    BY <1>2, <1>7, <2>1, <2>2 DEF pattern_type
  <2> QED BY <2>3, Zenon DEF PrefetchesFollowHistory, pattern_type
<1> QED BY <1>2, <1>8, <1>9, <1>10, <1>11 DEF CprefInv

LEMMA CprefKeeps == CprefInv /\ [CprefNext]_cprefVars => CprefInv'
<1> SUFFICES ASSUME CprefInv, [CprefNext]_cprefVars PROVE CprefInv'
  OBVIOUS
<1>1. CASE load_genome
  BY <1>1, GenomeLoaded
<1>2. CASE \E a \in Accesses, o \in Occupancies : CprefOperate(a[1], a[2], o)
  BY <1>2, OperateKeeps, AccessTypes
<1>3. CASE UNCHANGED <<cpref, asked, touched>>
  BY <1>3 DEF CprefInv, CprefTypes, TablesRemember, PrefetchesFollowHistory, pattern_type,
              StrideRemembers, DeltaRemembers, Repeats, LastOf, LastStep, Ahead, Wrap
<1> QED BY <1>1, <1>2, <1>3 DEF CprefNext, CprefEvict, cprefVars

(* custom_pref.h asks for what the accesses of the instruction call for: a stride *)
(* it took three times in a row, a delta it took twice, at a degree no greater    *)
(* than the genome's - for any genomes, instructions, throttling and cache.       *)
THEOREM PrefetchesFollowed == CprefSpec => []PrefetchesFollowHistory
<1>1. CprefInv => PrefetchesFollowHistory
  BY DEF CprefInv
<1> QED BY <1>1, CprefStarts, CprefKeeps, PTL DEF CprefSpec

-------------------------------------------------------------------------------
(* lru_table *)

LruWayNumbers == 1 .. LruWays
LruSetNumbers == 0 .. LruSets - 1
NoData == [index |-> 0, tag |-> 0]
WayStates == [last_used : Nat, data : Elements \cup {NoData}]

(* The valid ways of a set hold the elements of the list, each in the way that   *)
(* `at' says, the one before always used after the one behind; no tag is double. *)
Arranged(ways, list, at) ==
  /\ at \in Seq(LruWayNumbers) /\ list \in Seq(Elements) /\ Len(at) = Len(list)
  /\ \A i \in DOMAIN at : ways[at[i]].last_used > 0 /\ ways[at[i]].data = list[i]
  /\ \A i, j \in DOMAIN at : i < j => /\ ways[at[i]].last_used > ways[at[j]].last_used
                                      /\ list[i].tag # list[j].tag
  /\ \A w \in LruWayNumbers : ways[w].last_used > 0 => \E i \in DOMAIN at : at[i] = w

LruInv ==
  /\ lru_table.access_count \in Nat
  /\ lru_table.block \in [LruSetNumbers -> [LruWayNumbers -> WayStates]]
  /\ recency \in [LruSetNumbers -> Seq(Elements)]
  /\ \A s \in LruSetNumbers :
       /\ \A w \in LruWayNumbers : lru_table.block[s][w].last_used <= lru_table.access_count
       /\ \E at : Arranged(lru_table.block[s], recency[s], at)

LEMMA InOrder ==
  ASSUME NEW ways \in [LruWayNumbers -> WayStates], NEW list, NEW at, Arranged(ways, list, at)
  PROVE  LET valid == {w \in LruWayNumbers : ways[w].last_used > 0}
             rank(w) == Cardinality({v \in valid : ways[v].last_used >= ways[w].last_used})
         IN  /\ Cardinality(valid) = Len(list) /\ Len(list) <= LruWays
             /\ \A w \in valid : list[rank(w)] = ways[w].data
<1> DEFINE valid == {w \in LruWayNumbers : ways[w].last_used > 0}
           above(w) == {v \in valid : ways[v].last_used >= ways[w].last_used}
           n == Len(list)
<1>1. n \in Nat /\ DOMAIN at = 1 .. n /\ \A i \in 1 .. n : at[i] \in LruWayNumbers
  BY DEF Arranged
<1>2. \A w \in LruWayNumbers : ways[w].last_used \in Nat
  BY DEF WayStates
<1>3. \A i, j \in 1 .. n : i < j => ways[at[i]].last_used > ways[at[j]].last_used
  BY <1>1 DEF Arranged
<1>4. \A i, j \in 1 .. n : i # j => at[i] # at[j]
  BY <1>1, <1>2, <1>3
<1>5. valid = {at[i] : i \in 1 .. n}
  BY <1>1 DEF Arranged
<1>6. Cardinality(valid) = n
  BY <1>1, <1>4, <1>5, Counted
<1>7. n <= LruWays
  <2>1. LruWays \in Nat /\ IsFiniteSet(LruWayNumbers) /\ Cardinality(LruWayNumbers) = LruWays
    BY LruAssumption, IntervalSize DEF LruWayNumbers
  <2> QED BY <2>1, <1>6, FS_Subset
<1>8. ASSUME NEW w \in valid PROVE list[Cardinality(above(w))] = ways[w].data
  <2>1. PICK i \in 1 .. n : at[i] = w
    BY <1>5
  <2>2. \A j \in 1 .. n : ways[at[j]].last_used >= ways[w].last_used <=> j <= i
    BY <1>1, <1>2, <1>3, <2>1
  <2>3. above(w) = {at[j] : j \in 1 .. i}
    BY <1>1, <1>5, <2>2
  <2>4. Cardinality(above(w)) = i
    <3>1. \A j, k \in 1 .. i : j # k => at[j] # at[k]
      BY <1>1, <1>4
    <3>2. i \in Nat
      BY <1>1
    <3> HIDE <1>4
    <3>3. Cardinality({at[j] : j \in 1 .. i}) = i
      BY <3>1, <3>2, Counted
    <3> QED BY <2>3, <3>3
  <2> QED BY <1>1, <2>1, <2>4 DEF Arranged
<1> QED BY <1>6, <1>7, <1>8

(* Taking the elements at some positions away, and invalidating their ways. *)
LEMMA Lessened ==
  ASSUME NEW ways \in [LruWayNumbers -> WayStates], NEW list, NEW at, Arranged(ways, list, at),
         NEW I \in SUBSET DOMAIN at, NEW kept \in [LruWayNumbers -> WayStates],
         \A i \in I : kept[at[i]] = ways[at[i]],
         \A w \in LruWayNumbers : kept[w].last_used > 0 => \E i \in I : at[i] = w
  PROVE  Arranged(kept, At(list, I), At(at, I))
<1> DEFINE n == Cardinality(I)
<1>1. /\ at \in Seq(LruWayNumbers) /\ list \in Seq(Elements) /\ DOMAIN list = DOMAIN at
      /\ DOMAIN at \subseteq Int
  BY DEF Arranged
<1>2. /\ At(list, I) \in Seq(Elements) /\ Len(At(list, I)) = n
      /\ \A k \in 1 .. n : At(list, I)[k] = list[Nth(I, k)]
  BY <1>1, Picked
<1>3. /\ At(at, I) \in Seq(LruWayNumbers) /\ Len(At(at, I)) = n /\ n \in Nat
      /\ DOMAIN At(at, I) = 1 .. n
      /\ \A k \in 1 .. n : At(at, I)[k] = at[Nth(I, k)] /\ Nth(I, k) \in I
      /\ \A k, l \in 1 .. n : k < l => Nth(I, k) < Nth(I, l)
      /\ \A i \in I : \E k \in 1 .. n : Nth(I, k) = i
  BY <1>1, Picked
<1>4. \A i \in I : kept[at[i]].last_used > 0 /\ kept[at[i]].data = list[i]
  BY DEF Arranged
<1>5. \A i, j \in I : i < j => /\ kept[at[i]].last_used > kept[at[j]].last_used
                               /\ list[i].tag # list[j].tag
  BY <1>1 DEF Arranged
<1>6. \A k, l \in 1 .. n : k < l => /\ kept[At(at, I)[k]].last_used > kept[At(at, I)[l]].last_used
                                    /\ At(list, I)[k].tag # At(list, I)[l].tag
  BY <1>2, <1>3, <1>5
<1>7. \A k \in 1 .. n : kept[At(at, I)[k]].last_used > 0 /\ kept[At(at, I)[k]].data = At(list, I)[k]
  BY <1>2, <1>3, <1>4
<1>8. \A w \in LruWayNumbers : kept[w].last_used > 0 => \E k \in 1 .. n : At(at, I)[k] = w
  BY <1>3
<1> QED BY <1>2, <1>3, <1>6, <1>7, <1>8 DEF Arranged

(* Using a way now puts its element to the front. *)
LEMMA ToFront ==
  ASSUME NEW ways \in [LruWayNumbers -> WayStates], NEW list, NEW at, Arranged(ways, list, at),
         NEW w \in LruWayNumbers, ways[w].last_used = 0, NEW d \in Elements, NEW c \in Nat,
         \A v \in LruWayNumbers : ways[v].last_used <= c,
         \A i \in DOMAIN list : list[i].tag # d.tag
  PROVE  Arranged([ways EXCEPT ![w] = [last_used |-> c + 1, data |-> d]], <<d>> \o list, <<w>> \o at)
<1> DEFINE n == Len(list)
           used == [ways EXCEPT ![w] = [last_used |-> c + 1, data |-> d]]
           front == <<d>> \o list
           place == <<w>> \o at
<1> SUFFICES Arranged(used, front, place)
  OBVIOUS
<1>1. /\ at \in Seq(LruWayNumbers) /\ list \in Seq(Elements) /\ n \in Nat
      /\ DOMAIN at = 1 .. n /\ DOMAIN list = 1 .. n /\ Len(at) = n
  BY DEF Arranged
<1>2. /\ <<d>> \in Seq(Elements) /\ Len(<<d>>) = 1 /\ <<d>>[1] = d
      /\ <<w>> \in Seq(LruWayNumbers) /\ Len(<<w>>) = 1 /\ <<w>>[1] = w
  OBVIOUS
<1>3. /\ front \in Seq(Elements) /\ Len(front) = n + 1 /\ front[1] = d
      /\ \A k \in 1 .. n : front[k + 1] = list[k]
  BY <1>1, <1>2, ConcatProperties
<1>4. /\ place \in Seq(LruWayNumbers) /\ Len(place) = n + 1 /\ place[1] = w
      /\ \A k \in 1 .. n : place[k + 1] = at[k]
  BY <1>1, <1>2, ConcatProperties
<1>5. DOMAIN place = 1 .. n + 1 /\ \A k \in 1 .. n + 1 : k # 1 => \E i \in 1 .. n : k = i + 1
  <2>1. \A k \in 1 .. n + 1 : k # 1 => k - 1 \in 1 .. n /\ k = (k - 1) + 1
    BY <1>1
  <2> QED BY <1>1, <1>4, <2>1
<1>6. /\ used[w].last_used = c + 1 /\ used[w].data = d
      /\ \A v \in LruWayNumbers : v # w => used[v] = ways[v]
  OBVIOUS
<1> HIDE DEF used, front, place
<1>7. \A i \in 1 .. n : /\ at[i] \in LruWayNumbers /\ at[i] # w /\ used[at[i]] = ways[at[i]]
                        /\ used[at[i]].last_used \in 1 .. c /\ used[at[i]].data = list[i]
  <2> SUFFICES ASSUME NEW i \in 1 .. n
               PROVE  /\ at[i] \in LruWayNumbers /\ at[i] # w /\ used[at[i]] = ways[at[i]]
                      /\ used[at[i]].last_used \in 1 .. c /\ used[at[i]].data = list[i]
    OBVIOUS
  <2>1. ways[at[i]].last_used > 0 /\ ways[at[i]].data = list[i] /\ at[i] \in LruWayNumbers
    BY <1>1 DEF Arranged
  <2>2. ways[at[i]].last_used \in Nat /\ ways[at[i]].last_used <= c
    BY <2>1 DEF WayStates
  <2> QED BY <1>6, <2>1, <2>2
<1>8. \A i, j \in 1 .. n : i < j => /\ used[at[i]].last_used > used[at[j]].last_used
                                    /\ list[i].tag # list[j].tag
  <2>1. \A i, j \in DOMAIN at : i < j => /\ ways[at[i]].last_used > ways[at[j]].last_used
                                         /\ list[i].tag # list[j].tag
    BY DEF Arranged
  <2> QED BY <1>1, <1>7, <2>1
<1>9. \A k \in 1 .. n + 1 : used[place[k]].last_used > 0 /\ used[place[k]].data = front[k]
  <2> SUFFICES ASSUME NEW k \in 1 .. n + 1
               PROVE  used[place[k]].last_used > 0 /\ used[place[k]].data = front[k]
    OBVIOUS
  <2>1. CASE k = 1
    BY <1>3, <1>4, <1>6, <2>1
  <2>2. CASE k # 1
    <3>1. PICK i \in 1 .. n : k = i + 1
      BY <1>5, <2>2
    <3>2. place[k] = at[i] /\ front[k] = list[i]
      BY <1>3, <1>4, <3>1
    <3> QED BY <1>7, <3>2
  <2> QED BY <2>1, <2>2
<1>10. \A k, l \in 1 .. n + 1 : k < l => /\ used[place[k]].last_used > used[place[l]].last_used
                                         /\ front[k].tag # front[l].tag
  <2> SUFFICES ASSUME NEW k \in 1 .. n + 1, NEW l \in 1 .. n + 1, k < l
               PROVE  /\ used[place[k]].last_used > used[place[l]].last_used
                      /\ front[k].tag # front[l].tag
    OBVIOUS
  <2>1. PICK j \in 1 .. n : l = j + 1
    BY <1>1, <1>5
  <2>2. place[l] = at[j] /\ front[l] = list[j]
    BY <1>3, <1>4, <2>1
  <2>3. CASE k = 1
    <3>1. used[place[k]].last_used = c + 1 /\ front[k] = d
      BY <1>3, <1>4, <1>6, <2>3
    <3>2. used[place[l]].last_used \in 1 .. c /\ front[l].tag # d.tag
      BY <1>1, <1>7, <2>2
    <3> QED BY <3>1, <3>2
  <2>4. CASE k # 1
    <3>1. PICK i \in 1 .. n : k = i + 1
      BY <1>5, <2>4
    <3>2. i < j /\ place[k] = at[i] /\ front[k] = list[i]
      BY <1>3, <1>4, <2>1, <3>1
    <3> QED BY <1>8, <2>2, <3>2
  <2> QED BY <2>3, <2>4
<1>11. \A v \in LruWayNumbers : used[v].last_used > 0 => \E k \in 1 .. n + 1 : place[k] = v
  <2> SUFFICES ASSUME NEW v \in LruWayNumbers, used[v].last_used > 0, v # w
               PROVE  \E k \in 1 .. n + 1 : place[k] = v
    BY <1>1, <1>4
  <2>1. PICK i \in 1 .. n : at[i] = v
    BY <1>1, <1>6 DEF Arranged
  <2>2. i + 1 \in 1 .. n + 1 /\ place[i + 1] = at[i]
    BY <1>1, <1>4
  <2> QED BY <2>1, <2>2
<1>12. place \in Seq(LruWayNumbers) /\ front \in Seq(Elements) /\ Len(place) = Len(front)
       /\ DOMAIN place = 1 .. n + 1
  BY <1>3, <1>4, <1>5
<1> QED BY ONLY <1>9, <1>10, <1>11, <1>12 DEF Arranged

-------------------------------------------------------------------------------
Cleared(ways, w) == [ways EXCEPT ![w] = [last_used |-> 0, data |-> NoData]]
UsedNow(ways, w, c, d) == [ways EXCEPT ![w] = [last_used |-> c + 1, data |-> d]]

LEMMA UsedTypes ==
  ASSUME NEW ways \in [LruWayNumbers -> WayStates], NEW w \in LruWayNumbers, NEW c \in Nat,
         \A v \in LruWayNumbers : ways[v].last_used <= c, NEW d \in Elements
  PROVE  /\ Cleared(ways, w) \in [LruWayNumbers -> WayStates]
         /\ UsedNow(ways, w, c, d) \in [LruWayNumbers -> WayStates]
         /\ UsedNow(Cleared(ways, w), w, c, d) = UsedNow(ways, w, c, d)
         /\ \A v \in LruWayNumbers : Cleared(ways, w)[v].last_used <= c
         /\ \A v \in LruWayNumbers : UsedNow(ways, w, c, d)[v].last_used <= c + 1
<1>1. \A v \in LruWayNumbers : ways[v].last_used \in Nat
  BY DEF WayStates
<1>2. [last_used |-> 0, data |-> NoData] \in WayStates /\ [last_used |-> c + 1, data |-> d] \in WayStates
  BY DEF WayStates
<1> QED BY <1>1, <1>2 DEF Cleared, UsedNow

(* Where the element is: at one position of the list and in one way, or nowhere. *)
LEMMA Located ==
  ASSUME LruInv, NEW elem \in Elements
  PROVE  LET s == SetOf(lru_table, elem)
             ways == WaysOf(lru_table, elem)
         IN  /\ s \in LruSetNumbers /\ ways = lru_table.block[s] /\ Listing(elem) = recency[s]
             /\ ways \in [LruWayNumbers -> WayStates]
             /\ \E at : Arranged(ways, Listing(elem), at)
             /\ \A at : Arranged(ways, Listing(elem), at) =>
                  \/ Same(elem) = {} /\ ~Hits(lru_table, elem)
                  \/ \E i \in DOMAIN at :
                       /\ Same(elem) = {i} /\ Hits(lru_table, elem)
                       /\ WayOf(lru_table, elem) = at[i]
                       /\ DataOf(lru_table, elem) = Listing(elem)[i]
<1> DEFINE s == SetOf(lru_table, elem)
           ways == WaysOf(lru_table, elem)
           list == Listing(elem)
<1>1. s \in LruSetNumbers
  <2>1. DOMAIN lru_table.block = LruSetNumbers /\ LruSets \in Nat \ {0}
    BY LruAssumption DEF LruInv
  <2>2. Cardinality(LruSetNumbers) = LruSets
    BY <2>1, IntervalSize DEF LruSetNumbers
  <2>3. elem.index \in Nat
    <3>1. PICK t \in LruTags, v \in LruValues : elem = [index |-> t, tag |-> t, value |-> v]
      BY DEF Elements
    <3>2. elem.index = t /\ t \in Nat
      BY <3>1, LruAssumption
    <3> QED BY <3>2
  <2> QED BY <2>1, <2>2, <2>3 DEF SetOf, LruSetNumbers
<1>2. ways = lru_table.block[s] /\ list = recency[s] /\ ways \in [LruWayNumbers -> WayStates]
      /\ \E at : Arranged(ways, list, at)
  BY <1>1 DEF WaysOf, Listing, LruInv
<1>3. ASSUME NEW at, Arranged(ways, list, at)
      PROVE  \/ Same(elem) = {} /\ ~Hits(lru_table, elem)
             \/ \E i \in DOMAIN at :
                  /\ Same(elem) = {i} /\ Hits(lru_table, elem)
                  /\ WayOf(lru_table, elem) = at[i] /\ DataOf(lru_table, elem) = list[i]
  <2>1. /\ DOMAIN list = DOMAIN at /\ DOMAIN at \subseteq Int /\ DOMAIN ways = LruWayNumbers
        /\ \A i \in DOMAIN at : at[i] \in LruWayNumbers
    BY <1>2, <1>3 DEF Arranged
  <2>2. Matching(ways, elem) = {at[i] : i \in Same(elem)}
    <3>1. Same(elem) = {i \in DOMAIN at : list[i].tag = elem.tag}
      BY <2>1 DEF Same
    <3>2. \A i \in DOMAIN at : ways[at[i]].last_used > 0 /\ ways[at[i]].data = list[i]
      BY <1>3 DEF Arranged
    <3>3. \A w \in LruWayNumbers : ways[w].last_used > 0 => \E i \in DOMAIN at : at[i] = w
      BY <1>3 DEF Arranged
    <3> HIDE DEF ways, list
    <3> QED BY <2>1, <3>1, <3>2, <3>3 DEF Matching
  <2>3. \A i, j \in Same(elem) : i = j
    <3>1. \A i, j \in DOMAIN at : i < j => list[i].tag # list[j].tag
      BY <1>3 DEF Arranged
    <3> QED BY <2>1, <3>1 DEF Same
  <2>4. CASE Same(elem) = {}
    BY <2>2, <2>4 DEF Hits
  <2>5. ASSUME NEW i \in Same(elem)
        PROVE  /\ i \in DOMAIN at /\ Same(elem) = {i} /\ Hits(lru_table, elem)
               /\ WayOf(lru_table, elem) = at[i] /\ DataOf(lru_table, elem) = list[i]
    <3>1. i \in DOMAIN at /\ Same(elem) = {i}
      BY <2>1, <2>3 DEF Same
    <3>2. Matching(ways, elem) = {at[i]}
      BY <2>2, <3>1
    <3>3. Hits(lru_table, elem) /\ WayOf(lru_table, elem) = at[i]
      BY <3>2 DEF Hits, WayOf
    <3>4. DataOf(lru_table, elem) = list[i]
      BY <1>3, <3>1, <3>3 DEF DataOf, Arranged
    <3> QED BY <3>1, <3>3, <3>4
  <2> QED BY <2>4, <2>5
<1> QED BY <1>1, <1>2, <1>3

LEMMA FitsIn ==
  ASSUME NEW ways \in [LruWayNumbers -> WayStates], NEW list, NEW at, Arranged(ways, list, at)
  PROVE  SubSeq(list, 1, Lesser(Len(list), LruWays)) = list
<1>1. Len(list) <= LruWays
  BY InOrder
<1>2. list \in Seq(Elements) /\ Len(list) \in Nat /\ LruWays \in Nat
  BY LruAssumption DEF Arranged
<1>3. Lesser(Len(list), LruWays) = Len(list)
  BY <1>1, <1>2 DEF Lesser
<1> QED BY <1>2, <1>3, SubSeqProperties

(* A set whose ways and list change together. *)
LEMMA SetChanged ==
  ASSUME LruInv, NEW s \in LruSetNumbers, NEW list, NEW at,
         NEW ways \in [LruWayNumbers -> WayStates], Arranged(ways, list, at),
         NEW c \in Nat, lru_table.access_count <= c, \A v \in LruWayNumbers : ways[v].last_used <= c,
         lru_table'.access_count = c, lru_table'.block = [lru_table.block EXCEPT ![s] = ways],
         recency' = [recency EXCEPT ![s] = list]
  PROVE  LruInv'
<1>2. /\ lru_table.access_count \in Nat /\ DOMAIN recency = LruSetNumbers
      /\ lru_table.block \in [LruSetNumbers -> [LruWayNumbers -> WayStates]]
      /\ \A t \in LruSetNumbers :
           /\ \A v \in LruWayNumbers : /\ lru_table.block[t][v].last_used <= lru_table.access_count
                                       /\ lru_table.block[t][v].last_used \in Nat
           /\ \E a : Arranged(lru_table.block[t], recency[t], a)
  BY DEF LruInv, WayStates
<1>4. /\ lru_table'.block \in [LruSetNumbers -> [LruWayNumbers -> WayStates]]
      /\ DOMAIN recency' = LruSetNumbers
      /\ lru_table'.block[s] = ways /\ recency'[s] = list
      /\ \A t \in LruSetNumbers : t # s => lru_table'.block[t] = lru_table.block[t] /\ recency'[t] = recency[t]
  BY <1>2
<1>5. \A t \in LruSetNumbers :
        /\ \A v \in LruWayNumbers : lru_table'.block[t][v].last_used <= c
        /\ \E a : Arranged(lru_table'.block[t], recency'[t], a)
  <2> SUFFICES ASSUME NEW t \in LruSetNumbers
               PROVE  /\ \A v \in LruWayNumbers : lru_table'.block[t][v].last_used <= c
                      /\ \E a : Arranged(lru_table'.block[t], recency'[t], a)
    OBVIOUS
  <2>1. CASE t = s
    <3>1. lru_table'.block[t] = ways /\ recency'[t] = list
      BY <1>4, <2>1
    <3> QED BY <3>1
  <2>2. CASE t # s
    <3>1. lru_table'.block[t] = lru_table.block[t] /\ recency'[t] = recency[t]
      BY <1>4, <2>2
    <3>2. \A v \in LruWayNumbers : lru_table.block[t][v].last_used <= c
      BY <1>2
    <3> QED BY <1>2, <3>1, <3>2
  <2> QED BY <2>1, <2>2
<1> QED BY <1>4, <1>5 DEF LruInv, Arranged

(* Taking the element that is found away leaves its set arranged. *)
LEMMA FoundLeaves ==
  ASSUME LruInv, NEW elem \in Elements, Hits(lru_table, elem)
  PROVE  LET ways == WaysOf(lru_table, elem)
             w == WayOf(lru_table, elem)
         IN  /\ w \in LruWayNumbers
             /\ \E at : Arranged(Cleared(ways, w), Others(elem), at)
             /\ \A k \in DOMAIN Others(elem) : Others(elem)[k].tag # elem.tag
<1> DEFINE s == SetOf(lru_table, elem)
           ways == WaysOf(lru_table, elem)
           list == Listing(elem)
           w == WayOf(lru_table, elem)
           rest == DOMAIN list \ Same(elem)
           cleared == Cleared(ways, w)
<1>1. ways \in [LruWayNumbers -> WayStates]
  BY Located
<1>2. PICK at : Arranged(ways, list, at)
  BY Located
<1>3. PICK i \in DOMAIN at : Same(elem) = {i} /\ w = at[i]
  BY <1>2, Located
<1>4. /\ DOMAIN list = DOMAIN at /\ rest \subseteq DOMAIN at /\ w \in LruWayNumbers
      /\ \A j \in rest : at[j] \in LruWayNumbers /\ at[j] # w
      /\ \A j \in rest : list[j].tag # elem.tag
      /\ \A v \in LruWayNumbers : ways[v].last_used > 0 /\ v # w => \E j \in rest : at[j] = v
  <2>1. /\ at \in Seq(LruWayNumbers) /\ DOMAIN list = DOMAIN at /\ DOMAIN at \subseteq Int
        /\ \A j \in DOMAIN at : at[j] \in LruWayNumbers /\ ways[at[j]].last_used \in Nat
        /\ \A j, k \in DOMAIN at : j < k => ways[at[j]].last_used > ways[at[k]].last_used
        /\ \A v \in LruWayNumbers : ways[v].last_used > 0 => \E j \in DOMAIN at : at[j] = v
    BY <1>1, <1>2 DEF Arranged, WayStates
  <2>2. \A j \in rest : at[j] # w
    BY <1>3, <2>1
  <2> QED BY <1>3, <2>1, <2>2 DEF Same
<1>5. cleared \in [LruWayNumbers -> WayStates]
  <2>1. [last_used |-> 0, data |-> NoData] \in WayStates
    BY DEF WayStates
  <2> QED BY <1>1, <2>1 DEF Cleared
<1>6. Arranged(cleared, At(list, rest), At(at, rest))
  <2>1. /\ cleared[w].last_used = 0
        /\ \A v \in LruWayNumbers : v # w => cleared[v] = ways[v]
    BY <1>1, <1>4 DEF Cleared
  <2>2. \A j \in rest : cleared[at[j]] = ways[at[j]]
    BY <1>4, <2>1
  <2>3. \A v \in LruWayNumbers : cleared[v].last_used > 0 => \E j \in rest : at[j] = v
    BY <1>4, <2>1
  <2> HIDE DEF cleared, ways, list, rest
  <2> QED BY <1>1, <1>2, <1>4, <1>5, <2>2, <2>3, Lessened
<1>7. \A k \in DOMAIN At(list, rest) : At(list, rest)[k].tag # elem.tag
  <2>1. list \in Seq(Elements) /\ rest \in SUBSET DOMAIN list
    BY <1>2 DEF Arranged
  <2> HIDE DEF list, rest
  <2>2. DOMAIN At(list, rest) = 1 .. Cardinality(rest)
    BY <2>1, Picked
  <2> QED BY <1>4, <2>1, <2>2, Picked
<1>8. Others(elem) = At(list, rest)
  BY DEF Others
<1> HIDE DEF cleared, list, rest
<1> QED BY <1>4, <1>6, <1>7, <1>8 DEF cleared

(* The element goes to the front, with new data perhaps; its way is used now. *)
LEMMA FoundUsed ==
  ASSUME LruInv, NEW elem \in Elements, Hits(lru_table, elem), NEW d \in Elements, d.tag = elem.tag,
         lru_table' = Used(lru_table, elem, WayOf(lru_table, elem), d),
         Listed(elem, <<d>> \o Others(elem))
  PROVE  LruInv'
<1> DEFINE s == SetOf(lru_table, elem)
           ways == WaysOf(lru_table, elem)
           c == lru_table.access_count
           w == WayOf(lru_table, elem)
           cleared == Cleared(ways, w)
           used == UsedNow(ways, w, c, d)
           new == <<d>> \o Others(elem)
<1>1. s \in LruSetNumbers /\ ways = lru_table.block[s] /\ ways \in [LruWayNumbers -> WayStates]
  BY Located
<1>2. /\ w \in LruWayNumbers /\ \E at : Arranged(cleared, Others(elem), at)
      /\ \A k \in DOMAIN Others(elem) : Others(elem)[k].tag # elem.tag
  BY FoundLeaves
<1>3. PICK at : Arranged(cleared, Others(elem), at)
  BY <1>2
<1>4. c \in Nat /\ \A v \in LruWayNumbers : ways[v].last_used <= c
  BY <1>1 DEF LruInv
<1>5. /\ cleared \in [LruWayNumbers -> WayStates] /\ used \in [LruWayNumbers -> WayStates]
      /\ used = UsedNow(cleared, w, c, d)
      /\ \A v \in LruWayNumbers : cleared[v].last_used <= c
      /\ \A v \in LruWayNumbers : used[v].last_used <= c + 1
  BY <1>1, <1>2, <1>4, UsedTypes
<1> DEFINE place == <<w>> \o at
<1>6. Arranged(used, new, place)
  <2>1. cleared[w].last_used = 0
    BY <1>1, <1>2 DEF Cleared
  <2> HIDE DEF cleared, ways, w, c
  <2> QED BY <1>2, <1>3, <1>4, <1>5, <2>1, ToFront DEF UsedNow
<1>7. lru_table'.access_count = c + 1 /\ lru_table'.block = [lru_table.block EXCEPT ![s] = used]
  BY <1>1 DEF Used, UsedNow
<1>8. recency' = [recency EXCEPT ![s] = new]
  <2>1. recency' = [recency EXCEPT ![s] = SubSeq(new, 1, Lesser(Len(new), LruWays))]
    BY DEF Listed
  <2> HIDE DEF new, used, place
  <2> QED BY <1>5, <1>6, <2>1, FitsIn
<1>9. c + 1 \in Nat /\ c <= c + 1
  BY <1>4
<1> HIDE DEF used, new, place
<1> QED BY <1>1, <1>5, <1>6, <1>7, <1>8, <1>9, SetChanged

LEMMA LeastUsedFound ==
  ASSUME NEW ways \in [LruWayNumbers -> WayStates]
  PROVE  LeastUsed(ways) \in LruWayNumbers
         /\ \A v \in LruWayNumbers : ways[LeastUsed(ways)].last_used <= ways[v].last_used
<1> DEFINE f == [w \in LruWayNumbers |-> ways[w].last_used]
<1>1. f \in [LruWayNumbers -> Int] /\ \A w \in LruWayNumbers : f[w] = ways[w].last_used
  BY DEF WayStates
<1>2. IsFiniteSet(LruWayNumbers) /\ LruWayNumbers # {}
  <2>1. LruWays \in Nat \ {0}
    BY LruAssumption
  <2>2. 1 \in LruWayNumbers
    BY <2>1 DEF LruWayNumbers
  <2>3. 1 \in Int /\ LruWays \in Int /\ 1 <= LruWays + 1
    BY <2>1
  <2>4. IsFiniteSet(1 .. LruWays)
    BY <2>3, IntervalSize
  <2>5. LruWayNumbers # {}
    BY <2>2
  <2> QED BY <2>4, <2>5 DEF LruWayNumbers
<1>3. \E w \in LruWayNumbers : \A v \in LruWayNumbers : f[w] <= f[v]
  <2> HIDE DEF f
  <2> QED BY <1>1, <1>2, Extremes
<1> QED BY <1>1, <1>3 DEF LeastUsed

(* The list without its last element, whose way is the least used of a full set. *)
LEMMA LastGoes ==
  ASSUME NEW ways \in [LruWayNumbers -> WayStates], NEW list, NEW at, Arranged(ways, list, at),
         NEW w \in LruWayNumbers, ways[w].last_used > 0,
         \A v \in LruWayNumbers : ways[w].last_used <= ways[v].last_used
  PROVE  /\ Len(list) = LruWays
         /\ Arranged(Cleared(ways, w), At(list, 1 .. LruWays - 1), At(at, 1 .. LruWays - 1))
<1> DEFINE n == LruWays
           I == 1 .. n - 1
           cleared == Cleared(ways, w)
<1>1. n \in Nat \ {0} /\ Cardinality(LruWayNumbers) = n
  BY LruAssumption, IntervalSize DEF LruWayNumbers
<1>2. \A v \in LruWayNumbers : ways[v].last_used \in Nat
  BY DEF WayStates
<1>3. {v \in LruWayNumbers : ways[v].last_used > 0} = LruWayNumbers
  BY <1>2
<1>4. Len(list) = n
  BY <1>1, <1>3, InOrder
<1>5. /\ at \in Seq(LruWayNumbers) /\ list \in Seq(Elements) /\ DOMAIN at = 1 .. n
      /\ \A i \in 1 .. n : at[i] \in LruWayNumbers
      /\ \A i, j \in 1 .. n : i < j => ways[at[i]].last_used > ways[at[j]].last_used
      /\ \A v \in LruWayNumbers : \E i \in 1 .. n : at[i] = v
  <2>1. at \in Seq(LruWayNumbers) /\ list \in Seq(Elements) /\ Len(at) = n
    BY <1>4 DEF Arranged
  <2>2. DOMAIN at = 1 .. n /\ \A i \in 1 .. n : at[i] \in LruWayNumbers
    BY <2>1
  <2> QED BY <1>2, <1>3, <2>1, <2>2 DEF Arranged
<1>6. at[n] = w
  <2>1. PICK i \in 1 .. n : at[i] = w
    BY <1>5
  <2>2. ~(i < n)
    <3>1. n \in 1 .. n
      BY <1>1
    <3>2. at[n] \in LruWayNumbers
      BY <1>5, <3>1
    <3>3. ways[at[i]].last_used <= ways[at[n]].last_used /\ ways[at[n]].last_used \in Nat /\ ways[at[i]].last_used \in Nat
      BY <1>2, <2>1, <3>2
    <3>4. i < n => ways[at[i]].last_used > ways[at[n]].last_used
      BY <1>5, <3>1
    <3> QED BY <3>3, <3>4
  <2> QED BY <1>1, <2>1, <2>2
<1>7. \A i \in I : at[i] \in LruWayNumbers /\ at[i] # w
  <2> SUFFICES ASSUME NEW i \in I PROVE at[i] \in LruWayNumbers /\ at[i] # w
    OBVIOUS
  <2>1. i \in 1 .. n /\ n \in 1 .. n /\ i < n
    BY <1>1
  <2>2. ways[at[i]].last_used > ways[at[n]].last_used /\ at[i] \in LruWayNumbers
    BY <1>5, <2>1
  <2>3. ways[w].last_used \in Nat
    BY <1>2
  <2> QED BY <1>6, <2>2, <2>3
<1>8. \A v \in LruWayNumbers : v # w => \E i \in I : at[i] = v
  <2> SUFFICES ASSUME NEW v \in LruWayNumbers, v # w PROVE \E i \in I : at[i] = v
    OBVIOUS
  <2>1. PICK i \in 1 .. n : at[i] = v
    BY <1>5
  <2>2. i # n
    BY <1>6, <2>1
  <2> QED BY <1>1, <2>1, <2>2
<1>9. cleared[w].last_used = 0 /\ \A v \in LruWayNumbers : v # w => cleared[v] = ways[v]
  BY DEF Cleared
<1>10. cleared \in [LruWayNumbers -> WayStates]
  <2>1. [last_used |-> 0, data |-> NoData] \in WayStates
    BY DEF WayStates
  <2> QED BY <2>1 DEF Cleared
<1>11. I \in SUBSET DOMAIN at
  BY <1>1, <1>5
<1>12. \A i \in I : cleared[at[i]] = ways[at[i]]
  BY <1>7, <1>9
<1>13. \A v \in LruWayNumbers : cleared[v].last_used > 0 => \E i \in I : at[i] = v
  BY <1>8, <1>9
<1> HIDE DEF cleared, I
<1>14. Arranged(cleared, At(list, I), At(at, I))
  BY <1>10, <1>11, <1>12, <1>13, Lessened
<1> QED BY <1>4, <1>14 DEF cleared, I

(* An element that is not found takes the place of the least used way. *)
LEMMA NewUsed ==
  ASSUME LruInv, NEW elem \in Elements, ~Hits(lru_table, elem),
         lru_table' = Used(lru_table, elem, LeastUsed(WaysOf(lru_table, elem)), elem),
         Listed(elem, <<elem>> \o Others(elem))
  PROVE  LruInv'
<1> DEFINE s == SetOf(lru_table, elem)
           ways == WaysOf(lru_table, elem)
           list == Listing(elem)
           c == lru_table.access_count
           w == LeastUsed(ways)
           whole == <<elem>> \o list
           used == UsedNow(ways, w, c, elem)
           cleared == Cleared(ways, w)
<1>1. /\ s \in LruSetNumbers /\ ways = lru_table.block[s] /\ list = recency[s]
      /\ ways \in [LruWayNumbers -> WayStates]
  BY Located
<1>2. PICK at : Arranged(ways, list, at)
  BY Located
<1>3. Same(elem) = {} /\ \A i \in DOMAIN list : list[i].tag # elem.tag
  <2>1. Same(elem) = {}
    BY <1>2, Located
  <2> QED BY <2>1 DEF Same
<1>4. w \in LruWayNumbers /\ \A v \in LruWayNumbers : ways[w].last_used <= ways[v].last_used
  BY <1>1, LeastUsedFound
<1>5. c \in Nat /\ \A v \in LruWayNumbers : ways[v].last_used <= c /\ ways[v].last_used \in Nat
  BY <1>1 DEF LruInv, WayStates
<1>6. /\ cleared \in [LruWayNumbers -> WayStates] /\ used \in [LruWayNumbers -> WayStates]
      /\ used = UsedNow(cleared, w, c, elem)
      /\ \A v \in LruWayNumbers : cleared[v].last_used <= c
      /\ \A v \in LruWayNumbers : used[v].last_used <= c + 1
  BY <1>1, <1>4, <1>5, UsedTypes
<1>7. list \in Seq(Elements) /\ Len(list) \in Nat /\ LruWays \in Nat \ {0}
  BY <1>2, LruAssumption DEF Arranged
<1>8. recency' = [recency EXCEPT ![s] = SubSeq(whole, 1, Lesser(Len(whole), LruWays))]
  <2>1. Others(elem) = list
    <3>1. DOMAIN list \ Same(elem) = DOMAIN list
      BY <1>3
    <3> QED BY <1>7, <3>1, AllOfThem DEF Others
  <2> QED BY <2>1 DEF Listed
<1>9. \E new, place : Arranged(used, new, place) /\ new = SubSeq(whole, 1, Lesser(Len(whole), LruWays))
  <2>1. CASE ways[w].last_used = 0
    <3> DEFINE place == <<w>> \o at
    <3>1. Arranged(used, whole, place)
      <4> HIDE DEF ways, list, w, c
      <4> QED BY <1>1, <1>2, <1>3, <1>4, <1>5, <2>1, ToFront DEF UsedNow
    <3>2. SubSeq(whole, 1, Lesser(Len(whole), LruWays)) = whole
      <4> HIDE DEF used, whole, place
      <4> QED BY <1>6, <3>1, FitsIn
    <3> HIDE DEF whole, place
    <3> QED BY <3>1, <3>2
  <2>2. CASE ways[w].last_used > 0
    <3> DEFINE kept == At(list, 1 .. LruWays - 1)
               stay == At(at, 1 .. LruWays - 1)
               new == <<elem>> \o kept
               place == <<w>> \o stay
    <3>1. Len(list) = LruWays /\ Arranged(cleared, kept, stay)
      <4> HIDE DEF ways, list, w
      <4> QED BY <1>1, <1>2, <1>4, <2>2, LastGoes
    <3>2. /\ kept \in Seq(Elements) /\ Len(kept) = LruWays - 1
          /\ \A k \in 1 .. LruWays - 1 : kept[k] = list[k]
      <4>1. LruWays - 1 \in 0 .. Len(list)
        BY <1>7, <3>1
      <4> HIDE DEF list
      <4> QED BY <1>7, <4>1, FirstOnes
    <3>3. \A k \in DOMAIN kept : kept[k].tag # elem.tag
      <4>1. DOMAIN kept = 1 .. LruWays - 1 /\ \A k \in 1 .. LruWays - 1 : k \in DOMAIN list
        BY <1>7, <3>1, <3>2
      <4> QED BY <1>3, <3>2, <4>1
    <3>4. cleared[w].last_used = 0
      BY <1>1, <1>4 DEF Cleared
    <3>5. Arranged(used, new, place)
      <4> HIDE DEF cleared, kept, stay, w, c
      <4> QED BY <1>4, <1>5, <1>6, <3>1, <3>3, <3>4, ToFront DEF UsedNow
    <3>6. new = SubSeq(whole, 1, Lesser(Len(whole), LruWays))
      <4> DEFINE n == LruWays
      <4>1. elem \in Elements /\ <<elem>> \in Seq(Elements) /\ Len(<<elem>>) = 1 /\ <<elem>>[1] = elem
        OBVIOUS
      <4>2. /\ whole \in Seq(Elements) /\ Len(whole) = n + 1 /\ whole[1] = elem
            /\ \A k \in 1 .. n : whole[k + 1] = list[k]
        BY <1>7, <3>1, <4>1, ConcatProperties
      <4>3. /\ new \in Seq(Elements) /\ Len(new) = n /\ new[1] = elem
            /\ \A k \in 1 .. n - 1 : new[k + 1] = kept[k]
        BY <1>7, <3>2, <4>1, ConcatProperties
      <4>4. Lesser(Len(whole), n) = n
        BY <1>7, <4>2 DEF Lesser
      <4>5. /\ SubSeq(whole, 1, n) \in Seq(Elements) /\ Len(SubSeq(whole, 1, n)) = n
            /\ \A k \in 1 .. n : SubSeq(whole, 1, n)[k] = whole[k]
        BY <1>7, <4>2, SubSeqProperties
      <4>6. \A k \in 1 .. n : new[k] = whole[k]
        <5> SUFFICES ASSUME NEW k \in 1 .. n PROVE new[k] = whole[k]
          OBVIOUS
        <5>1. CASE k = 1
          BY <4>2, <4>3, <5>1
        <5>2. CASE k # 1
          <6>1. PICK j \in 1 .. n - 1 : k = j + 1 /\ j \in 1 .. n
            <7>1. k - 1 \in 1 .. n - 1 /\ k = (k - 1) + 1 /\ k - 1 \in 1 .. n
              BY <1>7, <5>2
            <7> QED BY <7>1
          <6>2. new[j + 1] = kept[j] /\ whole[j + 1] = list[j] /\ kept[j] = list[j]
            BY <3>2, <4>2, <4>3, <6>1
          <6> QED BY <6>1, <6>2
        <5> QED BY <5>1, <5>2
      <4> HIDE DEF new, whole, n
      <4>7. new = SubSeq(whole, 1, n)
        BY <4>3, <4>5, <4>6, SeqEqual
      <4> QED BY <4>4, <4>7 DEF n
    <3> HIDE DEF new, place, whole
    <3> QED BY <3>5, <3>6
  <2>3. ways[w].last_used = 0 \/ ways[w].last_used > 0
    <3> HIDE DEF w
    <3> QED BY <1>4, <1>5
  <2> QED BY <2>1, <2>2, <2>3
<1>10. lru_table'.access_count = c + 1 /\ lru_table'.block = [lru_table.block EXCEPT ![s] = used]
  BY <1>1 DEF Used, UsedNow
<1>11. c + 1 \in Nat /\ c <= c + 1
  BY <1>5
<1> HIDE DEF used, whole, c, s
<1> QED BY <1>1, <1>6, <1>8, <1>9, <1>10, <1>11, SetChanged DEF c

(* invalidate: the way and the element are gone. *)
LEMMA FoundCleared ==
  ASSUME LruInv, NEW elem \in Elements, Hits(lru_table, elem),
         lru_table' = Invalidate(lru_table, elem), Listed(elem, Others(elem))
  PROVE  LruInv'
<1> DEFINE s == SetOf(lru_table, elem)
           ways == WaysOf(lru_table, elem)
           c == lru_table.access_count
           w == WayOf(lru_table, elem)
           cleared == Cleared(ways, w)
           new == Others(elem)
<1>1. s \in LruSetNumbers /\ ways = lru_table.block[s] /\ ways \in [LruWayNumbers -> WayStates]
  BY Located
<1>2. w \in LruWayNumbers /\ \E at : Arranged(cleared, new, at)
  BY FoundLeaves
<1>3. PICK at : Arranged(cleared, new, at)
  BY <1>2
<1>4. c \in Nat /\ c <= c /\ \A v \in LruWayNumbers : ways[v].last_used <= c
  BY <1>1 DEF LruInv
<1>5. cleared \in [LruWayNumbers -> WayStates] /\ \A v \in LruWayNumbers : cleared[v].last_used <= c
  BY <1>1, <1>2, <1>4, UsedTypes
<1>6. lru_table'.access_count = c /\ lru_table'.block = [lru_table.block EXCEPT ![s] = cleared]
  BY <1>1 DEF Invalidate, Cleared, NoData
<1>7. recency' = [recency EXCEPT ![s] = new]
  <2>1. recency' = [recency EXCEPT ![s] = SubSeq(new, 1, Lesser(Len(new), LruWays))]
    BY DEF Listed
  <2> HIDE DEF new, cleared
  <2> QED BY <1>3, <1>5, <2>1, FitsIn
<1> HIDE DEF cleared, new
<1> QED BY <1>1, <1>3, <1>4, <1>5, <1>6, <1>7, SetChanged

LEMMA LruStutters ==
  ASSUME LruInv, UNCHANGED lruVars PROVE LruInv'
<1>1. lru_table' = lru_table /\ recency' = recency
  BY DEF lruVars
<1> QED BY <1>1 DEF LruInv, Arranged

(* An access that finds nothing leaves the list as it is. *)
LEMMA NothingFound ==
  ASSUME LruInv, NEW elem \in Elements, ~Hits(lru_table, elem), UNCHANGED lru_table,
         NEW list, list = Others(elem), Listed(elem, list)
  PROVE  LruInv'
<1> DEFINE s == SetOf(lru_table, elem)
<1>1. /\ s \in LruSetNumbers /\ WaysOf(lru_table, elem) \in [LruWayNumbers -> WayStates]
      /\ Listing(elem) = recency[s]
  BY Located
<1>2. PICK at : Arranged(WaysOf(lru_table, elem), Listing(elem), at)
  BY Located
<1>3. Same(elem) = {} /\ Listing(elem) \in Seq(Elements)
  <2>1. Same(elem) = {}
    BY <1>2, Located
  <2>2. Listing(elem) \in Seq(Elements)
    BY <1>2 DEF Arranged
  <2> QED BY <2>1, <2>2
<1>4. list = Listing(elem)
  <2>1. DOMAIN Listing(elem) \ Same(elem) = DOMAIN Listing(elem)
    BY <1>3
  <2> QED BY <1>3, <2>1, AllOfThem DEF Others
<1>5. SubSeq(list, 1, Lesser(Len(list), LruWays)) = list
  BY <1>1, <1>2, <1>4, FitsIn
<1>6. recency' = [recency EXCEPT ![s] = recency[s]]
  BY <1>1, <1>4, <1>5 DEF Listed
<1>7. recency' = recency
  <2>1. recency \in [LruSetNumbers -> Seq(Elements)]
    BY DEF LruInv
  <2> HIDE DEF s
  <2> QED BY <1>6, <2>1
<1>8. UNCHANGED lruVars
  BY <1>7 DEF lruVars
<1> QED BY <1>8, LruStutters

LEMMA LruStarts == LruInit => LruInv
<1> SUFFICES ASSUME LruInit PROVE LruInv
  OBVIOUS
<1>1. /\ lru_table.access_count = 0 /\ recency \in [LruSetNumbers -> Seq(Elements)]
      /\ \A s \in LruSetNumbers : recency[s] = <<>>
      /\ lru_table.block = [s \in LruSetNumbers |-> [w \in LruWayNumbers |-> [last_used |-> 0, data |-> NoData]]]
  BY DEF LruInit, NewTable, LruSetNumbers, LruWayNumbers, NoData
<1>2. [last_used |-> 0, data |-> NoData] \in WayStates
  BY DEF WayStates
<1>3. lru_table.block \in [LruSetNumbers -> [LruWayNumbers -> WayStates]]
  BY <1>1, <1>2
<1>4. \A s \in LruSetNumbers, w \in LruWayNumbers : lru_table.block[s][w].last_used = 0
  BY <1>1
<1>5. \A s \in LruSetNumbers : Arranged(lru_table.block[s], recency[s], <<>>)
  <2> SUFFICES ASSUME NEW s \in LruSetNumbers PROVE Arranged(lru_table.block[s], <<>>, <<>>)
    BY <1>1
  <2>1. \A w \in LruWayNumbers : ~(lru_table.block[s][w].last_used > 0)
    BY <1>4
  <2>2. \A i \in DOMAIN <<>> : FALSE
    OBVIOUS
  <2>3. <<>> \in Seq(LruWayNumbers) /\ <<>> \in Seq(Elements)
    OBVIOUS
  <2> QED BY <2>1, <2>2, <2>3 DEF Arranged
<1> QED BY <1>1, <1>3, <1>4, <1>5 DEF LruInv

LEMMA LruKeeps == LruInv /\ [LruNext]_lruVars => LruInv'
<1> SUFFICES ASSUME LruInv, [LruNext]_lruVars PROVE LruInv'
  OBVIOUS
<1>1. CASE UNCHANGED lruVars
  BY <1>1, LruStutters
<1>2. ASSUME NEW elem \in Elements, lru_table' = CheckHit(lru_table, elem),
             Listed(elem, At(Listing(elem), Same(elem)) \o Others(elem))
      PROVE  LruInv'
  <2>1. PICK at : Arranged(WaysOf(lru_table, elem), Listing(elem), at)
    BY Located
  <2>2. Listing(elem) \in Seq(Elements) /\ Same(elem) \in SUBSET DOMAIN Listing(elem)
        /\ DOMAIN at = DOMAIN Listing(elem)
    BY <2>1 DEF Arranged, Same
  <2>3. CASE Hits(lru_table, elem)
    <3>1. PICK i \in DOMAIN at : Same(elem) = {i} /\ DataOf(lru_table, elem) = Listing(elem)[i]
      BY <2>1, <2>3, Located
    <3> DEFINE d == Listing(elem)[i]
    <3>2. d \in Elements /\ d.tag = elem.tag
      BY <2>2, <3>1 DEF Same
    <3>3. At(Listing(elem), Same(elem)) = <<d>>
      <4>1. Cardinality({i}) = 1
        BY FS_Singleton
      <4> DEFINE one == At(Listing(elem), {i})
      <4>2. {i} \in SUBSET DOMAIN Listing(elem) /\ 1 \in 1 .. 1
        BY <2>2, <3>1
      <4>3. /\ one \in Seq(Elements) /\ Len(one) = Cardinality({i})
            /\ \A k \in 1 .. Cardinality({i}) : one[k] = Listing(elem)[Nth({i}, k)] /\ Nth({i}, k) \in {i}
        BY <2>2, <4>2, Picked
      <4>4. one \in Seq(Elements) /\ Len(one) = 1 /\ one[1] = d
        BY <4>1, <4>2, <4>3
      <4> HIDE DEF one, d
      <4>5. one = <<d>>
        BY <4>4
      <4> QED BY <3>1, <4>5 DEF one
    <3>4. lru_table' = Used(lru_table, elem, WayOf(lru_table, elem), d)
      BY <1>2, <2>3, <3>1 DEF CheckHit
    <3> HIDE DEF d
    <3> QED BY <1>2, <2>3, <3>2, <3>3, <3>4, FoundUsed
  <2>4. CASE ~Hits(lru_table, elem)
    <3>1. Same(elem) = {}
      BY <2>1, <2>4, Located
    <3>2. At(Listing(elem), Same(elem)) = <<>>
      <4>1. Cardinality({}) = 0
        BY FS_EmptySet
      <4>2. At(Listing(elem), {}) \in Seq(Elements) /\ Len(At(Listing(elem), {})) = 0
        BY <2>2, <3>1, <4>1, Picked
      <4> QED BY <3>1, <4>2
    <3>3. Others(elem) \in Seq(Elements)
      BY <2>2, Picked DEF Others
    <3>4. <<>> \o Others(elem) = Others(elem)
      BY <3>3
    <3>5. UNCHANGED lru_table
      BY <1>2, <2>4 DEF CheckHit
    <3> QED BY <1>2, <2>4, <3>2, <3>4, <3>5, NothingFound
  <2> QED BY <2>3, <2>4
<1>3. ASSUME NEW elem \in Elements, lru_table' = Fill(lru_table, elem), Listed(elem, <<elem>> \o Others(elem))
      PROVE  LruInv'
  <2>1. CASE Hits(lru_table, elem)
    BY <1>3, <2>1, FoundUsed DEF Fill
  <2>2. CASE ~Hits(lru_table, elem)
    BY <1>3, <2>2, NewUsed DEF Fill
  <2> QED BY <2>1, <2>2
<1>4. ASSUME NEW elem \in Elements, lru_table' = Invalidate(lru_table, elem), Listed(elem, Others(elem))
      PROVE  LruInv'
  <2>1. CASE Hits(lru_table, elem)
    BY <1>4, <2>1, FoundCleared
  <2>2. CASE ~Hits(lru_table, elem)
    <3>1. UNCHANGED lru_table
      BY <1>4, <2>2 DEF Invalidate
    <3> QED BY <1>4, <2>2, <3>1, NothingFound
  <2> QED BY <2>1, <2>2
<1> QED BY <1>1, <1>2, <1>3, <1>4 DEF LruNext

(* lru_table keeps the most recently used elements of every set, in the order of *)
(* their use and with the data they were last filled with - for any number of    *)
(* sets and ways and any sequence of check_hit, fill and invalidate.             *)
THEOREM RecencyKept == LruSpec => []TableKeepsRecency
<1>1. ASSUME LruInv PROVE TableKeepsRecency
  <2> SUFFICES ASSUME NEW s \in LruSetNumbers
               PROVE  LET ways == lru_table.block[s]
                          valid == {w \in DOMAIN ways : ways[w].last_used > 0}
                          rank(w) == Cardinality({v \in valid : ways[v].last_used >= ways[w].last_used})
                      IN  /\ Cardinality(valid) = Len(recency[s])
                          /\ \A w \in valid : recency[s][rank(w)] = ways[w].data
    BY <1>1 DEF TableKeepsRecency, LruInv
  <2>1. lru_table.block[s] \in [LruWayNumbers -> WayStates] /\ DOMAIN lru_table.block[s] = LruWayNumbers
        /\ \E at : Arranged(lru_table.block[s], recency[s], at)
    BY <1>1 DEF LruInv
  <2> DEFINE ways == lru_table.block[s]
             valid == {w \in LruWayNumbers : ways[w].last_used > 0}
             rank(w) == Cardinality({v \in valid : ways[v].last_used >= ways[w].last_used})
  <2>2. PICK at : Arranged(ways, recency[s], at)
    BY <2>1
  <2>3. Cardinality(valid) = Len(recency[s]) /\ \A w \in valid : recency[s][rank(w)] = ways[w].data
    <3> HIDE DEF ways
    <3>1. ways \in [LruWayNumbers -> WayStates]
      BY <2>1 DEF ways
    <3> QED BY <2>2, <3>1, InOrder
  <2> QED BY <2>1, <2>3
<1> QED BY <1>1, LruStarts, LruKeeps, PTL DEF LruSpec

-------------------------------------------------------------------------------
(* The branch target buffer *)

CallSites == {i.ip : i \in {j \in BtbProgram : IsCall(Kind(j))}}
Trackers == 0 .. CALL_TRACKERS - 1

(* The stack is the end of the list of open calls. *)
EndsWith(stack, list) ==
  /\ stack \in Seq(CallSites) /\ list \in Seq(CallSites) /\ Len(stack) <= Len(list)
  /\ \A k \in 1 .. Len(stack) : stack[k] = list[Len(list) - Len(stack) + k]

(* A tracker that a return has set holds the size of its calls, if they have one. *)
SizesLearnt(sizes, trackers) ==
  /\ sizes \in [Trackers -> Nat]
  /\ \A ip \in CallSites : Tracker(ip) \in trackers /\ OneSize(ip) => sizes[Tracker(ip)] = CallSize[ip]

OutcomeIsRight ==
  /\ outcome.kind = "RETURN" /\ outcome.known => outcome.predicted = outcome.target
  /\ IsCall(outcome.kind) \/ outcome.kind = "RETURN" => REG_STACK_POINTER \notin outcome.writes

BtbInv ==
  /\ ras \in [stack : Seq(CallSites), call_size_trackers : [Trackers -> Nat]]
  /\ EndsWith(ras.stack, calls)
  /\ SizesLearnt(ras.call_size_trackers, calibrated)
  /\ OutcomeIsRight

LEMMA Sites ==
  /\ \A ip \in CallSites : ip \in Nat /\ CallSize[ip] \in Nat /\ Tracker(ip) \in Trackers
  /\ \A i \in BtbProgram : IsCall(Kind(i)) => i.ip \in CallSites
<1>1. CALL_TRACKERS \in Nat /\ CALL_TRACKERS > 0
  BY BtbAssumption
<1>2. \A n \in Nat : n % CALL_TRACKERS \in 0 .. CALL_TRACKERS - 1
  BY <1>1
<1>3. \A i \in BtbProgram : i.ip \in Nat /\ CallSize[i.ip] \in Nat
  BY BtbAssumption
<1>4. \A ip \in CallSites : ip \in Nat /\ CallSize[ip] \in Nat
  BY <1>3 DEF CallSites
<1>5. \A i \in BtbProgram : IsCall(Kind(i)) => i.ip \in CallSites
  BY DEF CallSites
<1> QED BY <1>2, <1>4, <1>5 DEF Tracker, Trackers

(* push: the last call is on both; the oldest leaves a stack that is full. *)
LEMMA PushEnds ==
  ASSUME NEW stack, NEW list, EndsWith(stack, list), NEW ip \in CallSites
  PROVE  /\ EndsWith(Append(stack, ip), Append(list, ip))
         /\ Append(stack, ip) # <<>> /\ EndsWith(Tail(Append(stack, ip)), Append(list, ip))
<1> DEFINE s == Append(stack, ip)
           l == Append(list, ip)
<1>1. /\ stack \in Seq(CallSites) /\ list \in Seq(CallSites) /\ Len(stack) <= Len(list)
      /\ Len(stack) \in Nat /\ Len(list) \in Nat
      /\ \A k \in 1 .. Len(stack) : stack[k] = list[Len(list) - Len(stack) + k]
  BY DEF EndsWith
<1>2. /\ s \in Seq(CallSites) /\ Len(s) = Len(stack) + 1 /\ s[Len(stack) + 1] = ip
      /\ \A k \in 1 .. Len(stack) : s[k] = stack[k]
  BY <1>1
<1>3. /\ l \in Seq(CallSites) /\ Len(l) = Len(list) + 1 /\ l[Len(list) + 1] = ip
      /\ \A k \in 1 .. Len(list) : l[k] = list[k]
  BY <1>1
<1> HIDE DEF s, l
<1>4. \A k \in 1 .. Len(s) : s[k] = l[Len(l) - Len(s) + k]
  <2> SUFFICES ASSUME NEW k \in 1 .. Len(s) PROVE s[k] = l[Len(l) - Len(s) + k]
    OBVIOUS
  <2>1. CASE k = Len(stack) + 1
    <3>1. Len(l) - Len(s) + k = Len(list) + 1
      BY <1>1, <1>2, <1>3, <2>1
    <3> QED BY <1>2, <1>3, <2>1, <3>1
  <2>2. CASE k # Len(stack) + 1
    <3>1. k \in 1 .. Len(stack) /\ Len(l) - Len(s) + k = Len(list) - Len(stack) + k
          /\ Len(list) - Len(stack) + k \in 1 .. Len(list)
      BY <1>1, <1>2, <1>3, <2>2
    <3> QED BY <1>1, <1>2, <1>3, <3>1
  <2> QED BY <2>1, <2>2
<1>5. EndsWith(s, l)
  BY <1>1, <1>2, <1>3, <1>4 DEF EndsWith
<1>6. s # <<>>
  BY <1>1, <1>2
<1>7. EndsWith(Tail(s), l)
  <2>1. /\ Tail(s) \in Seq(CallSites) /\ Len(Tail(s)) = Len(s) - 1
        /\ \A k \in 1 .. Len(s) - 1 : Tail(s)[k] = s[k + 1]
    BY <1>2, <1>6
  <2>2. ASSUME NEW k \in 1 .. Len(Tail(s)) PROVE Tail(s)[k] = l[Len(l) - Len(Tail(s)) + k]
    <3> DEFINE j == k + 1
    <3>1. Len(s) \in Nat /\ Len(l) \in Nat /\ Len(Tail(s)) = Len(s) - 1
      BY <1>1, <1>2, <1>3, <2>1
    <3> DEFINE m == Len(Tail(s))
               n == Len(s)
               p == Len(l)
    <3>a. m \in Nat /\ n \in Nat /\ p \in Nat /\ m = n - 1 /\ k \in 1 .. m
      BY <3>1
    <3> HIDE DEF m, n, p
    <3>b. k \in 1 .. n - 1 /\ j \in 1 .. n /\ p - n + j = p - m + k
      BY <3>a
    <3>2. k \in 1 .. Len(s) - 1 /\ j \in 1 .. Len(s)
          /\ Len(l) - Len(s) + j = Len(l) - Len(Tail(s)) + k
      BY <3>b DEF m, n, p
    <3>3. Tail(s)[k] = s[j]
      BY <2>1, <3>2
    <3> HIDE DEF j
    <3>4. s[j] = l[Len(l) - Len(s) + j]
      BY <1>4, <3>2
    <3> QED BY <3>2, <3>3, <3>4
  <2>3. Len(Tail(s)) <= Len(l)
    BY <1>1, <1>2, <1>3, <2>1
  <2> QED BY <1>3, <2>1, <2>2, <2>3 DEF EndsWith
<1> QED BY <1>5, <1>6, <1>7 DEF s, l

(* A return takes the last one of both, and they are the same. *)
LEMMA PopEnds ==
  ASSUME NEW stack, NEW list, EndsWith(stack, list), list # <<>>
  PROVE  /\ Top(list) \in CallSites
         /\ stack # <<>> => Top(stack) = Top(list) /\ EndsWith(Pop(stack), Pop(list))
         /\ EndsWith(<<>>, Pop(list))
<1>1. /\ stack \in Seq(CallSites) /\ list \in Seq(CallSites) /\ Len(stack) <= Len(list)
      /\ Len(stack) \in Nat /\ Len(list) \in Nat /\ Len(list) > 0
      /\ \A k \in 1 .. Len(stack) : stack[k] = list[Len(list) - Len(stack) + k]
  BY DEF EndsWith
<1>2. Top(list) \in CallSites
  BY <1>1 DEF Top
<1>3. \A s \in Seq(CallSites) : s # <<>> =>
        /\ Pop(s) \in Seq(CallSites) /\ Len(Pop(s)) = Len(s) - 1
        /\ \A k \in 1 .. Len(s) - 1 : Pop(s)[k] = s[k]
  <2> SUFFICES ASSUME NEW s \in Seq(CallSites), s # <<>>
               PROVE  /\ Pop(s) \in Seq(CallSites) /\ Len(Pop(s)) = Len(s) - 1
                      /\ \A k \in 1 .. Len(s) - 1 : Pop(s)[k] = s[k]
    OBVIOUS
  <2>1. Len(s) \in Nat /\ Len(s) > 0
    OBVIOUS
  <2> DEFINE n == Len(s) - 1
  <2>2. n \in Nat /\ 1 \in Int /\ n \in Int /\ \A i \in 1 .. n : s[i] \in CallSites
    BY <2>1
  <2> HIDE DEF n
  <2>3. /\ SubSeq(s, 1, n) \in Seq(CallSites) /\ Len(SubSeq(s, 1, n)) = IF 1 <= n THEN n - 1 + 1 ELSE 0
        /\ \A i \in 1 .. n - 1 + 1 : SubSeq(s, 1, n)[i] = s[1 + i - 1]
    BY <2>2, SubSeqProperties
  <2>4. Len(SubSeq(s, 1, n)) = n /\ \A k \in 1 .. n : SubSeq(s, 1, n)[k] = s[k]
    BY <2>2, <2>3
  <2> QED BY <2>3, <2>4 DEF Pop, n
<1>4. EndsWith(<<>>, Pop(list))
  <2>1. Pop(list) \in Seq(CallSites) /\ Len(Pop(list)) \in Nat
    BY <1>1, <1>3
  <2>2. <<>> \in Seq(CallSites) /\ Len(<<>>) = 0
    OBVIOUS
  <2>3. 1 .. Len(<<>>) = {}
    BY <2>2
  <2> QED BY <2>1, <2>2, <2>3 DEF EndsWith
<1>5. ASSUME stack # <<>>
      PROVE  Top(stack) = Top(list) /\ EndsWith(Pop(stack), Pop(list))
  <2>1. Len(stack) > 0
    BY <1>1, <1>5
  <2>2. Top(stack) = Top(list)
    <3>1. Len(stack) \in 1 .. Len(stack) /\ Len(list) - Len(stack) + Len(stack) = Len(list)
      BY <1>1, <2>1
    <3>2. stack[Len(stack)] = list[Len(list) - Len(stack) + Len(stack)]
      BY <1>1, <3>1
    <3> QED BY <3>1, <3>2 DEF Top
  <2> DEFINE s == Pop(stack)
             l == Pop(list)
  <2>3. /\ s \in Seq(CallSites) /\ Len(s) = Len(stack) - 1
        /\ \A k \in 1 .. Len(stack) - 1 : s[k] = stack[k]
    BY <1>1, <1>3, <1>5
  <2>4. /\ l \in Seq(CallSites) /\ Len(l) = Len(list) - 1
        /\ \A k \in 1 .. Len(list) - 1 : l[k] = list[k]
    BY <1>1, <1>3
  <2> HIDE DEF s, l
  <2>5. ASSUME NEW k \in 1 .. Len(s) PROVE s[k] = l[Len(l) - Len(s) + k]
    <3> DEFINE j == Len(list) - Len(stack) + k
    <3>1. k \in 1 .. Len(stack) /\ k \in 1 .. Len(stack) - 1 /\ j \in 1 .. Len(list) - 1
          /\ Len(l) - Len(s) + k = j
      BY <1>1, <2>1, <2>3, <2>4
    <3>2. stack[k] = list[j]
      BY <1>1, <3>1
    <3> HIDE DEF j
    <3>3. s[k] = stack[k] /\ l[j] = list[j]
      BY <2>3, <2>4, <3>1
    <3> QED BY <3>1, <3>2, <3>3
  <2>6. Len(s) <= Len(l)
    BY <1>1, <2>3, <2>4
  <2> QED BY <2>2, <2>3, <2>4, <2>5, <2>6 DEF EndsWith, s, l
<1> QED BY <1>2, <1>4, <1>5

(* The stack pointer is not renamed for an instruction that is a branch. *)
LEMMA PointerFolded ==
  ASSUME NEW i \in BtbProgram, NEW warmup \in BOOLEAN, Kind(i) # "NOT_BRANCH"
  PROVE  REG_STACK_POINTER \notin InitInstruction(Decoded(i.instr), warmup).writes
<1> DEFINE Instructions == [reads : SUBSET STRING, writes : SUBSET STRING, memory : BOOLEAN,
                            is_branch : BOOLEAN, taken : BOOLEAN]
           d == Decoded(i.instr)
           e == IF warmup THEN [d EXCEPT !.reads = {}, !.writes = {}] ELSE d
<1>1. i.instr \in Instructions
  BY BtbAssumption
<1>2. d.is_branch /\ DOMAIN d = {"reads", "writes", "memory", "is_branch", "taken"}
  BY <1>1 DEF Decoded, Kind
<1> HIDE DEF d
<1>3. e.is_branch /\ "writes" \in DOMAIN e
  BY <1>2
<1> HIDE DEF e
<1>4. StackPointerFolded(e) = [e EXCEPT !.writes = @ \ {REG_STACK_POINTER}]
  BY <1>3 DEF StackPointerFolded
<1>5. StackPointerFolded(e).writes = e.writes \ {REG_STACK_POINTER}
  BY <1>3, <1>4
<1> QED BY <1>5 DEF InitInstruction, d, e

LEMMA BtbStarts == BtbInit => BtbInv
<1> SUFFICES ASSUME BtbInit PROVE BtbInv
  OBVIOUS
<1>1. /\ ras = [stack |-> <<>>, call_size_trackers |-> [i \in Trackers |-> 4]]
      /\ calls = <<>> /\ calibrated = {}
      /\ outcome.kind = "NONE"
  BY DEF BtbInit, Trackers
<1>2. <<>> \in Seq(CallSites) /\ Len(<<>>) = 0
  OBVIOUS
<1>3. 1 .. Len(<<>>) = {}
  BY <1>2
<1>4. [i \in Trackers |-> 4] \in [Trackers -> Nat]
  OBVIOUS
<1>5. EndsWith(<<>>, <<>>)
  BY <1>2, <1>3 DEF EndsWith
<1> QED BY <1>1, <1>2, <1>4, <1>5 DEF BtbInv, SizesLearnt, OutcomeIsRight, IsCall

(* What is recorded of a branch, whatever its kind. *)
LEMMA BranchRecorded ==
  ASSUME BtbInv, NEW i \in BtbProgram, NEW target, NEW taken, Branch(i, target, taken)
  PROVE  /\ outcome'.kind = Kind(i) /\ outcome'.target = target
         /\ outcome'.known => ras.stack # <<>> /\ Tracker(Top(ras.stack)) \in calibrated
                              /\ OneSize(Top(ras.stack))
         /\ Kind(i) = "RETURN" /\ outcome'.known => outcome'.predicted = RasPrediction
         /\ IsCall(Kind(i)) \/ Kind(i) = "RETURN" => REG_STACK_POINTER \notin outcome'.writes
<1>1. PICK warmup \in BOOLEAN :
        outcome' = [kind |-> Kind(i), writes |-> InitInstruction(Decoded(i.instr), warmup).writes,
                    predicted |-> Prediction(i.ip), target |-> target,
                    known |-> Hits(BTB, Key(i.ip)) /\ DataOf(BTB, Key(i.ip)).type = BranchInfo(Kind(i))
                              /\ ras.stack # <<>> /\ Tracker(Top(ras.stack)) \in calibrated
                              /\ OneSize(Top(ras.stack)),
                    branches |-> outcome.branches + 1]
  BY DEF Branch
<1>2. /\ outcome'.kind = Kind(i) /\ outcome'.target = target
      /\ outcome'.writes = InitInstruction(Decoded(i.instr), warmup).writes
      /\ outcome'.predicted = Prediction(i.ip)
  BY <1>1
<1>3. outcome'.known => /\ Hits(BTB, Key(i.ip)) /\ DataOf(BTB, Key(i.ip)).type = BranchInfo(Kind(i))
                        /\ ras.stack # <<>> /\ Tracker(Top(ras.stack)) \in calibrated /\ OneSize(Top(ras.stack))
  BY <1>1
<1>4. Kind(i) = "RETURN" /\ outcome'.known => outcome'.predicted = RasPrediction
  <2>1. Kind(i) = "RETURN" => BranchInfo(Kind(i)) = "RETURN"
    BY DEF BranchInfo
  <2> QED BY <1>2, <1>3, <2>1 DEF Prediction
<1>5. IsCall(Kind(i)) \/ Kind(i) = "RETURN" => REG_STACK_POINTER \notin outcome'.writes
  <2>1. IsCall(Kind(i)) \/ Kind(i) = "RETURN" => Kind(i) # "NOT_BRANCH"
    BY DEF IsCall
  <2> QED BY <1>2, <2>1, PointerFolded
<1> QED BY <1>2, <1>3, <1>4, <1>5

LEMMA CallKeeps ==
  ASSUME BtbInv, NEW i \in BtbProgram, Call(i)
  PROVE  BtbInv'
<1>1. IsCall(Kind(i)) /\ Branch(i, i.target, 1) /\ calls' = Append(calls, i.ip) /\ calibrated' = calibrated
  BY DEF Call
<1>2. i.ip \in CallSites
  BY <1>1, Sites
<1> DEFINE longer == Append(ras.stack, i.ip)
           new == IF Len(longer) > RAS_SIZE THEN Tail(longer) ELSE longer
<1>3. EndsWith(new, Append(calls, i.ip)) /\ new \in Seq(CallSites)
  <2>1. EndsWith(longer, Append(calls, i.ip)) /\ EndsWith(Tail(longer), Append(calls, i.ip))
    BY <1>2, PushEnds DEF BtbInv
  <2> HIDE DEF longer
  <2>2. EndsWith(new, Append(calls, i.ip))
    BY <2>1
  <2> HIDE DEF new
  <2> QED BY <2>2 DEF EndsWith
<1>4. ras' = [ras EXCEPT !.stack = new]
  <2>1. ras' = Pushed(i.ip)
    <3>1. ras' = CASE IsCall(Kind(i)) -> Pushed(i.ip)
                   [] Kind(i) = "RETURN" -> Calibrated(i.target)
                   [] OTHER -> ras
      BY <1>1 DEF Branch
    <3>2. Kind(i) # "RETURN"
      BY <1>1 DEF IsCall
    <3> QED BY <1>1, <3>1, <3>2
  <2> QED BY <2>1 DEF Pushed
<1> HIDE DEF new, longer
<1>5. /\ ras' \in [stack : Seq(CallSites), call_size_trackers : [Trackers -> Nat]]
      /\ ras'.stack = new /\ ras'.call_size_trackers = ras.call_size_trackers
  BY <1>3, <1>4 DEF BtbInv
<1>6. EndsWith(ras.stack, calls)' /\ SizesLearnt(ras.call_size_trackers, calibrated)'
  BY <1>1, <1>3, <1>5 DEF BtbInv
<1>7. OutcomeIsRight'
  <2>1. Kind(i) # "RETURN"
    BY <1>1 DEF IsCall
  <2> QED BY <1>1, <2>1, BranchRecorded DEF OutcomeIsRight
<1> QED BY <1>5, <1>6, <1>7 DEF BtbInv

LEMMA JumpKeeps ==
  ASSUME BtbInv, NEW i \in BtbProgram, Jump(i)
  PROVE  BtbInv'
<1>1. PICK target, taken : Branch(i, target, taken)
  BY DEF Jump
<1>2. ~IsCall(Kind(i)) /\ Kind(i) # "RETURN" /\ UNCHANGED <<calls, calibrated>>
  BY DEF Jump
<1>3. ras' = ras
  BY <1>1, <1>2 DEF Branch
<1>4. OutcomeIsRight'
  BY <1>1, <1>2, BranchRecorded DEF OutcomeIsRight
<1> QED BY <1>2, <1>3, <1>4 DEF BtbInv

LEMMA ReturnKeeps ==
  ASSUME BtbInv, NEW i \in BtbProgram, Return(i)
  PROVE  BtbInv'
<1> DEFINE site == Top(calls)
           target == site + CallSize[site]
           top == Top(ras.stack)
           sizes == ras.call_size_trackers
<1>1. /\ Kind(i) = "RETURN" /\ calls # <<>> /\ Branch(i, target, 1) /\ calls' = Pop(calls)
      /\ calibrated' = calibrated \cup IF ras.stack # <<>> THEN {Tracker(top)} ELSE {}
  BY DEF Return
<1>2. ras' = Calibrated(target)
  BY <1>1 DEF Branch, IsCall
<1>3. /\ site \in CallSites /\ EndsWith(<<>>, Pop(calls))
      /\ ras.stack # <<>> => top = site /\ EndsWith(Pop(ras.stack), Pop(calls))
  BY <1>1, PopEnds DEF BtbInv
<1>4. site \in Nat /\ CallSize[site] \in Nat /\ Tracker(site) \in Trackers
  BY <1>3, Sites
<1>5. /\ ras \in [stack : Seq(CallSites), call_size_trackers : [Trackers -> Nat]]
      /\ sizes \in [Trackers -> Nat] /\ SizesLearnt(sizes, calibrated)
  BY DEF BtbInv
<1> HIDE DEF site, top, sizes
<1>6. CASE ras.stack = <<>>
  <2>1. ras' = ras /\ calls' = Pop(calls) /\ calibrated' = calibrated
    BY <1>1, <1>2, <1>6 DEF Calibrated
  <2>2. ~outcome'.known
    BY <1>1, <1>6, BranchRecorded
  <2>3. OutcomeIsRight'
    BY <1>1, <2>2, BranchRecorded DEF OutcomeIsRight
  <2> QED BY <1>3, <1>5, <1>6, <2>1, <2>3 DEF BtbInv, sizes
<1>7. CASE ras.stack # <<>>
  <2> DEFINE size == CallSize[site]
             learnt == [sizes EXCEPT ![Tracker(site)] = IF size <= 10 THEN size ELSE @]
  <2>1. ras' = [stack |-> Pop(ras.stack), call_size_trackers |-> learnt]
    <3>1. ~(site > target) /\ target - site = size
      BY <1>4
    <3>2. top = site
      BY <1>3, <1>7
    <3> HIDE DEF target
    <3> QED BY <1>2, <1>7, <3>1, <3>2 DEF Calibrated, top, sizes
  <2>2. learnt \in [Trackers -> Nat]
    BY <1>4, <1>5
  <2>3. calibrated' = calibrated \cup {Tracker(site)}
    BY <1>1, <1>3, <1>7
  <2>4. ASSUME NEW ip \in CallSites, Tracker(ip) \in calibrated', OneSize(ip)
        PROVE  learnt[Tracker(ip)] = CallSize[ip]
    <3>1. CASE Tracker(ip) = Tracker(site)
      <4>1. PICK k \in BtbProgram : IsCall(Kind(k)) /\ k.ip = site
        BY <1>3 DEF CallSites
      <4>2. size = CallSize[ip] /\ size <= 10
        BY <2>4, <3>1, <4>1 DEF OneSize
      <4> QED BY <1>4, <1>5, <3>1, <4>2
    <3>2. CASE Tracker(ip) # Tracker(site)
      <4>1. sizes[Tracker(ip)] = CallSize[ip]
        BY <1>5, <2>3, <2>4, <3>2 DEF SizesLearnt
      <4>2. Tracker(ip) \in Trackers
        BY Sites
      <4> QED BY <1>4, <1>5, <3>2, <4>1, <4>2
    <3> QED BY <3>1, <3>2
  <2>5. EndsWith(Pop(ras.stack), Pop(calls)) /\ Pop(ras.stack) \in Seq(CallSites)
    BY <1>3, <1>7 DEF EndsWith
  <2>6. OutcomeIsRight'
    <3>1. Kind(i) = "RETURN" /\ outcome'.known => outcome'.predicted = RasPrediction
      BY <1>1, BranchRecorded
    <3>2. outcome'.known => RasPrediction = target
      <4>1. outcome'.known => Tracker(site) \in calibrated /\ OneSize(site)
        BY <1>1, <1>3, <1>7, BranchRecorded DEF top
      <4>2. outcome'.known => sizes[Tracker(site)] = CallSize[site]
        BY <1>3, <1>5, <4>1 DEF SizesLearnt
      <4>3. RasPrediction = site + sizes[Tracker(site)]
        BY <1>3, <1>7 DEF RasPrediction, top, sizes
      <4> QED BY <4>2, <4>3
    <3>3. outcome'.target = target /\ outcome'.kind = "RETURN" /\ REG_STACK_POINTER \notin outcome'.writes
      BY <1>1, BranchRecorded
    <3> HIDE DEF target
    <3> QED BY <1>1, <3>1, <3>2, <3>3 DEF OutcomeIsRight
  <2> HIDE DEF learnt
  <2>7. SizesLearnt(learnt, calibrated')
    BY <2>2, <2>4 DEF SizesLearnt
  <2>8. ras' \in [stack : Seq(CallSites), call_size_trackers : [Trackers -> Nat]]
        /\ ras'.stack = Pop(ras.stack) /\ ras'.call_size_trackers = learnt
    BY <2>1, <2>2, <2>5
  <2> QED BY <1>1, <2>5, <2>6, <2>7, <2>8 DEF BtbInv
<1> QED BY <1>6, <1>7

(* However deep calls nest and however returns, calls and jumps follow each      *)
(* other, the stack holds the innermost open calls, and a return whose call it   *)
(* still holds is predicted exactly once its tracker has learnt the one size of  *)
(* its calls - for any program, any size of the stack and of its trackers.       *)
THEOREM ReturnsPredicted == BtbSpec => []ReturnsFollowCalls
<1>1. BtbInv => ReturnsFollowCalls
  <2> SUFFICES ASSUME BtbInv PROVE ReturnsFollowCalls
    OBVIOUS
  <2> DEFINE stack == ras.stack
             n == Len(stack)
             from == Len(calls) - n + 1
             end == SubSeq(calls, from, Len(calls))
  <2>1. /\ stack \in Seq(CallSites) /\ calls \in Seq(CallSites) /\ n <= Len(calls)
        /\ n \in Nat /\ Len(calls) \in Nat
        /\ \A k \in 1 .. n : stack[k] = calls[Len(calls) - n + k]
    BY DEF BtbInv, EndsWith
  <2>2. stack = end
    <3>1. from \in Int /\ Len(calls) \in Int /\ \A i \in from .. Len(calls) : calls[i] \in CallSites
      BY <2>1
    <3> HIDE DEF from
    <3>2. /\ end \in Seq(CallSites) /\ Len(end) = IF from <= Len(calls) THEN Len(calls) - from + 1 ELSE 0
          /\ \A i \in 1 .. Len(calls) - from + 1 : end[i] = calls[from + i - 1]
      <4> DEFINE m == Len(calls)
      <4>1. m \in Int /\ from \in Int /\ \A i \in from .. m : calls[i] \in CallSites
        BY <3>1
      <4> HIDE DEF m
      <4>2. /\ SubSeq(calls, from, m) \in Seq(CallSites)
            /\ Len(SubSeq(calls, from, m)) = IF from <= m THEN m - from + 1 ELSE 0
            /\ \A i \in 1 .. m - from + 1 : SubSeq(calls, from, m)[i] = calls[from + i - 1]
        BY <4>1, SubSeqProperties
      <4> QED BY <4>2 DEF m
    <3>3. Len(calls) - from + 1 = n /\ (~(from <= Len(calls)) => n = 0)
          /\ \A k \in 1 .. n : from + k - 1 = Len(calls) - n + k
      BY <2>1 DEF from
    <3> HIDE DEF end, stack
    <3>4. Len(end) = n /\ \A k \in 1 .. n : end[k] = stack[k]
      BY <2>1, <3>2, <3>3
    <3> QED BY <2>1, <3>2, <3>4, SeqEqual
  <2> QED BY <2>1, <2>2 DEF ReturnsFollowCalls, BtbInv, OutcomeIsRight
<1>2. BtbInv /\ [BtbNext]_btbVars => BtbInv'
  <2> SUFFICES ASSUME BtbInv, [BtbNext]_btbVars PROVE BtbInv'
    OBVIOUS
  <2>1. CASE UNCHANGED btbVars
    BY <2>1 DEF btbVars, BtbInv, OutcomeIsRight
  <2>2. CASE BtbNext
    BY <2>2, CallKeeps, ReturnKeeps, JumpKeeps DEF BtbNext
  <2> QED BY <2>1, <2>2
<1> QED BY <1>1, <1>2, BtbStarts, PTL DEF BtbSpec

-------------------------------------------------------------------------------
(* The replacement policies *)

SetRows(S) == [CacheSets -> [CacheWays -> S]]

(* lru: no two blocks of a set were used at one time, and what was used later *)
(* than a block was used since.                                               *)
Ordered(c, used, now, since) ==
  /\ now \in Nat /\ used \in SetRows(Nat) /\ since \in SetRows(SUBSET CacheWays)
  /\ \A s \in CacheSets, w \in CacheWays : c[s][w] # NoLine => used[s][w] < now
  /\ \A s \in CacheSets, v, w \in CacheWays :
       c[s][v] # NoLine /\ c[s][w] # NoLine /\ v # w =>
         /\ used[s][v] # used[s][w]
         /\ used[s][w] < used[s][v] => v \in since[s][w]

(* The others: a block promoted since the last search of its set is at 0, and *)
(* what is at 0 was promoted since its fill.                                  *)
Promoted(c, values, front, again) ==
  /\ values \in SetRows(0 .. maxRRPV)
  /\ front \in [CacheSets -> SUBSET CacheWays] /\ again \in [CacheSets -> SUBSET CacheWays]
  /\ \A s \in CacheSets, w \in CacheWays :
       /\ w \in front[s] => values[s][w] = 0 /\ c[s][w] # NoLine
       /\ values[s][w] = 0 /\ c[s][w] # NoLine => w \in again[s]

(* The victim of a refused fill is what the next search finds. *)
Refusing(c, used, values, chosen) ==
  /\ chosen \in [CacheSets -> SUBSET CacheWays]
  /\ \A s \in CacheSets : \A w \in chosen[s] :
       /\ \A v \in CacheWays : c[s][v] # NoLine
       /\ policy = "lru" => \A v \in CacheWays : used[s][w] <= used[s][v]
       /\ policy # "lru" => values[s][w] = maxRRPV /\ \A v \in CacheWays : values[s][v] = maxRRPV => w <= v

ReplacementInv ==
  /\ policy \in {"lru", "srrip", "drrip", "ship"}
  /\ content \in SetRows(Nat \cup {NoLine})
  /\ MSHR \subseteq ReplacementAccesses /\ inflight_fills \in Seq(ReplacementAccesses)
  /\ policy = "lru" => Ordered(content, last_used, clock, used_since)
  /\ policy # "lru" => Promoted(content, rrpv, fresh, reused)
  /\ Refusing(content, last_used, rrpv, refused)
  /\ policy = "srrip" =>
       \A s \in CacheSets, w \in CacheWays : content[s][w] = NoLine => rrpv[s][w] = maxRRPV

LEMMA Lines ==
  /\ \A a \in ReplacementAccesses : a.line \in Nat /\ a.line # NoLine /\ CacheSet(a.line) \in CacheSets
  /\ IsFiniteSet(CacheWays) /\ CacheWays # {} /\ CacheWays \subseteq Int
  /\ maxRRPV \in Nat /\ maxRRPV >= 2
<1>1. NUM_SET \in Nat /\ NUM_SET > 0
  BY ReplacementAssumption
<1>2. \A line \in Nat : line # NoLine /\ CacheSet(line) \in CacheSets
  BY <1>1 DEF NoLine, CacheSet, CacheSets
<1>3. \A a \in ReplacementAccesses : a.line \in Nat
  BY ReplacementAssumption
<1>4. NUM_WAY \in Nat /\ NUM_WAY >= 1 /\ maxRRPV \in Nat /\ maxRRPV >= 2
  BY ReplacementAssumption
<1>5. IsFiniteSet(1 .. NUM_WAY)
  BY <1>4, IntervalSize
<1>6. 1 \in 1 .. NUM_WAY
  BY <1>4
<1>7. IsFiniteSet(CacheWays) /\ CacheWays # {} /\ CacheWays \subseteq Int
  BY <1>4, <1>5, <1>6 DEF CacheWays
<1> QED BY <1>2, <1>3, <1>4, <1>7

(* The first of the least, and of the greatest, elements of a set of ways. *)
LEMMA Firsts ==
  ASSUME NEW f \in [CacheWays -> Nat]
  PROVE  /\ min_element(f) \in CacheWays
         /\ \A v \in CacheWays : f[min_element(f)] <= f[v]
         /\ max_element(f) \in CacheWays
         /\ \A v \in CacheWays : f[max_element(f)] >= f[v]
         /\ \A v \in CacheWays : f[max_element(f)] = f[v] => max_element(f) <= v
<1> DEFINE Best(x) == {w \in CacheWays : f[w] = x}
<1>1. ASSUME NEW x, Best(x) # {}
      PROVE  \E w \in CacheWays : f[w] = x /\ \A v \in CacheWays : f[v] = x => w <= v
  <2>1. Best(x) \in SUBSET Int /\ IsFiniteSet(Best(x))
    BY Lines, FS_Subset
  <2> HIDE DEF Best
  <2>2. Least(Best(x)) \in Best(x) /\ \A y \in Best(x) : Least(Best(x)) <= y
    BY <1>1, <2>1, LeastMember
  <2> QED BY <2>2 DEF Best
<1>2. f \in [CacheWays -> Int]
  OBVIOUS
<1>3. PICK a \in CacheWays : \A v \in CacheWays : f[a] <= f[v]
  BY <1>2, Lines, Extremes
<1>4. PICK b \in CacheWays : \A v \in CacheWays : f[b] >= f[v]
  BY <1>2, Lines, Extremes
<1>5. \E w \in CacheWays : \A v \in CacheWays : f[w] <= f[v] /\ (f[w] = f[v] => w <= v)
  <2>1. PICK w \in CacheWays : f[w] = f[a] /\ \A v \in CacheWays : f[v] = f[a] => w <= v
    BY <1>1
  <2> QED BY <1>3, <2>1
<1>6. \E w \in CacheWays : \A v \in CacheWays : f[w] >= f[v] /\ (f[w] = f[v] => w <= v)
  <2>1. PICK w \in CacheWays : f[w] = f[b] /\ \A v \in CacheWays : f[v] = f[b] => w <= v
    BY <1>1
  <2> QED BY <1>4, <2>1
<1>7. DOMAIN f = CacheWays
  OBVIOUS
<1>8. min_element(f) \in CacheWays /\ \A v \in CacheWays : f[min_element(f)] <= f[v]
  BY <1>5, <1>7 DEF min_element
<1>9. /\ max_element(f) \in CacheWays
      /\ \A v \in CacheWays : f[max_element(f)] >= f[v] /\ (f[max_element(f)] = f[v] => max_element(f) <= v)
  BY <1>6, <1>7 DEF max_element
<1> QED BY <1>8, <1>9

(* Everything ages until the greatest is at the maximum. *)
LEMMA Ages ==
  ASSUME NEW values \in [CacheWays -> 0 .. maxRRPV]
  PROVE  /\ Aged(values) \in [CacheWays -> 0 .. maxRRPV]
         /\ \A w \in CacheWays : Aged(values)[w] = 0 => values[w] = 0
         /\ max_element(values) \in CacheWays
         /\ \A w \in CacheWays : values[max_element(values)] >= values[w]
         /\ \A w \in CacheWays : values[max_element(values)] = values[w] => max_element(values) <= w
         /\ \A w \in CacheWays : Aged(values)[w] = maxRRPV => max_element(values) <= w
         /\ Aged(values)[max_element(values)] = maxRRPV
<1> DEFINE top == max_element(values)
<1>1. values \in [CacheWays -> Nat] /\ maxRRPV \in Nat
  BY Lines
<1>2. /\ top \in CacheWays
      /\ \A w \in CacheWays : values[top] >= values[w]
      /\ \A w \in CacheWays : values[top] = values[w] => top <= w
  BY ONLY values \in [CacheWays -> Nat], <1>1, Firsts
<1> HIDE DEF top
<1>3. \A w \in CacheWays : values[w] \in 0 .. maxRRPV /\ values[top] \in 0 .. maxRRPV
  BY <1>2
<1>4. \A w \in CacheWays : values[w] + (maxRRPV - values[top]) \in 0 .. maxRRPV
                          /\ (values[w] + (maxRRPV - values[top]) = 0 => values[w] = 0)
                          /\ (values[w] + (maxRRPV - values[top]) = maxRRPV => values[top] = values[w])
  BY <1>1, <1>2, <1>3
<1>5. Aged(values) = [w \in CacheWays |-> values[w] + (maxRRPV - values[top])]
  BY DEF Aged, top
<1>6. \A w \in CacheWays : Aged(values)[w] = values[w] + (maxRRPV - values[top])
  BY <1>5
<1>7. Aged(values) \in [CacheWays -> 0 .. maxRRPV]
  BY <1>4, <1>5
<1>8. values[top] + (maxRRPV - values[top]) = maxRRPV
  BY <1>1, <1>2, <1>3
<1> QED BY <1>2, <1>4, <1>6, <1>7, <1>8 DEF top

(* One way of lru is used, and holds a block then. *)
LEMMA UsedOrdered ==
  ASSUME NEW c, NEW c2, Ordered(c, last_used, clock, used_since), NEW set \in CacheSets, NEW way \in CacheWays,
         \A s \in CacheSets, w \in CacheWays : s # set \/ w # way => c2[s][w] = c[s][w],
         WayUsed(set, way)
  PROVE  /\ Ordered(c2, last_used', clock', used_since')
         /\ \A s \in CacheSets : s # set => last_used'[s] = last_used[s]
         /\ last_used'[set][way] = clock
         /\ \A w \in CacheWays : w # way => last_used'[set][w] = last_used[set][w]
<1>1. clock \in Nat /\ last_used \in SetRows(Nat) /\ used_since \in SetRows(SUBSET CacheWays)
  BY DEF Ordered
<1>2. /\ clock' = clock + 1 /\ last_used' \in SetRows(Nat) /\ last_used'[set][way] = clock
      /\ \A s \in CacheSets : s # set => last_used'[s] = last_used[s]
      /\ \A w \in CacheWays : w # way => last_used'[set][w] = last_used[set][w]
  BY <1>1 DEF WayUsed, SetRows
<1>3. /\ used_since' \in SetRows(SUBSET CacheWays)
      /\ \A s \in CacheSets : s # set => used_since'[s] = used_since[s]
      /\ \A w \in CacheWays : w # way => used_since'[set][w] = used_since[set][w] \cup {way}
  <2> DEFINE row == [w \in CacheWays |-> IF w = way THEN {} ELSE used_since[set][w] \cup {way}]
  <2>1. used_since' = [used_since EXCEPT ![set] = row]
    BY DEF WayUsed
  <2>2. row \in [CacheWays -> SUBSET CacheWays] /\ \A w \in CacheWays : w # way => row[w] = used_since[set][w] \cup {way}
    BY <1>1 DEF SetRows
  <2> HIDE DEF row
  <2> QED BY <1>1, <2>1, <2>2 DEF SetRows
<1>4. ASSUME NEW s \in CacheSets, NEW w \in CacheWays, c2[s][w] # NoLine
      PROVE  last_used'[s][w] < clock'
  <2>1. CASE s = set /\ w = way
    BY <1>1, <1>2, <2>1
  <2>2. CASE s # set \/ w # way
    <3>1. last_used[s][w] < clock /\ last_used'[s][w] = last_used[s][w] /\ last_used[s][w] \in Nat
      BY <1>1, <1>2, <1>4, <2>2 DEF Ordered, SetRows
    <3> QED BY <1>1, <1>2, <3>1
  <2> QED BY <2>1, <2>2
<1>5. ASSUME NEW s \in CacheSets, NEW v \in CacheWays, NEW w \in CacheWays,
             c2[s][v] # NoLine, c2[s][w] # NoLine, v # w
      PROVE  /\ last_used'[s][v] # last_used'[s][w]
             /\ last_used'[s][w] < last_used'[s][v] => v \in used_since'[s][w]
  <2>1. CASE s = set /\ v = way
    <3>1. last_used[s][w] < clock /\ last_used'[s][w] = last_used[s][w] /\ last_used[s][w] \in Nat
      BY <1>1, <1>2, <1>5, <2>1 DEF Ordered, SetRows
    <3> QED BY <1>1, <1>2, <1>3, <1>5, <2>1, <3>1
  <2>2. CASE s = set /\ w = way
    <3>1. last_used[s][v] < clock /\ last_used'[s][v] = last_used[s][v] /\ last_used[s][v] \in Nat
      BY <1>1, <1>2, <1>5, <2>2 DEF Ordered, SetRows
    <3> QED BY <1>1, <1>2, <2>2, <3>1
  <2>3. CASE s = set /\ v # way /\ w # way
    <3>1. c[s][v] # NoLine /\ c[s][w] # NoLine
      BY <1>5, <2>3
    <3>2. last_used[s][v] # last_used[s][w] /\ (last_used[s][w] < last_used[s][v] => v \in used_since[s][w])
      BY <1>5, <3>1 DEF Ordered
    <3> QED BY <1>2, <1>3, <2>3, <3>2
  <2>4. CASE s # set
    <3>1. c[s][v] # NoLine /\ c[s][w] # NoLine
      BY <1>5, <2>4
    <3>2. last_used[s][v] # last_used[s][w] /\ (last_used[s][w] < last_used[s][v] => v \in used_since[s][w])
      BY <1>5, <3>1 DEF Ordered
    <3> QED BY <1>2, <1>3, <2>4, <3>2
  <2> QED BY <2>1, <2>2, <2>3, <2>4
<1> QED BY <1>1, <1>2, <1>3, <1>4, <1>5 DEF Ordered

LEMMA ReplacementStarts == ReplacementInit => ReplacementInv
<1> SUFFICES ASSUME ReplacementInit PROVE ReplacementInv
  OBVIOUS
<1>1. /\ content = [s \in CacheSets |-> [w \in CacheWays |-> NoLine]]
      /\ last_used = [s \in CacheSets |-> [w \in CacheWays |-> 0]]
      /\ rrpv = [s \in CacheSets |-> [w \in CacheWays |-> IF policy = "drrip" THEN 0 ELSE maxRRPV]]
      /\ policy \in {"lru", "srrip", "drrip", "ship"}
      /\ MSHR = {} /\ inflight_fills = <<>> /\ clock = 0
      /\ used_since = [s \in CacheSets |-> [w \in CacheWays |-> {}]]
      /\ fresh = [s \in CacheSets |-> {}] /\ reused = [s \in CacheSets |-> {}] /\ refused = [s \in CacheSets |-> {}]
  BY DEF ReplacementInit
<1>2. maxRRPV \in Nat
  BY Lines
<1>3. content \in SetRows(Nat \cup {NoLine}) /\ MSHR \subseteq ReplacementAccesses /\ inflight_fills \in Seq(ReplacementAccesses)
  BY <1>1 DEF SetRows
<1>4. Ordered(content, last_used, clock, used_since)
  BY <1>1 DEF Ordered, SetRows
<1>5. Promoted(content, rrpv, fresh, reused)
  BY <1>1, <1>2 DEF Promoted, SetRows
<1>6. Refusing(content, last_used, rrpv, refused)
  BY <1>1 DEF Refusing
<1>7. policy = "srrip" => \A s \in CacheSets, w \in CacheWays : content[s][w] = NoLine => rrpv[s][w] = maxRRPV
  BY <1>1
<1> QED BY <1>1, <1>3, <1>4, <1>5, <1>6, <1>7 DEF ReplacementInv

(* A miss, and the return of its data, move accesses only; ship counts misses. *)
LEMMA ReplacementWaits ==
  ASSUME ReplacementInv,
         UNCHANGED <<policy, content, last_used, rrpv, used_since, reused, fresh, refused>>,
         policy = "lru" => UNCHANGED clock,
         MSHR' \subseteq ReplacementAccesses, inflight_fills' \in Seq(ReplacementAccesses)
  PROVE  ReplacementInv'
<1>1. content' \in SetRows(Nat \cup {NoLine}) /\ policy' \in {"lru", "srrip", "drrip", "ship"}
  BY DEF ReplacementInv
<1>2. policy = "lru" => Ordered(content, last_used, clock, used_since)'
  BY DEF ReplacementInv
<1>3. policy # "lru" => Promoted(content, rrpv, fresh, reused)'
  BY DEF ReplacementInv
<1>4. Refusing(content, last_used, rrpv, refused)'
  BY DEF ReplacementInv, Refusing
<1>5. policy = "srrip" => \A s \in CacheSets, w \in CacheWays : content'[s][w] = NoLine => rrpv'[s][w] = maxRRPV
  BY DEF ReplacementInv
<1> QED BY <1>1, <1>2, <1>3, <1>4, <1>5 DEF ReplacementInv

LEMMA FinishKeeps ==
  ASSUME ReplacementInv, NEW m \in MSHR, FinishPacket(m)
  PROVE  ReplacementInv'
<1>1. MSHR \subseteq ReplacementAccesses /\ inflight_fills \in Seq(ReplacementAccesses)
  BY DEF ReplacementInv
<1>2. MSHR' \subseteq ReplacementAccesses /\ inflight_fills' \in Seq(ReplacementAccesses)
  BY <1>1 DEF FinishPacket
<1>3. UNCHANGED <<policy, content, last_used, rrpv, used_since, reused, fresh, refused, clock>>
  BY DEF FinishPacket
<1> QED BY <1>2, <1>3, ReplacementWaits

LEMMA MissKeeps ==
  ASSUME ReplacementInv, NEW a \in ReplacementAccesses, LookupMiss(a), UNCHANGED policy
  PROVE  ReplacementInv'
<1>1. MSHR \subseteq ReplacementAccesses /\ inflight_fills \in Seq(ReplacementAccesses)
  BY DEF ReplacementInv
<1>2. \A m \in ReplacementAccesses : Merged(m, a) \in ReplacementAccesses
  BY DEF Merged
<1>3. UNCHANGED <<policy, content, last_used, rrpv, used_since, reused, fresh, refused>>
  BY DEF LookupMiss
<1>4. policy = "lru" => UNCHANGED clock
  BY DEF LookupMiss
<1>5. MSHR' \subseteq ReplacementAccesses /\ inflight_fills' \in Seq(ReplacementAccesses)
  <2>1. CASE HandleWrite(a)
    BY <1>1, <2>1 DEF HandleWrite
  <2>2. CASE HandleMiss(a)
    <3> DEFINE filling == {i \in DOMAIN inflight_fills : inflight_fills[i].line = a.line}
               joined == {IF m.line = a.line THEN Merged(m, a) ELSE m : m \in MSHR}
               fill == [inflight_fills EXCEPT ![Least(filling)] = Merged(@, a)]
    <3>1. joined \subseteq ReplacementAccesses
      BY <1>1, <1>2
    <3>2. filling # {} => fill \in Seq(ReplacementAccesses)
      <4> SUFFICES ASSUME filling # {} PROVE fill \in Seq(ReplacementAccesses)
        OBVIOUS
      <4>1. filling \in SUBSET Int /\ IsFiniteSet(filling)
        <5>1. DOMAIN inflight_fills = 1 .. Len(inflight_fills) /\ Len(inflight_fills) \in Nat
          BY <1>1
        <5>2. IsFiniteSet(1 .. Len(inflight_fills))
          BY <5>1, IntervalSize
        <5> QED BY <5>1, <5>2, FS_Subset
      <4> HIDE DEF filling
      <4>2. Least(filling) \in filling
        BY <4>1, LeastMember
      <4>3. Least(filling) \in DOMAIN inflight_fills
        BY <4>2 DEF filling
      <4>4. inflight_fills[Least(filling)] \in ReplacementAccesses
        BY <1>1, <4>3
      <4> QED BY <1>1, <1>2, <4>3, <4>4
    <3>3. \/ MSHR' = joined /\ UNCHANGED inflight_fills
          \/ filling # {} /\ inflight_fills' = fill /\ UNCHANGED MSHR
          \/ MSHR' \in {MSHR, MSHR \cup {a}} /\ UNCHANGED inflight_fills
      BY <2>2 DEF HandleMiss
    <3> HIDE DEF joined, fill, filling
    <3> QED BY <1>1, <3>1, <3>2, <3>3
  <2> QED BY <2>1, <2>2 DEF LookupMiss
<1> QED BY <1>3, <1>4, <1>5, ReplacementWaits

(* A hit: the way is used now, or goes to the front. *)
LEMMA HitKeeps ==
  ASSUME ReplacementInv, NEW a \in ReplacementAccesses, LookupHit(a), UNCHANGED policy
  PROVE  ReplacementInv'
<1> DEFINE set == CacheSet(a.line)
           way == Least(Holding(a.line))
           writes == a.type = "WRITE"
           ignored == policy = "drrip" /\ writes
<1>1. set \in CacheSets
  BY Lines
<1>2. way \in CacheWays /\ content[set][way] # NoLine
  <2>1. Holding(a.line) \in SUBSET Int /\ IsFiniteSet(Holding(a.line)) /\ Holding(a.line) # {}
    BY Lines, FS_Subset DEF LookupHit, Holding
  <2>2. way \in Holding(a.line)
    BY <2>1, LeastMember
  <2> QED BY <2>2, Lines DEF Holding
<1>3. /\ policy = "lru" => IF writes THEN UNCHANGED <<last_used, clock, used_since>> ELSE WayUsed(set, way)
      /\ policy # "lru" => rrpv' = [rrpv EXCEPT ![set][way] = HitRRPV(writes)]
      /\ policy # "lru" =>
           IF ignored
           THEN fresh' = [fresh EXCEPT ![set] = @ \ {way}] /\ UNCHANGED reused
           ELSE fresh' = [fresh EXCEPT ![set] = @ \cup {way}] /\ reused' = [reused EXCEPT ![set] = @ \cup {way}]
      /\ refused' = [refused EXCEPT ![set] = @ \ {way}]
      /\ UNCHANGED <<content, MSHR, inflight_fills>>
  BY DEF LookupHit
<1>4. /\ policy' \in {"lru", "srrip", "drrip", "ship"} /\ content' \in SetRows(Nat \cup {NoLine}) /\ policy' = policy
      /\ MSHR' \subseteq ReplacementAccesses /\ inflight_fills' \in Seq(ReplacementAccesses) /\ content' = content
  BY <1>3 DEF ReplacementInv
<1>5. Refusing(content, last_used, rrpv, refused)
  BY DEF ReplacementInv
<1>6. /\ refused' \in [CacheSets -> SUBSET CacheWays] /\ way \notin refused'[set]
      /\ \A s \in CacheSets : refused'[s] \subseteq refused[s]
  BY <1>1, <1>3, <1>5 DEF Refusing
<1> HIDE DEF set, way, writes
<1>7. CASE policy = "lru"
  <2>1. Ordered(content, last_used, clock, used_since)
    BY <1>7 DEF ReplacementInv
  <2>2. CASE writes
    <3>1. UNCHANGED <<last_used, clock, used_since>>
      BY <1>3, <1>7, <2>2
    <3>2. Ordered(content, last_used, clock, used_since)'
      BY <1>4, <2>1, <3>1
    <3>3. Refusing(content, last_used, rrpv, refused)'
      BY <1>4, <1>5, <1>6, <1>7, <3>1 DEF Refusing
    <3> QED BY <1>4, <1>7, <3>2, <3>3 DEF ReplacementInv
  <2>3. CASE ~writes
    <3>1. WayUsed(set, way)
      BY <1>3, <1>7, <2>3
    <3>2. /\ Ordered(content', last_used', clock', used_since')
          /\ \A s \in CacheSets : s # set => last_used'[s] = last_used[s]
          /\ last_used'[set][way] = clock
          /\ \A w \in CacheWays : w # way => last_used'[set][w] = last_used[set][w]
      <4>1. \A s \in CacheSets, w \in CacheWays : s # set \/ w # way => content'[s][w] = content[s][w]
        BY <1>4
      <4> QED BY ONLY <1>1, <1>2, <2>1, <3>1, <4>1, UsedOrdered
    <3>3. ASSUME NEW s \in CacheSets, NEW w \in refused'[s], NEW v \in CacheWays
          PROVE  last_used'[s][w] <= last_used'[s][v]
      <4>1. w \in refused[s] /\ w \in CacheWays /\ (s = set => w # way)
        BY <1>5, <1>6 DEF Refusing
      <4>2. last_used[s][w] <= last_used[s][v] /\ content[s][w] # NoLine
        BY <1>5, <1>7, <4>1 DEF Refusing
      <4>3. last_used[s][w] < clock /\ last_used[s][w] \in Nat /\ clock \in Nat
        BY <2>1, <4>1, <4>2 DEF Ordered, SetRows
      <4>4. CASE s = set /\ v = way
        BY <3>2, <4>1, <4>3, <4>4
      <4>5. CASE s # set \/ v # way
        BY <3>2, <4>1, <4>2, <4>5
      <4> QED BY <4>4, <4>5
    <3>4. Refusing(content, last_used, rrpv, refused)'
      BY <1>4, <1>5, <1>6, <1>7, <3>3 DEF Refusing
    <3> QED BY <1>4, <1>7, <3>2, <3>4 DEF ReplacementInv
  <2> QED BY <2>2, <2>3
<1>8. CASE policy # "lru"
  <2> DEFINE new == HitRRPV(writes)
  <2>1. Promoted(content, rrpv, fresh, reused)
    BY <1>8 DEF ReplacementInv
  <2>2. new \in 0 .. maxRRPV /\ new < maxRRPV /\ (ignored => new > 0) /\ (~ignored => new = 0)
    BY Lines DEF HitRRPV
  <2> HIDE DEF new
  <2>3. /\ rrpv' \in SetRows(0 .. maxRRPV) /\ rrpv'[set][way] = new
        /\ \A s \in CacheSets, w \in CacheWays : s # set \/ w # way => rrpv'[s][w] = rrpv[s][w]
    BY <1>1, <1>2, <1>3, <1>8, <2>1, <2>2 DEF Promoted, SetRows, new
  <2>4. /\ fresh' \in [CacheSets -> SUBSET CacheWays] /\ reused' \in [CacheSets -> SUBSET CacheWays]
        /\ \A s \in CacheSets, w \in CacheWays :
             /\ s # set \/ w # way => (w \in fresh'[s] => w \in fresh[s])
             /\ w \in reused[s] => w \in reused'[s]
        /\ ignored => way \notin fresh'[set]
        /\ ~ignored => way \in reused'[set]
    BY <1>1, <1>2, <1>3, <1>8, <2>1 DEF Promoted
  <2> HIDE DEF ignored
  <2>5. ASSUME NEW s \in CacheSets, NEW w \in CacheWays
        PROVE  /\ w \in fresh'[s] => rrpv'[s][w] = 0 /\ content'[s][w] # NoLine
               /\ rrpv'[s][w] = 0 /\ content'[s][w] # NoLine => w \in reused'[s]
    <3>1. CASE s = set /\ w = way
      BY <1>2, <1>4, <2>2, <2>3, <2>4, <3>1
    <3>2. CASE s # set \/ w # way
      BY <1>4, <2>1, <2>3, <2>4, <3>2 DEF Promoted
    <3> QED BY <3>1, <3>2
  <2>6. Promoted(content, rrpv, fresh, reused)'
    BY <2>3, <2>4, <2>5 DEF Promoted
  <2>7. ASSUME NEW s \in CacheSets, NEW w \in refused'[s]
        PROVE  rrpv'[s][w] = maxRRPV /\ \A v \in CacheWays : rrpv'[s][v] = maxRRPV => w <= v
    <3>1. w \in refused[s] /\ w \in CacheWays /\ (s = set => w # way)
      BY <1>5, <1>6 DEF Refusing
    <3>2. rrpv[s][w] = maxRRPV /\ \A v \in CacheWays : rrpv[s][v] = maxRRPV => w <= v
      BY <1>5, <1>8, <3>1 DEF Refusing
    <3>3. rrpv'[s][w] = maxRRPV
      BY <2>3, <3>1, <3>2
    <3>4. \A v \in CacheWays : rrpv'[s][v] = maxRRPV => rrpv[s][v] = maxRRPV
      BY <2>2, <2>3, Lines
    <3> QED BY <3>2, <3>3, <3>4
  <2>8. Refusing(content, last_used, rrpv, refused)'
    BY <1>4, <1>5, <1>6, <1>8, <2>7 DEF Refusing
  <2>9. policy = "srrip" => \A s \in CacheSets, w \in CacheWays : content'[s][w] = NoLine => rrpv'[s][w] = maxRRPV
    <3> SUFFICES ASSUME policy = "srrip", NEW s \in CacheSets, NEW w \in CacheWays, content[s][w] = NoLine
                 PROVE  rrpv'[s][w] = maxRRPV
      BY <1>4
    <3>1. s # set \/ w # way
      BY <1>2
    <3>2. rrpv[s][w] = maxRRPV
      BY DEF ReplacementInv
    <3> QED BY <2>3, <3>1, <3>2
  <2> QED BY <1>4, <1>8, <2>6, <2>8, <2>9 DEF ReplacementInv
<1> QED BY <1>7, <1>8

(* What a search of a full set finds, and leaves. *)
LEMMA SearchFinds ==
  ASSUME ReplacementInv, NEW set \in CacheSets, Full(set)
  PROVE  /\ Victim(set) \in CacheWays
         /\ policy = "lru" => \A v \in CacheWays : last_used[set][Victim(set)] <= last_used[set][v]
         /\ policy # "lru" =>
              /\ \A v \in CacheWays : /\ rrpv[set][Victim(set)] >= rrpv[set][v]
                                      /\ rrpv[set][Victim(set)] = rrpv[set][v] => Victim(set) <= v
              /\ Searched(set) \in [CacheWays -> 0 .. maxRRPV]
              /\ \A v \in CacheWays : /\ Searched(set)[v] = 0 => rrpv[set][v] = 0
                                      /\ Searched(set)[v] = maxRRPV => Victim(set) <= v
              /\ Searched(set)[Victim(set)] = maxRRPV
         /\ refused[set] \subseteq {Victim(set)}
<1>1. Refusing(content, last_used, rrpv, refused)
  BY DEF ReplacementInv
<1>2. \A w \in CacheWays : content[set][w] # NoLine
  BY DEF Full
<1>3. CASE policy = "lru"
  <2>1. Ordered(content, last_used, clock, used_since)
    BY <1>3 DEF ReplacementInv
  <2>2. last_used[set] \in [CacheWays -> Nat]
    BY <2>1 DEF Ordered, SetRows
  <2>3. Victim(set) = min_element(last_used[set])
    BY <1>3 DEF Victim
  <2>4. Victim(set) \in CacheWays /\ \A v \in CacheWays : last_used[set][Victim(set)] <= last_used[set][v]
    BY <2>2, <2>3, Firsts
  <2>5. ASSUME NEW w \in refused[set] PROVE w = Victim(set)
    <3>1. w \in CacheWays /\ last_used[set][w] <= last_used[set][Victim(set)]
      BY <1>1, <1>3, <2>4 DEF Refusing
    <3>2. last_used[set][w] = last_used[set][Victim(set)]
      BY <2>2, <2>4, <3>1
    <3> QED BY <1>2, <2>1, <2>4, <3>1, <3>2 DEF Ordered
  <2> QED BY <1>3, <2>4, <2>5
<1>4. CASE policy # "lru"
  <2>1. rrpv[set] \in [CacheWays -> 0 .. maxRRPV]
    BY <1>4 DEF ReplacementInv, Promoted, SetRows
  <2>2. Victim(set) = max_element(rrpv[set]) /\ Searched(set) = Aged(rrpv[set])
    BY <1>4 DEF Victim, Searched
  <2>3. /\ Victim(set) \in CacheWays
        /\ \A v \in CacheWays : /\ rrpv[set][Victim(set)] >= rrpv[set][v]
                                /\ rrpv[set][Victim(set)] = rrpv[set][v] => Victim(set) <= v
                                /\ Searched(set)[v] = 0 => rrpv[set][v] = 0
                                /\ Searched(set)[v] = maxRRPV => Victim(set) <= v
        /\ Searched(set) \in [CacheWays -> 0 .. maxRRPV]
        /\ Searched(set)[Victim(set)] = maxRRPV
    BY <2>1, <2>2, Ages
  <2>4. ASSUME NEW w \in refused[set] PROVE w = Victim(set)
    <3>1. w \in CacheWays /\ rrpv[set][w] = maxRRPV /\ \A v \in CacheWays : rrpv[set][v] = maxRRPV => w <= v
      BY <1>1, <1>4 DEF Refusing
    <3>2. rrpv[set][Victim(set)] \in 0 .. maxRRPV /\ maxRRPV \in Nat
      BY <2>1, <2>3, Lines
    <3>3. rrpv[set][Victim(set)] = maxRRPV
      BY <2>3, <3>1, <3>2
    <3>4. w <= Victim(set) /\ Victim(set) <= w /\ w \in Int /\ Victim(set) \in Int
      BY <2>3, <3>1, <3>3, Lines
    <3> QED BY <3>4
  <2> QED BY <1>4, <2>3, <2>4
<1> QED BY <1>3, <1>4

(* A refused fill leaves the set searched. *)
LEMMA RefusedKeeps ==
  ASSUME ReplacementInv, FillRefused
  PROVE  ReplacementInv'
<1> DEFINE set == CacheSet(Head(inflight_fills).line)
<1>1. set \in CacheSets /\ Full(set)
  <2>1. Head(inflight_fills) \in ReplacementAccesses
    BY DEF ReplacementInv, FillRefused
  <2> QED BY <2>1, Lines DEF FillRefused
<1>2. /\ rrpv' = [rrpv EXCEPT ![set] = Searched(set)]
      /\ fresh' = [fresh EXCEPT ![set] = {}]
      /\ refused' = [refused EXCEPT ![set] = {Victim(set)}]
      /\ UNCHANGED <<policy, content, MSHR, inflight_fills, last_used, clock, used_since, reused>>
  BY DEF FillRefused
<1> HIDE DEF set
<1>3. /\ content' \in SetRows(Nat \cup {NoLine}) /\ policy' \in {"lru", "srrip", "drrip", "ship"}
      /\ MSHR' \subseteq ReplacementAccesses /\ inflight_fills' \in Seq(ReplacementAccesses)
  BY <1>2 DEF ReplacementInv
<1>4. policy = "lru" => Ordered(content, last_used, clock, used_since)'
  BY <1>2 DEF ReplacementInv
<1>5. policy # "lru" =>
        /\ rrpv' \in SetRows(0 .. maxRRPV) /\ rrpv'[set] = Searched(set)
        /\ \A s \in CacheSets : s # set => rrpv'[s] = rrpv[s]
  BY <1>1, <1>2, SearchFinds DEF ReplacementInv, Promoted, SetRows
<1>6. policy # "lru" => Promoted(content, rrpv, fresh, reused)'
  <2> SUFFICES ASSUME policy # "lru" PROVE Promoted(content, rrpv, fresh, reused)'
    OBVIOUS
  <2>1. Promoted(content, rrpv, fresh, reused)
    BY DEF ReplacementInv
  <2>2. fresh' \in [CacheSets -> SUBSET CacheWays] /\ fresh'[set] = {} /\ \A s \in CacheSets : s # set => fresh'[s] = fresh[s]
    BY <1>1, <1>2, <2>1 DEF Promoted
  <2>3. ASSUME NEW s \in CacheSets, NEW w \in CacheWays
        PROVE  /\ w \in fresh'[s] => rrpv'[s][w] = 0 /\ content'[s][w] # NoLine
               /\ rrpv'[s][w] = 0 /\ content'[s][w] # NoLine => w \in reused'[s]
    <3>1. CASE s = set
      <4>1. rrpv'[s][w] = 0 => rrpv[s][w] = 0
        BY <1>1, <1>5, <3>1, SearchFinds
      <4> QED BY <1>2, <2>1, <2>2, <3>1, <4>1 DEF Promoted
    <3>2. CASE s # set
      BY <1>2, <1>5, <2>1, <2>2, <3>2 DEF Promoted
    <3> QED BY <3>1, <3>2
  <2> QED BY <1>2, <1>5, <2>1, <2>2, <2>3 DEF Promoted
<1>7. Refusing(content, last_used, rrpv, refused)'
  <2>1. Refusing(content, last_used, rrpv, refused)
    BY DEF ReplacementInv
  <2>2. Victim(set) \in CacheWays
    BY <1>1, SearchFinds
  <2>3. /\ refused' \in [CacheSets -> SUBSET CacheWays] /\ refused'[set] = {Victim(set)}
        /\ \A s \in CacheSets : s # set => refused'[s] = refused[s]
    BY <1>1, <1>2, <2>1, <2>2 DEF Refusing
  <2>4. ASSUME NEW s \in CacheSets, NEW w \in refused'[s]
        PROVE  /\ \A v \in CacheWays : content'[s][v] # NoLine
               /\ policy' = "lru" => \A v \in CacheWays : last_used'[s][w] <= last_used'[s][v]
               /\ policy' # "lru" => rrpv'[s][w] = maxRRPV /\ \A v \in CacheWays : rrpv'[s][v] = maxRRPV => w <= v
    <3>1. CASE s = set
      <4>1. w = Victim(set)
        BY <2>3, <3>1
      <4>2. \A v \in CacheWays : content'[s][v] # NoLine
        BY <1>1, <1>2, <3>1 DEF Full
      <4>3. policy' = "lru" => \A v \in CacheWays : last_used'[s][w] <= last_used'[s][v]
        BY <1>1, <1>2, <3>1, <4>1, SearchFinds
      <4>4. policy' # "lru" => rrpv'[s][w] = maxRRPV /\ \A v \in CacheWays : rrpv'[s][v] = maxRRPV => w <= v
        BY <1>1, <1>2, <1>5, <3>1, <4>1, SearchFinds
      <4> QED BY <4>2, <4>3, <4>4
    <3>2. CASE s # set
      BY <1>2, <1>5, <2>1, <2>3, <3>2 DEF Refusing
    <3> QED BY <3>1, <3>2
  <2> QED BY <2>3, <2>4 DEF Refusing
<1>8. policy = "srrip" => \A s \in CacheSets, w \in CacheWays : content'[s][w] = NoLine => rrpv'[s][w] = maxRRPV
  BY <1>1, <1>2, <1>5 DEF ReplacementInv, Full
<1> QED BY <1>2, <1>3, <1>4, <1>6, <1>7, <1>8 DEF ReplacementInv

(* The way of a fill: an empty one, or the victim of a full set. *)
LEMMA FilledWays ==
  ASSUME ReplacementInv, NEW set \in CacheSets
  PROVE  FilledWay(set) \in CacheWays /\ (~Full(set) => content[set][FilledWay(set)] = NoLine)
<1> DEFINE empty == {w \in CacheWays : content[set][w] = NoLine}
<1>1. CASE Full(set)
  BY <1>1, SearchFinds DEF FilledWay
<1>2. CASE ~Full(set)
  <2>1. empty \in SUBSET Int /\ IsFiniteSet(empty) /\ empty # {}
    BY <1>2, Lines, FS_Subset DEF Full
  <2>2. FilledWay(set) = Least(empty)
    BY <1>2 DEF FilledWay
  <2> HIDE DEF empty
  <2>3. Least(empty) \in empty
    BY <2>1, LeastMember
  <2> QED BY <1>2, <2>2, <2>3 DEF empty
<1> QED BY <1>1, <1>2

LEMMA FillKeeps ==
  ASSUME ReplacementInv, FillWay
  PROVE  ReplacementInv'
<1> DEFINE m == Head(inflight_fills)
           set == CacheSet(m.line)
           way == FilledWay(set)
           values == IF Full(set) THEN Searched(set) ELSE rrpv[set]
<1>1. policy \in {"lru", "srrip", "drrip", "ship"} /\ content \in SetRows(Nat \cup {NoLine})
  BY DEF ReplacementInv
<1>2. /\ m \in ReplacementAccesses /\ MSHR \subseteq ReplacementAccesses
      /\ Tail(inflight_fills) \in Seq(ReplacementAccesses)
  BY DEF ReplacementInv, FillWay
<1>3. set \in CacheSets /\ m.line \in Nat /\ m.line # NoLine
  BY <1>2, Lines
<1>4. way \in CacheWays /\ (~Full(set) => content[set][way] = NoLine)
  BY <1>3, FilledWays
<1>5. /\ inflight_fills' = Tail(inflight_fills) /\ MSHR' = MSHR /\ policy' = policy
      /\ content' = [content EXCEPT ![set][way] = m.line]
      /\ policy = "lru" => WayUsed(set, way)
      /\ policy = "drrip" => DrripFill(m, set, way, values)
      /\ policy = "ship" => rrpv' = [rrpv EXCEPT ![set] = [values EXCEPT ![way] = ShipRRPV(m)]]
      /\ policy = "srrip" => rrpv' = [rrpv EXCEPT ![set] = values]
      /\ reused' = [reused EXCEPT ![set] = @ \ {way}]
      /\ fresh' = IF Full(set) THEN [fresh EXCEPT ![set] = {}] ELSE fresh
      /\ refused' = [refused EXCEPT ![set] = {}]
  BY <1>1 DEF FillWay
<1> DEFINE line == m.line
<1> HIDE DEF m, set, way, values
<1>6. /\ content' \in SetRows(Nat \cup {NoLine}) /\ content'[set][way] = line /\ line # NoLine
      /\ \A s \in CacheSets, w \in CacheWays : s # set \/ w # way => content'[s][w] = content[s][w]
  BY <1>1, <1>3, <1>4, <1>5 DEF SetRows
<1> HIDE DEF line
<1>7. /\ policy' \in {"lru", "srrip", "drrip", "ship"} /\ MSHR' \subseteq ReplacementAccesses
      /\ inflight_fills' \in Seq(ReplacementAccesses)
  BY <1>1, <1>2, <1>5
<1>8. Refusing(content, last_used, rrpv, refused)
  BY DEF ReplacementInv
<1>9. refused' \in [CacheSets -> SUBSET CacheWays] /\ refused'[set] = {} /\ \A s \in CacheSets : s # set => refused'[s] = refused[s]
  BY <1>3, <1>5, <1>8 DEF Refusing
<1>10. CASE policy = "lru"
  <2>1. Ordered(content, last_used, clock, used_since)
    BY <1>10 DEF ReplacementInv
  <2>2. WayUsed(set, way)
    BY <1>5, <1>10
  <2>3. /\ Ordered(content', last_used', clock', used_since')
        /\ \A s \in CacheSets : s # set => last_used'[s] = last_used[s]
    BY ONLY <1>3, <1>4, <1>6, <2>1, <2>2, UsedOrdered
  <2>4. Refusing(content, last_used, rrpv, refused)'
    BY <1>5, <1>6, <1>8, <1>9, <1>10, <2>3 DEF Refusing
  <2> QED BY <1>5, <1>6, <1>7, <1>10, <2>3, <2>4 DEF ReplacementInv
<1>11. CASE policy # "lru"
  <2>1. Promoted(content, rrpv, fresh, reused)
    BY <1>11 DEF ReplacementInv
  <2>2. rrpv[set] \in [CacheWays -> 0 .. maxRRPV] /\ rrpv \in SetRows(0 .. maxRRPV)
    BY <1>3, <2>1 DEF Promoted, SetRows
  <2>3. /\ values \in [CacheWays -> 0 .. maxRRPV]
        /\ \A w \in CacheWays : values[w] = 0 => rrpv[set][w] = 0
        /\ ~Full(set) => values = rrpv[set]
        /\ Full(set) => values[way] = maxRRPV
    <3>1. CASE ~Full(set)
      BY <2>2, <3>1 DEF values
    <3>2. CASE Full(set)
      <4>1. values = Searched(set) /\ way = Victim(set)
        BY <3>2 DEF values, way, FilledWay
      <4> QED BY <1>3, <1>11, <3>2, <4>1, SearchFinds
    <3> QED BY <3>1, <3>2
  (* The row of the set after the fill. *)
  <2>4. PICK new \in [CacheWays -> 0 .. maxRRPV] :
          /\ rrpv' = [rrpv EXCEPT ![set] = new] /\ new[way] > 0
          /\ \A w \in CacheWays : w # way => new[w] = values[w]
    <3>1. CASE policy = "srrip"
      <4>1. values[way] = maxRRPV
        <5>1. ~Full(set) => values[way] = rrpv[set][way] /\ content[set][way] = NoLine
          BY <1>4, <2>3
        <5>2. content[set][way] = NoLine => rrpv[set][way] = maxRRPV
          BY <1>3, <1>4, <3>1 DEF ReplacementInv
        <5> QED BY <2>3, <5>1, <5>2
      <4>2. maxRRPV > 0
        BY Lines
      <4> QED BY <1>5, <2>3, <3>1, <4>1, <4>2
    <3>2. ASSUME NEW x \in {maxRRPV, maxRRPV - 1}, rrpv' = [rrpv EXCEPT ![set] = [values EXCEPT ![way] = x]]
          PROVE  \E new \in [CacheWays -> 0 .. maxRRPV] :
                   /\ rrpv' = [rrpv EXCEPT ![set] = new] /\ new[way] > 0
                   /\ \A w \in CacheWays : w # way => new[w] = values[w]
      <4> DEFINE new == [values EXCEPT ![way] = x]
      <4>1. x \in 0 .. maxRRPV /\ x > 0
        BY Lines
      <4>2. new \in [CacheWays -> 0 .. maxRRPV] /\ new[way] = x /\ \A w \in CacheWays : w # way => new[w] = values[w]
        BY <1>4, <2>3, <4>1
      <4> HIDE DEF new
      <4>3. rrpv' = [rrpv EXCEPT ![set] = new]
        BY <3>2 DEF new
      <4> QED BY <4>1, <4>2, <4>3
    <3>3. CASE policy = "ship"
      <4>1. ShipRRPV(m) \in {maxRRPV, maxRRPV - 1}
        BY DEF ShipRRPV
      <4> QED BY <1>5, <3>2, <3>3, <4>1
    <3>4. CASE policy = "drrip"
      <4>1. \E x \in {maxRRPV, maxRRPV - 1} : rrpv' = [rrpv EXCEPT ![set] = [values EXCEPT ![way] = x]]
        BY <1>5, <3>4 DEF DrripFill
      <4> QED BY <3>2, <4>1
    <3> QED BY <1>1, <1>11, <3>1, <3>3, <3>4
  <2>5. /\ rrpv' \in SetRows(0 .. maxRRPV) /\ rrpv'[set][way] > 0
        /\ \A w \in CacheWays : w # way => rrpv'[set][w] = values[w]
        /\ \A s \in CacheSets : s # set => rrpv'[s] = rrpv[s]
    BY <1>3, <1>4, <2>2, <2>4 DEF SetRows
  <2>6. /\ fresh' \in [CacheSets -> SUBSET CacheWays] /\ reused' \in [CacheSets -> SUBSET CacheWays]
        /\ \A s \in CacheSets : fresh'[s] \subseteq fresh[s]
        /\ Full(set) => fresh'[set] = {}
        /\ \A s \in CacheSets, w \in CacheWays : (s # set \/ w # way) /\ w \in reused[s] => w \in reused'[s]
    BY <1>3, <1>5, <2>1 DEF Promoted
  <2>7. ASSUME NEW s \in CacheSets, NEW w \in CacheWays
        PROVE  /\ w \in fresh'[s] => rrpv'[s][w] = 0 /\ content'[s][w] # NoLine
               /\ rrpv'[s][w] = 0 /\ content'[s][w] # NoLine => w \in reused'[s]
    <3>1. CASE s = set /\ w = way
      <4>1. w \notin fresh'[s]
        BY <1>4, <2>1, <2>6, <3>1 DEF Promoted
      <4> QED BY <2>5, <3>1, <4>1
    <3>2. CASE s # set \/ w # way
      <4>1. content'[s][w] = content[s][w]
        BY <1>6, <3>2
      <4>2. w \in fresh'[s] => w \in fresh[s] /\ (Full(set) => s # set)
        BY <2>6
      <4>3. CASE s # set
        BY <2>1, <2>5, <2>6, <4>1, <4>2, <4>3 DEF Promoted
      <4>4. CASE s = set
        BY <2>1, <2>3, <2>5, <2>6, <3>2, <4>1, <4>2, <4>4 DEF Promoted
      <4> QED BY <4>3, <4>4
    <3> QED BY <3>1, <3>2
  <2>8. Promoted(content, rrpv, fresh, reused)'
    BY <2>5, <2>6, <2>7 DEF Promoted
  <2>9. policy = "srrip" => \A s \in CacheSets, w \in CacheWays : content'[s][w] = NoLine => rrpv'[s][w] = maxRRPV
    <3> SUFFICES ASSUME policy = "srrip", NEW s \in CacheSets, NEW w \in CacheWays, content'[s][w] = NoLine
                 PROVE  rrpv'[s][w] = maxRRPV
      OBVIOUS
    <3>1. s # set \/ w # way
      BY <1>6
    <3>2. content[s][w] = NoLine /\ rrpv[s][w] = maxRRPV
      BY <1>6, <3>1 DEF ReplacementInv
    <3>3. CASE s # set
      BY <2>5, <3>2, <3>3
    <3>4. CASE s = set
      BY <2>3, <2>5, <3>1, <3>2, <3>4 DEF Full
    <3> QED BY <3>3, <3>4
  <2>10. Refusing(content, last_used, rrpv, refused)'
    BY <1>5, <1>6, <1>8, <1>9, <1>11, <2>5 DEF Refusing
  <2> QED BY <1>5, <1>6, <1>7, <1>11, <2>8, <2>9, <2>10 DEF ReplacementInv
<1> QED BY <1>10, <1>11

LEMMA ReplacementKeeps == ReplacementInv /\ [ReplacementNext]_replVars => ReplacementInv'
<1> SUFFICES ASSUME ReplacementInv, [ReplacementNext]_replVars PROVE ReplacementInv'
  OBVIOUS
<1>1. ASSUME NEW a \in ReplacementAccesses, Lookup(a) PROVE ReplacementInv'
  BY <1>1, HitKeeps, MissKeeps DEF Lookup
<1>2. ASSUME NEW m \in MSHR, FinishPacket(m) PROVE ReplacementInv'
  BY <1>2, FinishKeeps
<1>3. CASE UNCHANGED replVars
  <2>1. MSHR' \subseteq ReplacementAccesses /\ inflight_fills' \in Seq(ReplacementAccesses)
    BY <1>3 DEF replVars, ReplacementInv
  <2> QED BY <1>3, <2>1, ReplacementWaits DEF replVars
<1> QED BY <1>1, <1>2, <1>3, FillKeeps, RefusedKeeps DEF ReplacementNext

(* find_victim takes the coldest block, however often the write-back of the     *)
(* victim is refused: the one that lru has not used for the longest, and for    *)
(* the others one that was not promoted since the last search of its set unless *)
(* all were promoted since their fill; a retried fill keeps the victim it chose *)
(* unless that is hit - whatever the sets, the ways, the maximal value and the  *)
(* accesses.                                                                    *)
THEOREM ColdVictims == ReplacementSpec => VictimsAreCold
<1> DEFINE Cold(s, w) ==
      Evicted(s, w) =>
        /\ refused[s] \subseteq {w}
        /\ IF policy = "lru" THEN CacheWays \ {w} \subseteq used_since[s][w]
           ELSE w \in fresh[s] => reused[s] = CacheWays
<1>1. ASSUME ReplacementInv, FillWay, NEW s \in CacheSets, NEW w \in CacheWays PROVE Cold(s, w)
  <2> SUFFICES ASSUME Evicted(s, w)
               PROVE  /\ refused[s] \subseteq {w}
                      /\ policy = "lru" => CacheWays \ {w} \subseteq used_since[s][w]
                      /\ policy # "lru" => (w \in fresh[s] => reused[s] = CacheWays)
    OBVIOUS
  <2> DEFINE set == CacheSet(Head(inflight_fills).line)
  <2>1. set \in CacheSets
    <3>1. Head(inflight_fills) \in ReplacementAccesses
      BY <1>1 DEF ReplacementInv, FillWay
    <3> QED BY <3>1, Lines
  <2>2. content' = [content EXCEPT ![set][FilledWay(set)] = Head(inflight_fills).line]
    BY <1>1 DEF FillWay
  <2>3. FilledWay(set) \in CacheWays /\ (~Full(set) => content[set][FilledWay(set)] = NoLine)
    BY <1>1, <2>1, FilledWays
  <2> HIDE DEF set
  <2>4. content \in SetRows(Nat \cup {NoLine})
    BY <1>1 DEF ReplacementInv
  <2>5. s = set /\ w = FilledWay(set) /\ content[s][w] # NoLine
    BY <2>1, <2>2, <2>3, <2>4 DEF Evicted, SetRows
  <2>6. Full(s) /\ w = Victim(s)
    BY <2>3, <2>5 DEF FilledWay
  <2>7. \A v \in CacheWays : content[s][v] # NoLine
    BY <2>6 DEF Full
  <2>8. refused[s] \subseteq {w}
    BY <1>1, <2>6, SearchFinds
  <2>9. policy = "lru" => CacheWays \ {w} \subseteq used_since[s][w]
    <3> SUFFICES ASSUME policy = "lru", NEW v \in CacheWays, v # w PROVE v \in used_since[s][w]
      OBVIOUS
    <3>1. Ordered(content, last_used, clock, used_since)
      BY <1>1 DEF ReplacementInv
    <3>2. last_used[s][w] <= last_used[s][v]
      BY <1>1, <2>6, SearchFinds
    <3>3. last_used[s][w] # last_used[s][v] /\ last_used[s][w] \in Nat /\ last_used[s][v] \in Nat
      BY <2>7, <3>1 DEF Ordered, SetRows
    <3> QED BY <2>7, <3>1, <3>2, <3>3 DEF Ordered
  <2>10. policy # "lru" => (w \in fresh[s] => reused[s] = CacheWays)
    <3> SUFFICES ASSUME policy # "lru", w \in fresh[s] PROVE reused[s] = CacheWays
      OBVIOUS
    <3>1. Promoted(content, rrpv, fresh, reused)
      BY <1>1 DEF ReplacementInv
    <3>2. rrpv[s][w] = 0
      BY <3>1 DEF Promoted
    <3>3. ASSUME NEW v \in CacheWays PROVE v \in reused[s]
      <4>1. rrpv[s][v] \in 0 .. maxRRPV /\ maxRRPV \in Nat
        BY <3>1, Lines DEF Promoted, SetRows
      <4>2. rrpv[s][w] >= rrpv[s][v]
        BY <1>1, <2>6, SearchFinds
      <4>3. rrpv[s][v] = 0
        BY <3>2, <4>1, <4>2
      <4> QED BY <2>7, <3>1, <4>3 DEF Promoted
    <3> QED BY <3>1, <3>3 DEF Promoted
  <2> QED BY <2>8, <2>9, <2>10
<1>2. ASSUME ReplacementInv, [ReplacementNext]_replVars, NEW s \in CacheSets, NEW w \in CacheWays PROVE Cold(s, w)
  <2>1. CASE UNCHANGED content
    BY <2>1 DEF Evicted
  <2>2. CASE FillWay
    BY <1>1, <1>2, <2>2
  <2>3. FillWay \/ UNCHANGED content
    BY <1>2 DEF ReplacementNext, Lookup, LookupHit, LookupMiss, FinishPacket, FillRefused, replVars
  <2> QED BY <2>1, <2>2, <2>3
<1>3. ReplacementInv /\ [ReplacementNext]_replVars
      => [\A s \in CacheSets, w \in CacheWays : Cold(s, w)]_replVars
  BY <1>2
<1>4. ReplacementSpec => []ReplacementInv
  BY ReplacementStarts, ReplacementKeeps, PTL DEF ReplacementSpec
<1> QED BY <1>3, <1>4, PTL DEF ReplacementSpec, VictimsAreCold

-------------------------------------------------------------------------------
(* The signature path prefetcher *)

SppTags == {0} \cup {PageTag[Page(line)] : line \in SppLines}
SppRemainders == {0} \cup {Remainder[line] : line \in DOMAIN Quotient}
PageOffsets == 0 .. BLOCKS_PER_PAGE - 1
TableEntries ==
  [valid: BOOLEAN, tag: SppTags, last_offset: PageOffsets, sig: Signatures, lru: 0 .. ST_WAY - 1]
CountedSets == [delta: [1 .. PT_WAY -> PageDeltas], c_delta: [1 .. PT_WAY -> 0 .. C_SIG_MAX], c_sig: 0 .. C_SIG_MAX]
SppSlots == [valid: BOOLEAN, useful: BOOLEAN, remainder_tag: SppRemainders]
Registers == [valid: BOOLEAN, sig: Signatures, confidence: Nat, offset: PageOffsets, delta: PageDeltas]
Globals == [entry: [1 .. MAX_GHR_ENTRY -> Registers], pf_useful: Nat, pf_issued: Nat, halved: BOOLEAN, failed: BOOLEAN]
PathCandidates == [conf: Nat, delta: PageDeltas]
PathWalks ==
  [at: {"return", "read_pattern", "candidate"}, page: Int, accuracy: Nat, sig: Signatures, base: Int,
   queue: Seq(PathCandidates), head: Nat \ {0}, pos: Nat \ {0}, way: 0 .. PT_WAY, conf: Nat, depth: Nat,
   more: BOOLEAN]

(* Every LRU value stands once in ST, so that there is a least recent way. *)
TableInv(table) ==
  /\ table \in [1 .. ST_WAY -> TableEntries]
  /\ \A v, w \in 1 .. ST_WAY : v # w => table[v].lru # table[w].lru

(* A delta counts in its set of PT: c_sig stays above the counts of all its *)
(* ways together, and a set nothing was counted in holds no delta but zero.  *)
WellCounted(set) ==
  /\ set \in CountedSets
  /\ IF set.c_sig = 0 THEN \A w \in 1 .. PT_WAY : set.delta[w] = 0 /\ set.c_delta[w] = 0
     ELSE Cardinality(Occurrences(set)) < set.c_sig
PatternInv == PT \in [PatternSets -> CountedSets] /\ \A s \in PatternSets : WellCounted(PT[s])

(* The prefetches that may still count as useful: until the counters are *)
(* halved, pf_issued has counted every one of them.                       *)
Pending(filter) == {q \in FilterSlots : filter[q].valid /\ ~filter[q].useful}
GlobalInv(ghr, filter) ==
  /\ ghr \in Globals
  /\ ~ghr.halved => /\ ghr.pf_useful + Cardinality(Pending(filter)) <= ghr.pf_issued
                    /\ ~ghr.failed
                    /\ \A i \in 1 .. MAX_GHR_ENTRY : ghr.entry[i].confidence < 100

(* A lookahead: the slot with confidence 100 is the first one and leads     *)
(* nowhere, and the pass that looks at the first slot has not left its page. *)
WalkInv ==
  /\ walk \in PathWalks
  /\ walk.at # "return" => \E line \in SppLines : walk.page = Page(line)
  /\ walk.at = "read_pattern" => walk.head >= 2 \/ (walk.queue = <<>> /\ Page(walk.base) = walk.page)
  /\ walk.at = "candidate" /\ walk.more => walk.head >= 2
  /\ walk.at = "candidate" /\ walk.pos = 1 => Page(walk.base) = walk.page
  /\ ~GHR.halved =>
       /\ walk.accuracy <= 100 /\ walk.conf + walk.depth <= 100
       /\ \A i \in DOMAIN walk.queue : walk.queue[i].conf >= 100 => i = 1 /\ walk.queue[i].delta = 0

FilterInv == FILTER \in [FilterSlots -> SppSlots]
SppInv == TableInv(ST) /\ PatternInv /\ FilterInv /\ GlobalInv(GHR, FILTER) /\ WalkInv

LEMMA SppConstants ==
  /\ ST_WAY \in Nat /\ ST_WAY > 0 /\ PT_WAY \in Nat /\ PT_WAY > 0
  /\ MAX_GHR_ENTRY \in Nat /\ MAX_GHR_ENTRY > 0 /\ BLOCKS_PER_PAGE \in Nat /\ BLOCKS_PER_PAGE > 0
  /\ C_SIG_MAX \in Nat /\ C_SIG_MAX % 2 = 1 /\ FILL_THRESHOLD \in Nat /\ GLOBAL_COUNTER_MAX \in Nat
  /\ PF_THRESHOLD \in Nat /\ PF_THRESHOLD > 0
  /\ 0 \in Signatures /\ Signatures \subseteq Nat /\ DOMAIN SignatureHash = Signatures
  /\ \A sig \in Signatures, delta \in PageDeltas : NextSig(sig, delta) \in Signatures
  /\ SppLines \subseteq Nat /\ SppEvicted \subseteq DOMAIN Quotient
  /\ 0 \in PageDeltas /\ PageDeltas \subseteq Int /\ 0 \in PageOffsets
  /\ \A sig \in Signatures : SignatureHash[sig] \in PatternSets
  /\ \A line \in DOMAIN Quotient : Quotient[line] \in FilterSlots
<1>1. /\ ST_WAY \in Nat /\ ST_WAY > 0 /\ PT_WAY \in Nat /\ PT_WAY > 0
      /\ MAX_GHR_ENTRY \in Nat /\ MAX_GHR_ENTRY > 0 /\ BLOCKS_PER_PAGE \in Nat /\ BLOCKS_PER_PAGE > 0
      /\ C_SIG_MAX \in Nat /\ C_SIG_MAX % 2 = 1 /\ FILL_THRESHOLD \in Nat /\ GLOBAL_COUNTER_MAX \in Nat
      /\ PF_THRESHOLD \in Nat /\ PF_THRESHOLD > 0
  BY SppAssumption
<1>2. /\ 0 \in Signatures /\ Signatures \subseteq Nat /\ DOMAIN SignatureHash = Signatures
      /\ SppLines \subseteq Nat /\ SppEvicted \subseteq DOMAIN Quotient
  BY SppAssumption
<1>3. \A sig \in Signatures, delta \in PageDeltas : NextSig(sig, delta) \in Signatures
  BY SppAssumption
<1>4. 0 \in PageDeltas /\ PageDeltas \subseteq Int /\ 0 \in PageOffsets
  BY <1>1 DEF PageDeltas, PageOffsets
<1>5. /\ \A sig \in Signatures : SignatureHash[sig] \in PatternSets
      /\ \A line \in DOMAIN Quotient : Quotient[line] \in FilterSlots
  BY DEF PatternSets, FilterSlots
<1> QED BY <1>1, <1>2, <1>3, <1>4, <1>5

LEMMA SppSlotsFinite == IsFiniteSet(FilterSlots)
<1>1. IsFiniteSet(DOMAIN Quotient)
  BY SppAssumption
<1>2. IsFiniteSet({Quotient[line] : line \in DOMAIN Quotient})
  <2> DEFINE D == DOMAIN Quotient
             T == {Quotient[line] : line \in D}
             f == [line \in D |-> Quotient[line]]
  <2>1. f \in Surjection(D, T)
    BY DEF Surjection
  <2> HIDE DEF f
  <2> QED BY <1>1, <2>1, FS_Surjection
<1> QED BY <1>2 DEF FilterSlots

(* A line of the page of an access has a slot in the filter. *)
LEMMA InPage ==
  ASSUME NEW line \in Int, NEW l \in SppLines, Page(line) = Page(l)
  PROVE  line \in DOMAIN Quotient /\ Quotient[line] \in FilterSlots /\ Remainder[line] \in SppRemainders
<1> DEFINE r == line % BLOCKS_PER_PAGE
           p == line \div BLOCKS_PER_PAGE
<1>1. BLOCKS_PER_PAGE \in Nat /\ BLOCKS_PER_PAGE > 0
  BY SppConstants
<1>2. r \in 0 .. BLOCKS_PER_PAGE - 1 /\ BLOCKS_PER_PAGE * p + r = line /\ p \in Int
  BY <1>1
<1>3. Page(l) = p
  BY DEF Page
<1> HIDE DEF r, p
<1>4. p * BLOCKS_PER_PAGE + r \in DOMAIN Quotient
  BY <1>2, <1>3, SppAssumption
<1>5. p * BLOCKS_PER_PAGE = BLOCKS_PER_PAGE * p
  BY <1>1, <1>2
<1>6. line \in DOMAIN Quotient
  BY <1>2, <1>4, <1>5
<1> QED BY <1>6, SppConstants DEF SppRemainders

LEMMA OffsetInPage ==
  ASSUME NEW line \in Int
  PROVE  Offset(line) \in PageOffsets /\ Page(line) \in Int
BY SppConstants DEF Offset, PageOffsets, Page

(* LowestWith and Least choose from their set. *)
LEMMA LowestIn ==
  ASSUME NEW n \in Nat, NEW S \in SUBSET (1 .. n), S # {}, NEW f, \A i \in S : f[i] \in Int
  PROVE  LowestWith(S, f) \in S /\ \A j \in S : f[LowestWith(S, f)] <= f[j]
<1> DEFINE g == [i \in S |-> f[i]]
           T == {i \in S : \A j \in S : f[i] <= f[j]}
<1>1. IsFiniteSet(1 .. n)
  BY FS_Interval
<1>2. IsFiniteSet(S)
  BY <1>1, FS_Subset
<1>3. g \in [S -> Int]
  OBVIOUS
<1>4. \A i \in S : g[i] = f[i]
  OBVIOUS
<1> HIDE DEF g
<1>5. \E w \in S : \A v \in S : g[w] <= g[v]
  BY <1>2, <1>3, Extremes
<1>6. T # {} /\ T \in SUBSET S
  BY <1>4, <1>5
<1> HIDE DEF T
<1>9. \A i \in 1 .. n : i \in Int
  OBVIOUS
<1>10. T \in SUBSET Int
  BY <1>6, <1>9
<1>7. IsFiniteSet(T)
  BY <1>2, <1>6, FS_Subset
<1>8. Least(T) \in T
  BY <1>6, <1>7, <1>10, LeastMember
<1> QED BY <1>8 DEF T, LowestWith

LEMMA LeastIn ==
  ASSUME NEW n \in Nat, NEW S \in SUBSET (1 .. n), S # {}
  PROVE  Least(S) \in S
<1>1. IsFiniteSet(1 .. n)
  BY FS_Interval
<1>2. IsFiniteSet(S)
  BY <1>1, FS_Subset
<1>3. \A i \in 1 .. n : i \in Int
  OBVIOUS
<1>4. S \in SUBSET Int
  BY <1>3
<1> QED BY <1>2, <1>4, LeastMember

LEMMA Permutation ==
  ASSUME NEW table, TableInv(table)
  PROVE  {table[w].lru : w \in DOMAIN table} = 0 .. ST_WAY - 1
<1> DEFINE f == [w \in 1 .. ST_WAY |-> table[w].lru]
           I == {f[w] : w \in 1 .. ST_WAY}
<1>1. DOMAIN table = 1 .. ST_WAY /\ \A w \in 1 .. ST_WAY : table[w].lru \in 0 .. ST_WAY - 1
  BY DEF TableInv, TableEntries
<1>2. \A v, w \in 1 .. ST_WAY : v # w => f[v] # f[w]
  BY DEF TableInv
<1>3. I \in SUBSET (0 .. ST_WAY - 1) /\ I = {table[w].lru : w \in DOMAIN table}
  BY <1>1
<1> HIDE DEF f
<1>4. IsFiniteSet(I) /\ Cardinality(I) = ST_WAY
  BY <1>2, SppConstants, Counted
<1>5. IsFiniteSet(0 .. ST_WAY - 1) /\ Cardinality(0 .. ST_WAY - 1) = ST_WAY - 1 - 0 + 1
  BY SppConstants, IntervalSize
<1> HIDE DEF I
<1>6. Cardinality(0 .. ST_WAY - 1) = Cardinality(I)
  BY <1>4, <1>5, SppConstants
<1> QED BY <1>3, <1>5, <1>6, FS_Subset

(* The way that is used becomes the most recent, and the values stay apart. *)
LEMMA RecencyPermuted ==
  ASSUME NEW table, TableInv(table), NEW way \in 1 .. ST_WAY
  PROVE  TableInv(MadeRecent(table, way))
<1> DEFINE t == MadeRecent(table, way)
<1>1. table \in [1 .. ST_WAY -> TableEntries]
  BY DEF TableInv
<1>2. \A w \in 1 .. ST_WAY : table[w].lru \in 0 .. ST_WAY - 1
  BY <1>1 DEF TableEntries
<1>3. DOMAIN t = 1 .. ST_WAY /\ t = [w \in 1 .. ST_WAY |-> t[w]]
  BY <1>1 DEF MadeRecent
<1>4. \A w \in 1 .. ST_WAY :
        t[w] = [table[w] EXCEPT !.lru = IF w = way THEN 0
                                        ELSE IF @ < table[way].lru THEN @ + 1 ELSE @]
  BY <1>1 DEF MadeRecent
<1> HIDE DEF t
<1>5. ASSUME NEW w \in 1 .. ST_WAY
      PROVE  /\ t[w].lru = IF w = way THEN 0
                           ELSE IF table[w].lru < table[way].lru THEN table[w].lru + 1 ELSE table[w].lru
             /\ t[w] \in TableEntries
  <2> DEFINE x == IF w = way THEN 0
                  ELSE IF table[w].lru < table[way].lru THEN table[w].lru + 1 ELSE table[w].lru
  <2>1. t[w] = [table[w] EXCEPT !.lru = x]
    BY <1>4
  <2>2. x \in 0 .. ST_WAY - 1
    BY <1>2, SppConstants
  <2>3. table[w] \in TableEntries
    BY <1>1
  <2> HIDE DEF x
  <2>4. t[w].lru = x /\ t[w] \in TableEntries
    BY <2>1, <2>2, <2>3 DEF TableEntries
  <2> QED BY <2>4 DEF x
<1>6. \A v, w \in 1 .. ST_WAY : v # w => t[v].lru # t[w].lru
  <2> TAKE v, w \in 1 .. ST_WAY
  <2> SUFFICES ASSUME v # w PROVE t[v].lru # t[w].lru
    OBVIOUS
  <2>1. table[v].lru # table[w].lru /\ (v # way => table[v].lru # table[way].lru)
        /\ (w # way => table[w].lru # table[way].lru)
    BY DEF TableInv
  <2> QED BY <1>2, <1>5, <2>1
<1>7. t \in [1 .. ST_WAY -> TableEntries]
  BY <1>3, <1>5
<1> QED BY <1>6, <1>7 DEF TableInv, t

(* The counted occurrences of a set. *)
LEMMA OccurrencesFinite ==
  ASSUME NEW set
  PROVE  /\ IsFiniteSet(Occurrences(set)) /\ Cardinality(Occurrences(set)) \in Nat
         /\ Occurrences(set) \in SUBSET ((1 .. PT_WAY) \X (1 .. C_SIG_MAX))
<1>1. IsFiniteSet(1 .. PT_WAY) /\ IsFiniteSet(1 .. C_SIG_MAX)
  <2>1. 1 \in Int /\ PT_WAY \in Int /\ C_SIG_MAX \in Int
    BY SppConstants
  <2> QED BY <2>1, FS_Interval
<1>2. IsFiniteSet((1 .. PT_WAY) \X (1 .. C_SIG_MAX))
  BY <1>1, FS_Product
<1>3. Occurrences(set) \in SUBSET ((1 .. PT_WAY) \X (1 .. C_SIG_MAX))
  BY DEF Occurrences
<1>4. IsFiniteSet(Occurrences(set))
  BY <1>2, <1>3, FS_Subset
<1> QED BY <1>3, <1>4, FS_CardinalityType

LEMMA OccurrencePairs ==
  ASSUME NEW set, NEW w \in 1 .. PT_WAY, NEW k \in 1 .. C_SIG_MAX
  PROVE  <<w, k>> \in Occurrences(set) <=> k <= set.c_delta[w]
BY DEF Occurrences

(* No delta of a set occurs more often than all of them together. *)
LEMMA OneDelta ==
  ASSUME NEW set \in CountedSets, NEW w \in 1 .. PT_WAY
  PROVE  set.c_delta[w] <= Cardinality(Occurrences(set))
<1> DEFINE c == set.c_delta[w]
           O == Occurrences(set)
           f == [k \in 1 .. c |-> <<w, k>>]
<1>1. c \in 0 .. C_SIG_MAX /\ C_SIG_MAX \in Nat
  BY SppConstants DEF CountedSets
<1>2. \A k \in 1 .. c : <<w, k>> \in O
  <2> TAKE k \in 1 .. c
  <2>1. k \in 1 .. C_SIG_MAX /\ k <= c
    BY <1>1
  <2> QED BY <2>1, OccurrencePairs
<1> HIDE DEF O, c
<1>3. f \in Injection(1 .. c, O)
  BY <1>2 DEF Injection, IsInjective
<1>4. IsFiniteSet(O)
  BY OccurrencesFinite DEF O
<1> HIDE DEF f
<1>5. Cardinality(1 .. c) <= Cardinality(O)
  BY <1>3, <1>4, FS_Injection
<1>6. Cardinality(1 .. c) = c
  <2>1. 1 \in Int /\ c \in Int /\ 1 <= c + 1 /\ c - 1 + 1 = c
    BY <1>1
  <2> QED BY <2>1, IntervalSize
<1> QED BY <1>5, <1>6 DEF c, O

(* Halving every count at least halves them all together: two of the old *)
(* occurrences stand for every new one.                                   *)
LEMMA HalvesOnce ==
  ASSUME NEW k \in Nat, NEW l \in Nat, NEW a \in {0, 1}, NEW b \in {0, 1}, 2 * k - a = 2 * l - b
  PROVE  k = l /\ a = b
OBVIOUS

LEMMA HalvedOccurrences ==
  ASSUME NEW set, NEW half, \A w \in 1 .. PT_WAY : set.c_delta[w] \in 0 .. C_SIG_MAX,
         \A w \in 1 .. PT_WAY : half.c_delta[w] = set.c_delta[w] \div 2
  PROVE  2 * Cardinality(Occurrences(half)) <= Cardinality(Occurrences(set))
<1> DEFINE H == Occurrences(half)
           O == Occurrences(set)
           D == H \X {0, 1}
           f == [d \in D |-> <<d[1][1], 2 * d[1][2] - d[2]>>]
<1>1. C_SIG_MAX \in Nat /\ \A w \in 1 .. PT_WAY : set.c_delta[w] \in 0 .. C_SIG_MAX
  BY SppConstants
<1>2. ASSUME NEW d \in D
      PROVE  /\ d[1] \in H /\ d[2] \in {0, 1} /\ d = <<d[1], d[2]>>
             /\ d[1][1] \in 1 .. PT_WAY /\ d[1][2] \in 1 .. C_SIG_MAX /\ d[1] = <<d[1][1], d[1][2]>>
             /\ d[1][2] <= half.c_delta[d[1][1]]
  <2>1. d[1] \in H /\ d[2] \in {0, 1} /\ d = <<d[1], d[2]>>
    OBVIOUS
  <2>2. d[1] \in (1 .. PT_WAY) \X (1 .. C_SIG_MAX)
    BY <2>1, OccurrencesFinite
  <2>3. d[1][1] \in 1 .. PT_WAY /\ d[1][2] \in 1 .. C_SIG_MAX /\ d[1] = <<d[1][1], d[1][2]>>
    BY <2>2
  <2>4. d[1][2] <= half.c_delta[d[1][1]]
    BY <2>1, <2>3, OccurrencePairs
  <2> QED BY <2>1, <2>3, <2>4
<1>3. ASSUME NEW d \in D PROVE f[d] \in O
  <2> DEFINE w == d[1][1]
             k == d[1][2]
             b == d[2]
             c == set.c_delta[w]
  <2>1. w \in 1 .. PT_WAY /\ k \in 1 .. C_SIG_MAX /\ b \in {0, 1} /\ k <= half.c_delta[w]
    BY <1>2
  <2>2. half.c_delta[w] = c \div 2 /\ c \in 0 .. C_SIG_MAX
    BY <1>1, <2>1
  <2>3. f[d] = <<w, 2 * k - b>>
    OBVIOUS
  <2> HIDE DEF w, k, b
  <2>4. k <= c \div 2
    BY <2>1, <2>2
  <2> HIDE DEF c
  <2>5. 2 * k - b \in 1 .. C_SIG_MAX /\ 2 * k - b <= c
    BY <1>1, <2>1, <2>2, <2>4
  <2>6. <<w, 2 * k - b>> \in O
    BY <2>1, <2>5, OccurrencePairs DEF c
  <2> HIDE DEF f
  <2> QED BY <2>3, <2>6
<1>4. ASSUME NEW d \in D, NEW e \in D, f[d] = f[e] PROVE d = e
  <2>1. d[1][1] = e[1][1] /\ 2 * d[1][2] - d[2] = 2 * e[1][2] - e[2]
    BY <1>4
  <2>2. d[1][2] \in Nat /\ e[1][2] \in Nat /\ d[2] \in {0, 1} /\ e[2] \in {0, 1}
    BY <1>2
  <2>3. d[1][2] = e[1][2] /\ d[2] = e[2]
    BY <2>1, <2>2, HalvesOnce
  <2>4. d[1] = e[1]
    BY <1>2, <2>1, <2>3
  <2> QED BY <1>2, <2>3, <2>4
<1>5. f \in Injection(D, O)
  <2>1. f \in [D -> O]
    BY <1>3
  <2>2. \A d, e \in D : f[d] = f[e] => d = e
    BY <1>4
  <2> HIDE DEF f, D, O
  <2> QED BY <2>1, <2>2 DEF Injection, IsInjective
<1>6. IsFiniteSet(H) /\ IsFiniteSet(O) /\ Cardinality(H) \in Nat /\ Cardinality(O) \in Nat
  BY OccurrencesFinite
<1>7. IsFiniteSet({0, 1}) /\ Cardinality({0, 1}) = 2
  <2>1. IsFiniteSet(0 .. 1) /\ Cardinality(0 .. 1) = 1 - 0 + 1
    <3>1. 0 \in Int /\ 1 \in Int /\ 0 <= 1 + 1
      OBVIOUS
    <3> QED BY <3>1, IntervalSize
  <2>2. {0, 1} = 0 .. 1
    OBVIOUS
  <2> QED BY <2>1, <2>2
<1> HIDE DEF H, O, f
<1>8. Cardinality(D) = Cardinality(H) * Cardinality({0, 1})
  BY <1>6, <1>7, FS_Product
<1>9. Cardinality(D) <= Cardinality(O)
  BY <1>5, <1>6, FS_Injection
<1> QED BY <1>6, <1>7, <1>8, <1>9 DEF H, O

(* The counts of a set stay below c_sig when one more delta is counted. *)
LEMMA SetUpdated ==
  ASSUME NEW set, WellCounted(set), NEW delta \in PageDeltas, delta # 0
  PROVE  WellCounted(UpdateSet(set, delta))
<1> DEFINE known == {w \in 1 .. PT_WAY : set.delta[w] = delta}
           way == IF known # {} THEN Least(known) ELSE LowestWith(1 .. PT_WAY, set.c_delta)
           O == Occurrences(set)
           n == Cardinality(O)
           c == set.c_delta[way]
           add == IF known # {} THEN c + 1 ELSE 0
           next == [delta |-> [set.delta EXCEPT ![way] = delta],
                    c_delta |-> [set.c_delta EXCEPT ![way] = add],
                    c_sig |-> set.c_sig + 1]
<1>1. /\ set.delta \in [1 .. PT_WAY -> PageDeltas] /\ set.c_delta \in [1 .. PT_WAY -> 0 .. C_SIG_MAX]
      /\ set.c_sig \in 0 .. C_SIG_MAX /\ set \in CountedSets
  BY DEF WellCounted, CountedSets
<1>2. PT_WAY \in Nat /\ 1 \in 1 .. PT_WAY /\ C_SIG_MAX \in Nat /\ C_SIG_MAX % 2 = 1
  BY SppConstants
<1>3. way \in 1 .. PT_WAY /\ (known # {} => way \in known)
  <2>1. CASE known # {}
    <3>1. known \in SUBSET (1 .. PT_WAY)
      OBVIOUS
    <3> HIDE DEF known
    <3>2. Least(known) \in known
      BY <1>2, <2>1, <3>1, LeastIn
    <3> QED BY <2>1, <3>1, <3>2
  <2>2. CASE known = {}
    <3>1. \A i \in 1 .. PT_WAY : set.c_delta[i] \in Int
      BY <1>1, <1>2
    <3>2. 1 .. PT_WAY \in SUBSET (1 .. PT_WAY) /\ 1 .. PT_WAY # {}
      BY <1>2
    <3>3. LowestWith(1 .. PT_WAY, set.c_delta) \in 1 .. PT_WAY
      BY <1>2, <3>1, <3>2, LowestIn
    <3> QED BY <2>2, <3>3
  <2> QED BY <2>1, <2>2
<1>4. IsFiniteSet(O) /\ n \in Nat
  BY OccurrencesFinite
<1>5. known # {} => set.c_sig # 0
  BY <1>3 DEF WellCounted
<1>6. c \in 0 .. C_SIG_MAX
  BY <1>1, <1>3
<1>7. n < set.c_sig + 1 /\ (set.c_sig # 0 => n < set.c_sig)
  <2>1. CASE set.c_sig = 0
    <3>1. \A w \in 1 .. PT_WAY : set.c_delta[w] = 0
      BY <2>1 DEF WellCounted
    <3>2. O = {}
      BY <3>1 DEF Occurrences
    <3>3. n = 0
      BY <3>2, FS_EmptySet
    <3> QED BY <2>1, <3>3
  <2>2. CASE set.c_sig # 0
    <3>1. n < set.c_sig
      BY <2>2 DEF WellCounted
    <3> HIDE DEF n
    <3> QED BY <1>1, <1>4, <3>1
  <2> QED BY <2>1, <2>2
<1>8. known # {} => c < C_SIG_MAX
  <2> SUFFICES ASSUME known # {} PROVE c < C_SIG_MAX
    OBVIOUS
  <2>1. c <= n
    BY <1>1, <1>3, OneDelta
  <2>2. n < set.c_sig
    BY <1>5, <1>7
  <2> HIDE DEF c, n, known
  <2> QED BY <1>1, <1>2, <1>4, <1>6, <2>1, <2>2
<1>9. add \in 0 .. C_SIG_MAX
  <2> HIDE DEF c, known
  <2> QED BY <1>2, <1>6, <1>8
<1> DEFINE N == Occurrences(next)
<1>10. /\ next.delta \in [1 .. PT_WAY -> PageDeltas] /\ next.c_delta \in [1 .. PT_WAY -> 0 .. C_SIG_MAX]
       /\ next.c_sig = set.c_sig + 1
       /\ \A w \in 1 .. PT_WAY : next.c_delta[w] = IF w = way THEN add ELSE set.c_delta[w]
  <2> HIDE DEF add, way
  <2> QED BY <1>1, <1>3, <1>9
<1> HIDE DEF next
<1>11. IsFiniteSet(N) /\ Cardinality(N) \in Nat /\ Cardinality(N) < set.c_sig + 1
  <2> USE DEF N
  <2>1. IsFiniteSet(N) /\ Cardinality(N) \in Nat
    BY OccurrencesFinite
  <2>2. CASE known # {}
    <3>1. N \subseteq O \cup {<<way, c + 1>>}
      <4> SUFFICES ASSUME NEW o \in N PROVE o \in O \cup {<<way, c + 1>>}
        OBVIOUS
      <4>1. o \in (1 .. PT_WAY) \X (1 .. C_SIG_MAX)
        BY OccurrencesFinite
      <4>2. PICK w \in 1 .. PT_WAY, k \in 1 .. C_SIG_MAX : o = <<w, k>>
        BY <4>1
      <4>3. k <= next.c_delta[w]
        BY <4>2, OccurrencePairs
      <4>4. w # way => k <= set.c_delta[w]
        BY <1>10, <4>3
      <4>5. w = way => k <= c + 1
        BY <1>10, <2>2, <4>3
      <4>6. w = way => k <= set.c_delta[w] \/ k = c + 1
        <5> SUFFICES ASSUME w = way PROVE k <= set.c_delta[w] \/ k = c + 1
          OBVIOUS
        <5>1. set.c_delta[w] = c
          OBVIOUS
        <5> HIDE DEF c, way
        <5> QED BY <1>2, <1>6, <4>2, <4>5, <5>1
      <4>7. k <= set.c_delta[w] => <<w, k>> \in O
        BY OccurrencePairs
      <4> HIDE DEF O, N, c, way
      <4> QED BY <4>2, <4>4, <4>6, <4>7
    <3> DEFINE e == <<way, c + 1>>
    <3> HIDE DEF e, N, O
    <3>2. IsFiniteSet(O \cup {e}) /\ Cardinality(O \cup {e}) <= n + 1
      <4>1. /\ IsFiniteSet(O \cup {e})
            /\ Cardinality(O \cup {e}) = IF e \in O THEN Cardinality(O) ELSE Cardinality(O) + 1
        BY <1>4, FS_AddElement
      <4>2. Cardinality(O) = n
        OBVIOUS
      <4> HIDE DEF n
      <4> QED BY <1>4, <4>1, <4>2
    <3>3. Cardinality(N) <= Cardinality(O \cup {e})
      BY <3>1, <3>2, FS_Subset DEF e
    <3>4. n < set.c_sig
      BY <1>5, <1>7, <2>2
    <3>5. Cardinality(O \cup {e}) \in Nat
      BY <3>2, FS_CardinalityType
    <3> HIDE DEF n
    <3> QED BY <1>1, <1>4, <2>1, <3>2, <3>3, <3>4, <3>5
  <2>3. CASE known = {}
    <3>1. N \subseteq O
      <4> SUFFICES ASSUME NEW o \in N PROVE o \in O
        OBVIOUS
      <4>1. o \in (1 .. PT_WAY) \X (1 .. C_SIG_MAX)
        BY OccurrencesFinite
      <4>2. PICK w \in 1 .. PT_WAY, k \in 1 .. C_SIG_MAX : o = <<w, k>>
        BY <4>1
      <4>3. k <= next.c_delta[w]
        BY <4>2, OccurrencePairs
      <4>4. w # way => k <= set.c_delta[w]
        BY <1>10, <4>3
      <4>5. w = way => k <= 0
        BY <1>10, <2>3, <4>3
      <4>6. w # way
        <5> HIDE DEF way
        <5> QED BY <4>2, <4>5
      <4>7. k <= set.c_delta[w] => <<w, k>> \in O
        BY OccurrencePairs
      <4> HIDE DEF O, N, way
      <4> QED BY <4>2, <4>4, <4>6, <4>7
    <3> HIDE DEF N, O
    <3>2. Cardinality(N) <= Cardinality(O)
      BY <1>4, <3>1, FS_Subset
    <3>3. Cardinality(O) = n
      OBVIOUS
    <3> HIDE DEF n
    <3> QED BY <1>1, <1>4, <1>7, <2>1, <3>2, <3>3
  <2> QED BY <2>1, <2>2, <2>3
<1>12. UpdateSet(set, delta) = Halved(next)
  BY DEF UpdateSet, next
<1> HIDE DEF N, n, c, add, way, known, O
<1>13. CASE next.c_sig <= C_SIG_MAX
  <2>1. Halved(next) = next
    BY <1>13 DEF Halved
  <2>2. next \in CountedSets
    BY <1>1, <1>2, <1>10, <1>13 DEF CountedSets, next
  <2>3. next.c_sig # 0 /\ Cardinality(Occurrences(next)) < next.c_sig
    BY <1>1, <1>2, <1>10, <1>11 DEF N
  <2> QED BY <1>12, <2>1, <2>2, <2>3 DEF WellCounted
<1>14. CASE ~(next.c_sig <= C_SIG_MAX)
  <2> DEFINE half == Halved(next)
             M == Occurrences(half)
  <2>1. half = [delta |-> next.delta, c_delta |-> [w \in 1 .. PT_WAY |-> next.c_delta[w] \div 2],
                c_sig |-> next.c_sig \div 2]
    BY <1>14 DEF Halved
  <2>2. \A w \in 1 .. PT_WAY : half.c_delta[w] = next.c_delta[w] \div 2 /\ half.c_delta[w] \in 0 .. C_SIG_MAX
    BY <1>2, <1>10, <2>1
  <2>3. half.delta = next.delta /\ half.c_sig = next.c_sig \div 2 /\ half.c_delta = [w \in 1 .. PT_WAY |-> half.c_delta[w]]
    BY <2>1
  <2>4. next.c_sig = C_SIG_MAX + 1 /\ set.c_sig = C_SIG_MAX
    BY <1>1, <1>2, <1>10, <1>14
  <2>5. half.c_sig \in 1 .. C_SIG_MAX /\ 2 * half.c_sig = C_SIG_MAX + 1
    BY <1>2, <2>3, <2>4
  <2>6. half \in CountedSets
    <3>1. half = [delta |-> half.delta, c_delta |-> half.c_delta, c_sig |-> half.c_sig]
      BY <2>1
    <3>2. half.delta \in [1 .. PT_WAY -> PageDeltas] /\ half.c_delta \in [1 .. PT_WAY -> 0 .. C_SIG_MAX]
          /\ half.c_sig \in 0 .. C_SIG_MAX
      <4> HIDE DEF half
      <4> QED BY <1>2, <1>10, <2>2, <2>3, <2>5
    <3> HIDE DEF half
    <3> QED BY <3>1, <3>2 DEF CountedSets
  <2>7. 2 * Cardinality(M) <= Cardinality(N) /\ Cardinality(M) \in Nat
    <3>1. \A w \in 1 .. PT_WAY : next.c_delta[w] \in 0 .. C_SIG_MAX
      BY <1>10
    <3>2. \A w \in 1 .. PT_WAY : half.c_delta[w] = next.c_delta[w] \div 2
      BY <2>2
    <3> HIDE DEF half
    <3> QED BY <3>1, <3>2, HalvedOccurrences, OccurrencesFinite DEF N
  <2> HIDE DEF half, M
  <2>8. Cardinality(M) < half.c_sig
    BY <1>2, <1>11, <2>4, <2>5, <2>7
  <2> QED BY <1>12, <2>5, <2>6, <2>8 DEF WellCounted, half, M
<1> QED BY <1>13, <1>14

(* Quotients and products of the confidences. *)
LEMMA QuotientBelow ==
  ASSUME NEW x \in Nat, NEW s \in Nat \ {0}, NEW m \in Nat, x < m * s
  PROVE  x \div s \in Nat /\ x \div s < m
<1> DEFINE q == x \div s
<1>1. q \in Nat /\ s * q <= x
  OBVIOUS
<1> HIDE DEF q
<1>2. SUFFICES ASSUME q >= m PROVE FALSE
  BY <1>1 DEF q
<1> DEFINE d == q - m
<1>3. d \in Nat /\ q = m + d
  BY <1>1, <1>2
<1> HIDE DEF d
<1> DEFINE y == s * q
           t == m * s
           u == s * d
<1>4. y \in Int /\ t \in Int /\ u \in Int /\ y = t + u /\ u >= 0
  BY <1>1, <1>3
<1>5. y <= x /\ x < t
  BY <1>1
<1> HIDE DEF y, t, u
<1> QED BY <1>4, <1>5

LEMMA Product ==
  ASSUME NEW a \in Nat, NEW b \in Nat
  PROVE  a * b \in Nat
OBVIOUS

LEMMA ProductBelow ==
  ASSUME NEW a \in Nat, NEW b \in Nat, NEW m \in Nat, a <= m
  PROVE  a * b <= m * b
<1> DEFINE d == m - a
<1>1. d \in Nat /\ m = a + d
  OBVIOUS
<1> HIDE DEF d
<1>2. m * b = a * b + d * b /\ d * b \in Nat /\ a * b \in Nat
  BY <1>1
<1> QED BY <1>2

(* A share below one of something is less than it. *)
LEMMA Share ==
  ASSUME NEW a \in Nat, NEW c \in Nat, NEW s \in Nat \ {0}
  PROVE  /\ (a * c) \div s \in Nat
         /\ c < s /\ a <= 100 => (a * c) \div s < 100
<1>1. a * c \in Nat
  BY Product
<1>2. (a * c) \div s \in Nat
  <2> DEFINE x == a * c
  <2> HIDE DEF x
  <2>1. x \div s \in Nat
    BY <1>1 DEF x
  <2> QED BY <2>1 DEF x
<1>3. ASSUME c < s, a <= 100 PROVE (a * c) \div s < 100
  <2>1. a * c <= 100 * c
    BY <1>3, ProductBelow
  <2>2. 100 * c < 100 * s
    BY <1>3
  <2>3. a * c < 100 * s
    BY <1>1, <2>1, <2>2
  <2> QED BY <1>1, <2>3, QuotientBelow
<1> QED BY <1>2, <1>3

LEMMA LessConfidence ==
  ASSUME NEW k \in Nat, NEW conf \in Nat
  PROVE  /\ (k * conf) \div 100 \in Nat
         /\ k < 100 /\ conf > 0 => (k * conf) \div 100 < conf
         /\ conf = 0 => (k * conf) \div 100 = 0
<1>1. k * conf \in Nat
  BY Product
<1>2. (k * conf) \div 100 \in Nat
  <2> DEFINE x == k * conf
  <2> HIDE DEF x
  <2>1. x \div 100 \in Nat
    BY <1>1 DEF x
  <2> QED BY <2>1 DEF x
<1>3. ASSUME k < 100, conf > 0 PROVE (k * conf) \div 100 < conf
  <2>1. k * conf <= 99 * conf
    BY <1>3, ProductBelow
  <2>2. k * conf < conf * 100
    BY <1>1, <1>3, <2>1
  <2> QED BY <1>1, <2>2, QuotientBelow
<1>4. conf = 0 => (k * conf) \div 100 = 0
  <2>1. conf = 0 => k * conf = 0
    OBVIOUS
  <2> QED BY <2>1
<1> QED BY <1>2, <1>3, <1>4

(* The confidence read_pattern gives to a way of a set that was counted: *)
(* below 100, and less with every step of the lookahead.                   *)
LEMMA Confidences ==
  ASSUME SppInv, NEW set, WellCounted(set), set.c_sig # 0, NEW w \in 1 .. PT_WAY
  PROVE  /\ PfConf(set, w) \in Nat
         /\ ~GHR.halved => /\ PfConf(set, w) < 100
                           /\ PfConf(set, w) > 0 => PfConf(set, w) + walk.depth + 1 <= 100
<1> DEFINE c == set.c_delta[w]
           s == set.c_sig
           O == Cardinality(Occurrences(set))
           a == walk.accuracy
           conf == walk.conf
           depth == walk.depth
           p == PfConf(set, w)
<1>1. c \in Nat /\ s \in Nat \ {0} /\ c < s
  <2>1. set \in CountedSets /\ O < s
    BY DEF WellCounted
  <2>2. c \in 0 .. C_SIG_MAX /\ s \in 0 .. C_SIG_MAX /\ C_SIG_MAX \in Nat
    BY <2>1, SppConstants DEF CountedSets
  <2>3. c <= O
    BY <2>1, OneDelta
  <2>4. O \in Nat
    BY OccurrencesFinite
  <2> HIDE DEF O, c, s
  <2>5. s # 0
    BY DEF s
  <2> QED BY <2>1, <2>2, <2>3, <2>4, <2>5
<1>2. /\ a \in Nat /\ conf \in Nat /\ depth \in Nat
      /\ ~GHR.halved => a <= 100 /\ conf + depth <= 100
  BY DEF SppInv, WalkInv, PathWalks
<1>3. p = IF depth = 0 THEN (100 * c) \div s ELSE (((a * c) \div s) * conf) \div 100
  BY DEF PfConf
<1> HIDE DEF c, s, O, a, conf, depth, p
<1>4. CASE depth = 0
  <2>1. (100 * c) \div s \in Nat /\ (100 * c) \div s < 100
    BY <1>1, Share
  <2> QED BY <1>3, <1>4, <2>1 DEF p, depth
<1>5. CASE depth # 0
  <2> DEFINE k == (a * c) \div s
  <2>1. k \in Nat /\ (a <= 100 => k < 100)
    BY <1>1, <1>2, Share
  <2>2. p = (k * conf) \div 100
    BY <1>3, <1>5
  <2> HIDE DEF k
  <2>3. /\ p \in Nat
        /\ k < 100 /\ conf > 0 => p < conf
        /\ conf = 0 => p = 0
    BY <1>2, <2>1, <2>2, LessConfidence
  <2> QED BY <1>2, <1>5, <2>1, <2>3 DEF p, depth
<1> QED BY <1>4, <1>5

(* The second of two queues put together stands behind the first. *)
LEMMA Behind ==
  ASSUME NEW T, NEW s \in Seq(T), NEW t \in Seq(T)
  PROVE  /\ Len(s \o t) = Len(s) + Len(t)
         /\ \A j \in DOMAIN t : (s \o t)[Len(s) + j] = t[j]
<1>1. Len(s \o t) = Len(s) + Len(t)
  OBVIOUS
<1>2. \A j \in DOMAIN t : (s \o t)[Len(s) + j] = t[j]
  BY Concatenated
<1> QED BY <1>1, <1>2

(* read_pattern *)
LEMMA ReadPatternKeeps ==
  ASSUME SppInv, ReadPattern
  PROVE  SppInv'
<1> DEFINE set == PT[SignatureHash[walk.sig]]
           conf == [w \in 1 .. PT_WAY |-> PfConf(set, w)]
           chosen == {w \in 1 .. PT_WAY : conf[w] >= PF_THRESHOLD}
           found == [k \in 1 .. Cardinality(chosen) |->
                       [conf |-> conf[Nth(chosen, k)], delta |-> set.delta[Nth(chosen, k)]]]
           gap == [conf |-> IF walk.queue = <<>> /\ chosen = {} THEN 100 ELSE 0, delta |-> 0]
           follow == IF chosen = {} THEN 0 ELSE LowestWith(chosen, [w \in 1 .. PT_WAY |-> -conf[w]])
           Good(queue) == \A i \in DOMAIN queue : queue[i].conf >= 100 => i = 1 /\ queue[i].delta = 0
<1>1. /\ walk \in PathWalks /\ walk.at = "read_pattern" /\ walk.sig \in Signatures
      /\ walk.queue \in Seq(PathCandidates) /\ walk.way \in 0 .. PT_WAY /\ walk.conf \in Nat
      /\ walk.depth \in Nat /\ walk.head \in Nat \ {0}
  BY DEF SppInv, WalkInv, PathWalks, ReadPattern
<1>2. WellCounted(set) /\ set \in CountedSets
  BY <1>1, SppConstants DEF SppInv, PatternInv, WellCounted
<1>3. UNCHANGED <<ST, PT, FILTER, GHR, spp_last>>
  BY DEF ReadPattern
<1>4. walk' = [walk EXCEPT
                 !.at = "candidate", !.more = FALSE, !.pos = walk.head,
                 !.queue = IF set.c_sig = 0 THEN @ ELSE @ \o Append(found, gap),
                 !.way = IF set.c_sig = 0 THEN 0 ELSE follow,
                 !.conf = IF set.c_sig = 0 THEN @ ELSE IF follow = 0 THEN 0 ELSE conf[follow],
                 !.depth = IF set.c_sig = 0 \/ follow = 0 THEN @ ELSE @ + 1]
  BY DEF ReadPattern
<1> DEFINE queue2 == IF set.c_sig = 0 THEN walk.queue ELSE walk.queue \o Append(found, gap)
           way2 == IF set.c_sig = 0 THEN 0 ELSE follow
           conf2 == IF set.c_sig = 0 THEN walk.conf ELSE IF follow = 0 THEN 0 ELSE conf[follow]
           depth2 == IF set.c_sig = 0 \/ follow = 0 THEN walk.depth ELSE walk.depth + 1
<1>5. walk' = [at |-> "candidate", page |-> walk.page, accuracy |-> walk.accuracy, sig |-> walk.sig,
               base |-> walk.base, queue |-> queue2, head |-> walk.head, pos |-> walk.head, way |-> way2,
               conf |-> conf2, depth |-> depth2, more |-> FALSE]
  <2> HIDE DEF found, gap, follow, conf, set
  <2> QED BY <1>1, <1>4 DEF PathWalks
<1> HIDE DEF set, conf, gap
<1>6. /\ queue2 \in Seq(PathCandidates) /\ (~GHR.halved => Good(queue2))
      /\ way2 \in 0 .. PT_WAY /\ conf2 \in Nat /\ depth2 \in Nat
      /\ ~GHR.halved => conf2 + depth2 <= 100
  <2>0. ~GHR.halved => Good(walk.queue) /\ walk.conf + walk.depth <= 100
    BY DEF SppInv, WalkInv
  <2>1. CASE set.c_sig = 0
    <3>1. queue2 = walk.queue /\ way2 = 0 /\ conf2 = walk.conf /\ depth2 = walk.depth
      <4> HIDE DEF found, follow
      <4>1. queue2 = walk.queue
        BY <2>1
      <4>2. way2 = 0
        BY <2>1
      <4>3. conf2 = walk.conf
        BY <2>1
      <4>4. depth2 = walk.depth
        BY <2>1
      <4> HIDE DEF queue2, way2, conf2, depth2
      <4> QED BY <4>1, <4>2, <4>3, <4>4
    <3>2. 0 \in 0 .. PT_WAY
      BY SppConstants
    <3> HIDE DEF queue2, way2, conf2, depth2
    <3> QED BY <1>1, <2>0, <3>1, <3>2
  <2>2. CASE set.c_sig # 0
    <3>1. \A w \in 1 .. PT_WAY :
            /\ conf[w] \in Nat
            /\ ~GHR.halved => conf[w] < 100 /\ (conf[w] > 0 => conf[w] + walk.depth + 1 <= 100)
      BY <1>2, <2>2, Confidences DEF conf
    <3>2. chosen \in SUBSET (1 .. PT_WAY) /\ chosen \in SUBSET Int /\ IsFiniteSet(chosen)
      <4>1. \A i \in 1 .. PT_WAY : i \in Int
        BY SppConstants
      <4>2. IsFiniteSet(1 .. PT_WAY)
        <5>1. 1 \in Int /\ PT_WAY \in Int
          BY SppConstants
        <5> QED BY <5>1, FS_Interval
      <4>3. chosen \in SUBSET (1 .. PT_WAY)
        OBVIOUS
      <4> HIDE DEF chosen
      <4> QED BY <4>1, <4>2, <4>3, FS_Subset
    <3>3. follow \in 0 .. PT_WAY /\ (follow # 0 => follow \in chosen)
      <4>1. CASE chosen = {}
        BY <4>1, SppConstants
      <4>2. CASE chosen # {}
        <5> DEFINE g == [w \in 1 .. PT_WAY |-> -conf[w]]
        <5>1. \A i \in chosen : g[i] \in Int
          BY <3>1
        <5> HIDE DEF g, chosen
        <5>2. LowestWith(chosen, g) \in chosen
          BY <3>2, <4>2, <5>1, SppConstants, LowestIn
        <5>3. follow \in chosen
          BY <4>2, <5>2 DEF g
        <5> HIDE DEF follow
        <5> QED BY <3>2, <5>3, SppConstants
      <4> QED BY <4>1, <4>2
    <3>4. queue2 = walk.queue \o Append(found, gap) /\ way2 = follow
      BY <2>2
    <3>5. /\ follow = 0 => conf2 = 0 /\ depth2 = walk.depth
          /\ follow # 0 => conf2 = conf[follow] /\ depth2 = walk.depth + 1
      BY <2>2
    <3>6. \A w \in chosen : w \in 1 .. PT_WAY /\ conf[w] > 0
      <4>1. PF_THRESHOLD > 0 /\ PF_THRESHOLD \in Nat
        BY SppConstants
      <4> QED BY <3>1, <4>1
    <3>7. gap \in PathCandidates /\ gap.delta = 0 /\ (gap.conf >= 100 => walk.queue = <<>> /\ chosen = {})
      BY SppConstants DEF gap, PathCandidates
    <3> HIDE DEF chosen
    <3> DEFINE m == Cardinality(chosen)
    <3>8. m \in Nat /\ (chosen = {} => m = 0)
      BY <3>2, FS_CardinalityType, FS_EmptySet
    <3>9. \A k \in 1 .. m : found[k] \in PathCandidates /\ (~GHR.halved => found[k].conf < 100)
      <4> SUFFICES ASSUME NEW k \in 1 .. m
                   PROVE  found[k] \in PathCandidates /\ (~GHR.halved => found[k].conf < 100)
        OBVIOUS
      <4>1. Nth(chosen, k) \in chosen
        BY <3>2, NthElement
      <4>2. found[k] = [conf |-> conf[Nth(chosen, k)], delta |-> set.delta[Nth(chosen, k)]]
        OBVIOUS
      <4> HIDE DEF found
      <4>3. set.delta[Nth(chosen, k)] \in PageDeltas
        BY <1>2, <3>6, <4>1 DEF CountedSets
      <4> QED BY <3>1, <3>6, <4>1, <4>2, <4>3 DEF PathCandidates
    <3>10. found \in Seq(PathCandidates) /\ Len(found) = m
      <4>1. found = [k \in 1 .. m |-> found[k]]
        OBVIOUS
      <4> HIDE DEF found, m
      <4> QED BY <3>8, <3>9, <4>1
    <3>11. queue2 \in Seq(PathCandidates)
      <4> HIDE DEF found, queue2
      <4> QED BY <1>1, <3>4, <3>7, <3>10
    <3>12. ASSUME ~GHR.halved PROVE Good(queue2)
      <4> DEFINE tail == Append(found, gap)
      <4> HIDE DEF found, queue2
      <4>1. tail \in Seq(PathCandidates) /\ Len(tail) = m + 1 /\ tail[m + 1] = gap
            /\ \A k \in 1 .. m : tail[k] = found[k]
        <5> HIDE DEF m
        <5> QED BY <3>7, <3>8, <3>10
      <4>2. DOMAIN tail = 1 .. (m + 1)
        <5>1. DOMAIN tail = 1 .. Len(tail)
          BY <4>1
        <5> HIDE DEF tail, m
        <5> QED BY <4>1, <5>1
      <4> HIDE DEF tail
      <4>3. ASSUME NEW j \in DOMAIN tail, tail[j].conf >= 100
            PROVE  tail[j] = gap /\ walk.queue = <<>> /\ j = 1
        <5>1. j \in 1 .. m \/ j = m + 1
          <6> HIDE DEF m
          <6> QED BY <3>8, <4>2
        <5>2. j \notin 1 .. m
          <6> SUFFICES ASSUME j \in 1 .. m PROVE FALSE
            OBVIOUS
          <6>1. tail[j] = found[j] /\ found[j].conf < 100 /\ found[j] \in PathCandidates
            BY <3>9, <3>12, <4>1
          <6>2. found[j].conf \in Nat
            BY <6>1 DEF PathCandidates
          <6> QED BY <4>3, <6>1, <6>2
        <5>3. tail[j] = gap
          BY <4>1, <5>1, <5>2
        <5>4. walk.queue = <<>> /\ chosen = {}
          BY <3>7, <4>3, <5>3
        <5>5. m = 0
          BY <3>8, <5>4
        <5> HIDE DEF m
        <5> QED BY <5>1, <5>2, <5>3, <5>4, <5>5
      <4> DEFINE n == Len(walk.queue)
      <4>4. /\ \A k \in DOMAIN queue2 : \/ \E i \in DOMAIN walk.queue : queue2[k] = walk.queue[i] /\ i = k
                                        \/ \E j \in DOMAIN tail : queue2[k] = tail[j] /\ k = n + j
        <5>1. queue2 = walk.queue \o tail
          BY <3>4 DEF tail
        <5>6. /\ Len(walk.queue \o tail) = Len(walk.queue) + Len(tail)
              /\ \A j \in DOMAIN tail : (walk.queue \o tail)[Len(walk.queue) + j] = tail[j]
          <6> DEFINE q == walk.queue
          <6>1. q \in Seq(PathCandidates)
            BY <1>1
          <6> HIDE DEF q
          <6>2. /\ Len(q \o tail) = Len(q) + Len(tail)
                /\ \A j \in DOMAIN tail : (q \o tail)[Len(q) + j] = tail[j]
            BY <4>1, <6>1, Behind
          <6> QED BY <6>2 DEF q
        <5>2. DOMAIN queue2 = 1 .. (n + m + 1) /\ DOMAIN walk.queue = 1 .. n /\ n \in Nat
          <6>1. Len(queue2) = n + Len(tail)
            BY <5>1, <5>6
          <6>2. DOMAIN queue2 = 1 .. Len(queue2) /\ n \in Nat /\ DOMAIN walk.queue = 1 .. n
            BY <1>1, <3>11
          <6> HIDE DEF n, m
          <6> QED BY <3>8, <4>1, <6>1, <6>2
        <5>3. \A i \in DOMAIN walk.queue : queue2[i] = walk.queue[i]
          BY <1>1, <4>1, <5>1, Concatenated
        <5>4. \A j \in DOMAIN tail : queue2[n + j] = tail[j]
          BY <5>1, <5>6
        <5> HIDE DEF n, m
        <5> SUFFICES ASSUME NEW k \in DOMAIN queue2, ~(k \in DOMAIN walk.queue)
                     PROVE  \E j \in DOMAIN tail : queue2[k] = tail[j] /\ k = n + j
          BY <5>3
        <5>5. k - n \in DOMAIN tail /\ n + (k - n) = k
          BY <3>8, <4>2, <5>2
        <5> QED BY <5>4, <5>5
      <4>5. SUFFICES ASSUME NEW k \in DOMAIN queue2, queue2[k].conf >= 100
                     PROVE  k = 1 /\ queue2[k].delta = 0
        OBVIOUS
      <4>6. CASE \E i \in DOMAIN walk.queue : queue2[k] = walk.queue[i] /\ i = k
        BY <2>0, <3>12, <4>5, <4>6
      <4>7. CASE \E j \in DOMAIN tail : queue2[k] = tail[j] /\ k = n + j
        <5>1. PICK j \in DOMAIN tail : queue2[k] = tail[j] /\ k = n + j
          BY <4>7
        <5>2. tail[j] = gap /\ walk.queue = <<>> /\ j = 1
          BY <4>3, <4>5, <5>1
        <5>3. n = 0
          BY <5>2
        <5> HIDE DEF n
        <5> QED BY <3>7, <5>1, <5>2, <5>3
      <4> QED BY <4>4, <4>6, <4>7
    <3> HIDE DEF queue2, follow, way2, conf2, depth2, found, m
    <3>13. conf2 \in Nat /\ depth2 \in Nat /\ (~GHR.halved => conf2 + depth2 <= 100)
      <4>1. CASE follow = 0
        <5>1. ~GHR.halved => walk.depth <= 100
          BY <1>1, <2>0
        <5> QED BY <1>1, <3>5, <4>1, <5>1
      <4>2. CASE follow # 0
        <5>1. follow \in 1 .. PT_WAY /\ conf[follow] > 0
          BY <3>3, <3>6, <4>2
        <5>2. conf[follow] \in Nat /\ (~GHR.halved => conf[follow] + walk.depth + 1 <= 100)
          BY <3>1, <5>1
        <5> QED BY <1>1, <3>5, <4>2, <5>2
      <4> QED BY <4>1, <4>2
    <3> QED BY <3>3, <3>4, <3>11, <3>12, <3>13
  <2> QED BY <2>1, <2>2
<1> HIDE DEF queue2, way2, conf2, depth2
<1>7. WalkInv'
  <2>1. walk' \in PathWalks
    BY <1>1, <1>5, <1>6 DEF PathWalks
  <2>2. /\ walk'.at = "candidate" /\ walk'.more = FALSE /\ walk'.pos = walk.head /\ walk'.page = walk.page
        /\ walk'.base = walk.base /\ walk'.accuracy = walk.accuracy /\ walk'.conf = conf2
        /\ walk'.depth = depth2 /\ walk'.queue = queue2 /\ GHR' = GHR
    BY <1>3, <1>5
  <2>3. \E line \in SppLines : walk'.page = Page(line)
    BY <1>1, <2>2 DEF SppInv, WalkInv
  <2>4. walk'.pos = 1 => Page(walk'.base) = walk'.page
    <3>1. walk.head >= 2 \/ Page(walk.base) = walk.page
      BY <1>1 DEF SppInv, WalkInv
    <3> QED BY <1>1, <2>2, <3>1
  <2>5. ~GHR.halved => walk.accuracy <= 100
    BY DEF SppInv, WalkInv
  <2>6. ~GHR'.halved => /\ walk'.accuracy <= 100 /\ walk'.conf + walk'.depth <= 100
                        /\ \A i \in DOMAIN walk'.queue : walk'.queue[i].conf >= 100 => i = 1 /\ walk'.queue[i].delta = 0
    BY <1>6, <2>2, <2>5
  <2> QED BY <2>1, <2>2, <2>3, <2>4, <2>6 DEF WalkInv
<1>8. TableInv(ST)' /\ PatternInv' /\ FilterInv' /\ GlobalInv(GHR, FILTER)'
  BY <1>3 DEF SppInv, TableInv, PatternInv, FilterInv, GlobalInv, WellCounted, Occurrences, Pending
<1> QED BY <1>7, <1>8 DEF SppInv

(* The prefetches that are asked for and not yet used. *)
LEMMA PendingFinite ==
  ASSUME NEW filter
  PROVE  IsFiniteSet(Pending(filter)) /\ Cardinality(Pending(filter)) \in Nat
<1>1. Pending(filter) \in SUBSET FilterSlots
  BY DEF Pending
<1>2. IsFiniteSet(Pending(filter))
  BY <1>1, SppSlotsFinite, FS_Subset
<1> QED BY <1>2, FS_CardinalityType

LEMMA OneMorePending ==
  ASSUME NEW filter \in [FilterSlots -> SppSlots], NEW q \in FilterSlots, NEW slot \in SppSlots
  PROVE  /\ [filter EXCEPT ![q] = slot] \in [FilterSlots -> SppSlots]
         /\ Cardinality(Pending([filter EXCEPT ![q] = slot])) <= Cardinality(Pending(filter)) + 1
<1> DEFINE next == [filter EXCEPT ![q] = slot]
           P == Pending(filter)
           N == Pending(next)
<1>1. next \in [FilterSlots -> SppSlots] /\ \A r \in FilterSlots : r # q => next[r] = filter[r]
  OBVIOUS
<1> HIDE DEF next
<1>2. N \in SUBSET (P \cup {q})
  BY <1>1 DEF Pending
<1>3. IsFiniteSet(P) /\ Cardinality(P) \in Nat /\ Cardinality(N) \in Nat
  BY PendingFinite
<1> HIDE DEF P, N
<1>4. /\ IsFiniteSet(P \cup {q})
      /\ Cardinality(P \cup {q}) = IF q \in P THEN Cardinality(P) ELSE Cardinality(P) + 1
  BY <1>3, FS_AddElement
<1>5. Cardinality(N) <= Cardinality(P \cup {q})
  BY <1>2, <1>4, FS_Subset
<1>6. Cardinality(N) <= Cardinality(P) + 1
  BY <1>3, <1>4, <1>5
<1> QED BY <1>1, <1>6 DEF P, N, next

LEMMA OneLessPending ==
  ASSUME NEW filter \in [FilterSlots -> SppSlots], NEW q \in FilterSlots, NEW slot \in SppSlots,
         slot.useful \/ ~slot.valid
  PROVE  /\ [filter EXCEPT ![q] = slot] \in [FilterSlots -> SppSlots]
         /\ Cardinality(Pending([filter EXCEPT ![q] = slot])) =
              IF filter[q].valid /\ ~filter[q].useful THEN Cardinality(Pending(filter)) - 1
              ELSE Cardinality(Pending(filter))
<1> DEFINE next == [filter EXCEPT ![q] = slot]
           P == Pending(filter)
           N == Pending(next)
<1>1. /\ next \in [FilterSlots -> SppSlots] /\ next[q] = slot
      /\ \A r \in FilterSlots : r # q => next[r] = filter[r]
  OBVIOUS
<1> HIDE DEF next
<1>2. N = P \ {q}
  BY <1>1 DEF Pending
<1>3. IsFiniteSet(P) /\ Cardinality(P) \in Nat
  BY PendingFinite
<1>4. q \in P <=> filter[q].valid /\ ~filter[q].useful
  BY DEF Pending
<1> HIDE DEF P, N
<1>5. Cardinality(P \ {q}) = IF q \in P THEN Cardinality(P) - 1 ELSE Cardinality(P)
  BY <1>3, FS_RemoveElement
<1>6. Cardinality(N) = IF filter[q].valid /\ ~filter[q].useful THEN Cardinality(P) - 1 ELSE Cardinality(P)
  BY <1>2, <1>4, <1>5
<1> QED BY <1>1, <1>6 DEF P, N, next

(* GLOBAL_REGISTER::update_entry finds an entry to replace as long as no  *)
(* confidence is 100, and keeps it so.                                     *)
LEMMA RegisterUpdated ==
  ASSUME NEW ghr \in Globals, NEW sig \in Signatures, NEW candidate \in PathCandidates,
         NEW offset \in PageOffsets
  PROVE  LET next == UpdateEntry(ghr, sig, candidate, offset)
         IN  /\ next \in Globals /\ next.pf_useful = ghr.pf_useful /\ next.pf_issued = ghr.pf_issued
             /\ next.halved = ghr.halved
             /\ (\A i \in 1 .. MAX_GHR_ENTRY : ghr.entry[i].confidence < 100) /\ candidate.conf < 100
                => /\ next.failed = ghr.failed
                   /\ \A i \in 1 .. MAX_GHR_ENTRY : next.entry[i].confidence < 100
<1> DEFINE D == 1 .. MAX_GHR_ENTRY
           same == {i \in DOMAIN ghr.entry : ghr.entry[i].valid /\ ghr.entry[i].offset = offset}
           weak == {i \in DOMAIN ghr.entry : ghr.entry[i].confidence < 100}
           index == IF same # {} THEN Least(same)
                    ELSE LowestWith(weak, [i \in weak |-> ghr.entry[i].confidence])
           new == [valid |-> TRUE, sig |-> sig, confidence |-> candidate.conf, offset |-> offset,
                   delta |-> candidate.delta]
           next == UpdateEntry(ghr, sig, candidate, offset)
           low == \A i \in D : ghr.entry[i].confidence < 100
<1>1. /\ ghr.entry \in [D -> Registers] /\ DOMAIN ghr.entry = D /\ D # {} /\ MAX_GHR_ENTRY \in Nat
  BY SppConstants DEF Globals
<1>2. new \in Registers /\ new.confidence = candidate.conf
  BY DEF Registers, PathCandidates
<1>3. next = IF same \cup weak = {} THEN [ghr EXCEPT !.failed = TRUE] ELSE [ghr EXCEPT !.entry[index] = new]
  BY DEF UpdateEntry
<1>4. low => weak # {}
  BY <1>1
<1>5. same \cup weak # {} => index \in D
  <2>1. CASE same # {}
    <3>1. same \in SUBSET (1 .. MAX_GHR_ENTRY)
      BY <1>1
    <3> HIDE DEF same
    <3>2. Least(same) \in same
      BY <1>1, <2>1, <3>1, LeastIn
    <3> QED BY <2>1, <3>1, <3>2
  <2>2. CASE same = {} /\ weak # {}
    <3> DEFINE g == [i \in weak |-> ghr.entry[i].confidence]
    <3>1. weak \in SUBSET (1 .. MAX_GHR_ENTRY)
      BY <1>1
    <3>2. \A i \in weak : g[i] \in Int
      BY <1>1 DEF Registers
    <3>3. index = LowestWith(weak, g)
      BY <2>2
    <3> HIDE DEF weak, g, same, index
    <3>4. LowestWith(weak, g) \in weak
      BY <1>1, <2>2, <3>1, <3>2, LowestIn
    <3> QED BY <3>1, <3>3, <3>4
  <2> QED BY <2>1, <2>2
<1> HIDE DEF index, new
<1>6. CASE same \cup weak = {}
  <2>1. next = [ghr EXCEPT !.failed = TRUE]
    BY <1>3, <1>6
  <2>2. ~low
    BY <1>4, <1>6
  <2> HIDE DEF next
  <2>3. next \in Globals /\ next.pf_useful = ghr.pf_useful /\ next.pf_issued = ghr.pf_issued
        /\ next.halved = ghr.halved
    BY <2>1 DEF Globals
  <2> QED BY <2>2, <2>3 DEF next
<1>7. CASE same \cup weak # {}
  <2>1. next = [ghr EXCEPT !.entry[index] = new] /\ index \in D
    BY <1>3, <1>5, <1>7
  <2> HIDE DEF next, D
  <2>2. /\ next.entry = [ghr.entry EXCEPT ![index] = new] /\ next.pf_useful = ghr.pf_useful
        /\ next.pf_issued = ghr.pf_issued /\ next.halved = ghr.halved /\ next.failed = ghr.failed
    BY <2>1 DEF Globals
  <2>3. next \in Globals
    BY <1>1, <1>2, <2>1, <2>2 DEF Globals, D
  <2>4. low /\ candidate.conf < 100 => \A i \in D : next.entry[i].confidence < 100
    BY <1>1, <1>2, <2>1, <2>2
  <2> QED BY <2>2, <2>3, <2>4 DEF next, D
<1> QED BY <1>6, <1>7

(* pf_issued counts one more, or both counters are halved. *)
LEMMA IssueCounted ==
  ASSUME NEW ghr \in Globals
  PROVE  LET next == CountIssued(ghr)
         IN  /\ next \in Globals /\ next.entry = ghr.entry /\ next.failed = ghr.failed
             /\ ~next.halved => /\ ~ghr.halved /\ next.pf_useful = ghr.pf_useful
                                /\ next.pf_issued = ghr.pf_issued + 1
<1> DEFINE next == CountIssued(ghr)
<1>1. ghr.pf_issued \in Nat /\ ghr.pf_useful \in Nat
  BY DEF Globals
<1>2. CASE ghr.pf_issued < GLOBAL_COUNTER_MAX
  <2>1. next = [ghr EXCEPT !.pf_issued = @ + 1]
    BY <1>2 DEF CountIssued
  <2> QED BY <1>1, <2>1 DEF Globals
<1>3. CASE ~(ghr.pf_issued < GLOBAL_COUNTER_MAX)
  <2> DEFINE a == (ghr.pf_issued + 1) \div 2
             b == ghr.pf_useful \div 2
  <2>1. next = [ghr EXCEPT !.pf_issued = a, !.pf_useful = b, !.halved = TRUE]
    BY <1>3 DEF CountIssued
  <2>2. a \in Nat /\ b \in Nat
    BY <1>1
  <2> HIDE DEF a, b, next
  <2>3. next \in Globals /\ next.entry = ghr.entry /\ next.failed = ghr.failed /\ next.halved
    BY <2>1, <2>2 DEF Globals
  <2> QED BY <2>3 DEF next
<1> QED BY <1>2, <1>3

(* One candidate of the queue *)
LEMMA CandidateKeeps ==
  ASSUME SppInv, Candidate
  PROVE  SppInv'
<1> DEFINE candidate == walk.queue[walk.pos]
           line == walk.base + candidate.delta
           confident == candidate.conf >= PF_THRESHOLD
           inside == Page(line) = walk.page
           accepted == confident /\ inside /\ ~InFilter(FILTER, line) /\ candidate.conf >= FILL_THRESHOLD
<1>1. /\ walk \in PathWalks /\ walk.at = "candidate" /\ walk.sig \in Signatures /\ walk.base \in Int
      /\ walk.queue \in Seq(PathCandidates) /\ walk.pos \in Nat \ {0} /\ walk.head \in Nat \ {0}
      /\ walk.pos <= Len(walk.queue) /\ walk.more \in BOOLEAN /\ walk.page \in Int
  BY DEF SppInv, WalkInv, PathWalks, Candidate
<1>2. candidate \in PathCandidates /\ walk.pos \in DOMAIN walk.queue
  BY <1>1
<1>3. candidate.conf \in Nat /\ candidate.delta \in PageDeltas /\ candidate.delta \in Int
  BY <1>2, SppConstants DEF PathCandidates
<1>4. line \in Int /\ Offset(line) \in PageOffsets
  <2>1. line \in Int
    BY <1>1, <1>3
  <2> HIDE DEF line
  <2> QED BY <2>1, OffsetInPage
<1>5. /\ walk' = [walk EXCEPT !.pos = @ + 1, !.head = IF confident THEN @ + 1 ELSE @,
                              !.more = @ \/ confident]
      /\ FILTER' = IF accepted THEN Record(FILTER, line) ELSE FILTER
      /\ GHR' = CASE confident /\ ~inside -> UpdateEntry(GHR, walk.sig, candidate, Offset(line))
                  [] accepted -> CountIssued(GHR)
                  [] OTHER -> GHR
      /\ UNCHANGED <<ST, PT, spp_last>>
  BY DEF Candidate
<1>6. ~GHR.halved /\ ~inside => candidate.conf < 100
  <2> SUFFICES ASSUME ~GHR.halved, candidate.conf >= 100 PROVE inside
    BY <1>3
  <2>1. walk.pos = 1 /\ candidate.delta = 0
    BY <1>2 DEF SppInv, WalkInv
  <2>2. Page(walk.base) = walk.page
    BY <1>1, <2>1 DEF SppInv, WalkInv
  <2>3. line = walk.base
    BY <1>1, <2>1
  <2> HIDE DEF line
  <2> QED BY <2>2, <2>3
<1>7. accepted => line \in DOMAIN Quotient /\ Quotient[line] \in FilterSlots /\ Remainder[line] \in SppRemainders
  <2> SUFFICES ASSUME accepted PROVE line \in DOMAIN Quotient /\ Quotient[line] \in FilterSlots
                                  /\ Remainder[line] \in SppRemainders
    OBVIOUS
  <2>1. PICK l \in SppLines : walk.page = Page(l)
    BY <1>1 DEF SppInv, WalkInv
  <2>2. Page(line) = Page(l)
    BY <2>1
  <2> HIDE DEF line
  <2> QED BY <1>4, <2>2, InPage
<1>8. /\ GHR \in Globals /\ FILTER \in [FilterSlots -> SppSlots]
      /\ ~GHR.halved => /\ GHR.pf_useful + Cardinality(Pending(FILTER)) <= GHR.pf_issued
                        /\ ~GHR.failed
                        /\ \A i \in 1 .. MAX_GHR_ENTRY : GHR.entry[i].confidence < 100
      /\ GHR.pf_useful \in Nat /\ GHR.pf_issued \in Nat /\ Cardinality(Pending(FILTER)) \in Nat
  BY PendingFinite DEF SppInv, GlobalInv, FilterInv, Globals
<1> HIDE DEF line, candidate
<1>9. FilterInv' /\ GlobalInv(GHR, FILTER)' /\ (~GHR'.halved => ~GHR.halved)
  <2>1. CASE confident /\ ~inside
    <3>1. GHR' = UpdateEntry(GHR, walk.sig, candidate, Offset(line)) /\ FILTER' = FILTER
      BY <1>5, <2>1
    <3>2. /\ GHR' \in Globals /\ GHR'.pf_useful = GHR.pf_useful /\ GHR'.pf_issued = GHR.pf_issued
          /\ GHR'.halved = GHR.halved
          /\ ~GHR.halved => /\ ~GHR'.failed
                            /\ \A i \in 1 .. MAX_GHR_ENTRY : GHR'.entry[i].confidence < 100
      <4> DEFINE offset == Offset(line)
                 g == UpdateEntry(GHR, walk.sig, candidate, offset)
      <4>1. offset \in PageOffsets /\ GHR \in Globals /\ walk.sig \in Signatures /\ candidate \in PathCandidates
        BY <1>1, <1>2, <1>4, <1>8
      <4> HIDE DEF offset
      <4>2. /\ g \in Globals /\ g.pf_useful = GHR.pf_useful /\ g.pf_issued = GHR.pf_issued
            /\ g.halved = GHR.halved
            /\ (\A i \in 1 .. MAX_GHR_ENTRY : GHR.entry[i].confidence < 100) /\ candidate.conf < 100
               => /\ g.failed = GHR.failed
                  /\ \A i \in 1 .. MAX_GHR_ENTRY : g.entry[i].confidence < 100
        BY <4>1, RegisterUpdated
      <4>3. GHR' = g
        BY <3>1 DEF offset
      <4>4. ~GHR.halved => candidate.conf < 100
        BY <1>6, <2>1
      <4> HIDE DEF g
      <4> QED BY <1>8, <4>2, <4>3, <4>4
    <3> QED BY <1>8, <3>1, <3>2 DEF FilterInv, GlobalInv
  <2>2. CASE accepted
    <3> DEFINE q == Quotient[line]
               slot == [valid |-> TRUE, useful |-> FALSE, remainder_tag |-> Remainder[line]]
    <3>1. FILTER' = [FILTER EXCEPT ![q] = slot]
      BY <1>5, <2>2 DEF Record
    <3>2. GHR' = CountIssued(GHR)
      BY <1>5, <2>2
    <3>3. slot \in SppSlots /\ q \in FilterSlots
      BY <1>7, <2>2 DEF SppSlots
    <3> HIDE DEF slot, q
    <3>4. /\ FILTER' \in [FilterSlots -> SppSlots]
          /\ Cardinality(Pending(FILTER')) <= Cardinality(Pending(FILTER)) + 1
      BY <1>8, <3>1, <3>3, OneMorePending
    <3>5. /\ GHR' \in Globals /\ GHR'.entry = GHR.entry /\ GHR'.failed = GHR.failed
          /\ ~GHR'.halved => /\ ~GHR.halved /\ GHR'.pf_useful = GHR.pf_useful
                             /\ GHR'.pf_issued = GHR.pf_issued + 1
      BY <1>8, <3>2, IssueCounted
    <3>6. Cardinality(Pending(FILTER')) \in Nat
      BY PendingFinite
    <3>7. ~GHR'.halved => GHR'.pf_useful + Cardinality(Pending(FILTER')) <= GHR'.pf_issued
      BY <1>8, <3>4, <3>5, <3>6
    <3> QED BY <1>8, <3>4, <3>5, <3>7 DEF FilterInv, GlobalInv
  <2>3. CASE ~(confident /\ ~inside) /\ ~accepted
    <3>1. GHR' = GHR /\ FILTER' = FILTER
      BY <1>5, <2>3
    <3> QED BY <1>8, <3>1 DEF FilterInv, GlobalInv
  <2> QED BY <2>1, <2>2, <2>3
<1>10. WalkInv'
  <2> HIDE DEF confident
  <2>1. /\ walk'.at = walk.at /\ walk'.page = walk.page /\ walk'.base = walk.base /\ walk'.sig = walk.sig
        /\ walk'.accuracy = walk.accuracy /\ walk'.queue = walk.queue /\ walk'.conf = walk.conf
        /\ walk'.depth = walk.depth /\ walk'.pos = walk.pos + 1
        /\ walk'.head = IF confident THEN walk.head + 1 ELSE walk.head
        /\ walk'.more = (walk.more \/ confident)
    BY <1>1, <1>5 DEF PathWalks
  <2>2. confident \in BOOLEAN
    BY DEF confident
  <2>3. walk' \in PathWalks
    <3> DEFINE pos2 == walk.pos + 1
               head2 == IF confident THEN walk.head + 1 ELSE walk.head
               more2 == walk.more \/ confident
    <3>1. walk' = [walk EXCEPT !.pos = pos2, !.head = head2, !.more = more2]
      BY <1>5
    <3>2. pos2 \in Nat \ {0} /\ head2 \in Nat \ {0}
      BY <1>1
    <3>3. more2 \in BOOLEAN
      BY <1>1, <2>2
    <3> HIDE DEF pos2, head2, more2
    <3> QED BY <1>1, <3>1, <3>2, <3>3 DEF PathWalks
  <2>4. \E l \in SppLines : walk'.page = Page(l)
    BY <1>1, <2>1 DEF SppInv, WalkInv
  <2>5. walk'.more => walk'.head >= 2
    <3>1. walk.more => walk.head >= 2
      BY <1>1 DEF SppInv, WalkInv
    <3> QED BY <1>1, <2>1, <3>1
  <2>6. walk'.pos # 1 /\ walk'.at = "candidate"
    BY <1>1, <2>1
  <2>7. ~GHR'.halved =>
         /\ walk'.accuracy <= 100 /\ walk'.conf + walk'.depth <= 100
         /\ \A i \in DOMAIN walk'.queue : walk'.queue[i].conf >= 100 => i = 1 /\ walk'.queue[i].delta = 0
    BY <1>9, <2>1 DEF SppInv, WalkInv
  <2> QED BY <2>3, <2>4, <2>5, <2>6, <2>7 DEF WalkInv
<1>11. TableInv(ST)' /\ PatternInv'
  BY <1>5 DEF SppInv, TableInv, PatternInv, WellCounted, Occurrences
<1> QED BY <1>9, <1>10, <1>11 DEF SppInv

(* The end of a pass *)
LEMMA FollowKeeps ==
  ASSUME SppInv, Follow
  PROVE  SppInv'
<1> DEFINE delta == PT[SignatureHash[walk.sig]].delta[walk.way]
           next == [walk EXCEPT !.at = "read_pattern"]
<1>1. /\ walk \in PathWalks /\ walk.at = "candidate" /\ walk.sig \in Signatures /\ walk.base \in Int
      /\ walk.way \in 0 .. PT_WAY /\ walk.more \in BOOLEAN
  BY DEF SppInv, WalkInv, PathWalks, Follow
<1>2. /\ walk' = CASE ~walk.more -> NoWalk
                   [] walk.more /\ walk.way = 0 -> next
                   [] OTHER -> [next EXCEPT !.base = @ + delta, !.sig = NextSig(@, delta)]
      /\ UNCHANGED <<ST, PT, FILTER, GHR, spp_last>>
  BY DEF Follow
<1>3. WalkInv'
  <2>1. CASE ~walk.more
    <3>1. walk' = NoWalk
      BY <1>2, <2>1
    <3>2. NoWalk \in PathWalks
      BY SppConstants DEF NoWalk, PathWalks
    <3>3. /\ walk'.at = "return" /\ walk'.accuracy = 0 /\ walk'.conf = 100 /\ walk'.depth = 0
          /\ walk'.queue = <<>>
      BY <3>1 DEF NoWalk
    <3>4. \A i \in DOMAIN walk'.queue : FALSE
      BY <3>3
    <3> QED BY <3>1, <3>2, <3>3, <3>4 DEF WalkInv
  <2>2. CASE walk.more
    <3> DEFINE base2 == IF walk.way = 0 THEN walk.base ELSE walk.base + delta
               sig2 == IF walk.way = 0 THEN walk.sig ELSE NextSig(walk.sig, delta)
    <3>1. walk' = [walk EXCEPT !.at = "read_pattern", !.base = base2, !.sig = sig2]
      <4> HIDE DEF delta
      <4>1. CASE walk.way = 0
        <5>1. walk' = next
          BY <1>2, <2>2, <4>1
        <5> QED BY <1>1, <4>1, <5>1 DEF PathWalks
      <4>2. CASE walk.way # 0
        <5>1. walk' = [next EXCEPT !.base = @ + delta, !.sig = NextSig(@, delta)]
          BY <1>2, <2>2, <4>2
        <5> QED BY <1>1, <4>2, <5>1 DEF PathWalks
      <4> QED BY <4>1, <4>2
    <3>2. walk.way # 0 => delta \in PageDeltas
      <4> SUFFICES ASSUME walk.way # 0 PROVE delta \in PageDeltas
        OBVIOUS
      <4>1. SignatureHash[walk.sig] \in PatternSets
        BY <1>1, SppConstants
      <4>2. PT[SignatureHash[walk.sig]] \in CountedSets
        BY <4>1 DEF SppInv, PatternInv
      <4>3. walk.way \in 1 .. PT_WAY
        BY <1>1, SppConstants
      <4> QED BY <4>2, <4>3 DEF CountedSets
    <3> HIDE DEF delta
    <3>3. base2 \in Int /\ sig2 \in Signatures
      <4>1. walk.way # 0 => delta \in Int
        BY <3>2, SppConstants
      <4>2. walk.way # 0 => NextSig(walk.sig, delta) \in Signatures
        BY <1>1, <3>2, SppConstants
      <4>3. base2 \in Int
        BY <1>1, <4>1
      <4>4. sig2 \in Signatures
        BY <1>1, <4>2
      <4> QED BY <4>3, <4>4
    <3> HIDE DEF base2, sig2
    <3>4. /\ walk'.at = "read_pattern" /\ walk'.page = walk.page /\ walk'.head = walk.head
          /\ walk'.accuracy = walk.accuracy /\ walk'.queue = walk.queue /\ walk'.conf = walk.conf
          /\ walk'.depth = walk.depth
      BY <1>1, <3>1 DEF PathWalks
    <3>5. walk' \in PathWalks
      BY <1>1, <3>1, <3>3 DEF PathWalks
    <3>6. walk'.head >= 2
      BY <1>1, <2>2, <3>4 DEF SppInv, WalkInv
    <3>7. \E l \in SppLines : walk'.page = Page(l)
      BY <1>1, <3>4 DEF SppInv, WalkInv
    <3>8. ~GHR'.halved =>
           /\ walk'.accuracy <= 100 /\ walk'.conf + walk'.depth <= 100
           /\ \A i \in DOMAIN walk'.queue : walk'.queue[i].conf >= 100 => i = 1 /\ walk'.queue[i].delta = 0
      BY <1>2, <3>4 DEF SppInv, WalkInv
    <3> QED BY <3>4, <3>5, <3>6, <3>7, <3>8 DEF WalkInv
  <2> QED BY <1>1, <2>1, <2>2
<1>4. TableInv(ST)' /\ PatternInv' /\ FilterInv' /\ GlobalInv(GHR, FILTER)'
  BY <1>2 DEF SppInv, TableInv, PatternInv, FilterInv, GlobalInv, WellCounted, Occurrences, Pending
<1> QED BY <1>3, <1>4 DEF SppInv

(* SIGNATURE_TABLE::read_and_update_sig *)
LEMMA SignatureRead ==
  ASSUME SppInv, NEW line \in SppLines
  PROVE  LET read == ReadAndUpdateSig(line)
         IN  /\ TableInv(read.table) /\ read.last_sig \in Signatures /\ read.curr_sig \in Signatures
             /\ read.delta \in PageDeltas /\ (read.last_sig # 0 => read.delta # 0)
<1> DEFINE hit == Tagged(line) # {}
           candidates == IF hit THEN Tagged(line) ELSE IF Unused # {} THEN Unused ELSE LeastRecent
           way == Least(candidates)
           delta == IF hit THEN Offset(line) - ST[way].last_offset ELSE 0
           sig == IF ~hit THEN BootstrapSig(Offset(line))
                  ELSE IF delta # 0 THEN NextSig(ST[way].sig, delta) ELSE ST[way].sig
           entry == [valid |-> TRUE, tag |-> PageTag[Page(line)], last_offset |-> Offset(line),
                     sig |-> sig, lru |-> ST[way].lru]
           table == [ST EXCEPT ![way] = entry]
           read == ReadAndUpdateSig(line)
<1>1. /\ ST \in [1 .. ST_WAY -> TableEntries] /\ DOMAIN ST = 1 .. ST_WAY /\ ST_WAY \in Nat
      /\ \A v, w \in 1 .. ST_WAY : v # w => ST[v].lru # ST[w].lru
  BY SppConstants DEF SppInv, TableInv
<1>2. line \in Int /\ Offset(line) \in PageOffsets
  <2>1. line \in Int
    BY SppConstants
  <2> QED BY <2>1, OffsetInPage
<1>3. way \in 1 .. ST_WAY
  <2>1. candidates \in SUBSET (1 .. ST_WAY)
    BY <1>1 DEF Tagged, Unused, LeastRecent
  <2>2. candidates # {}
    <3>1. {ST[w].lru : w \in DOMAIN ST} = 0 .. ST_WAY - 1
      BY Permutation DEF SppInv
    <3>2. ST_WAY - 1 \in 0 .. ST_WAY - 1
      BY SppConstants
    <3>3. LeastRecent # {}
      BY <3>1, <3>2 DEF LeastRecent
    <3> QED BY <3>3
  <2> HIDE DEF candidates
  <2>3. Least(candidates) \in candidates
    BY <1>1, <2>1, <2>2, LeastIn
  <2> QED BY <2>1, <2>3
<1> HIDE DEF way, hit
<1>4. ST[way] \in TableEntries /\ ST[way].sig \in Signatures /\ ST[way].lru \in 0 .. ST_WAY - 1
      /\ ST[way].last_offset \in PageOffsets
  BY <1>1, <1>3 DEF TableEntries
<1>5. delta \in PageDeltas
  <2>1. \A a, b \in PageOffsets : a - b \in PageDeltas
    BY SppConstants DEF PageOffsets, PageDeltas
  <2> QED BY <1>2, <1>4, <2>1, SppConstants
<1> HIDE DEF delta
<1>6. BootstrapSig(Offset(line)) \in Signatures
  <2> DEFINE offset == Offset(line)
             found == {i \in DOMAIN GHR.entry : GHR.entry[i].offset = offset /\ GHR.entry[i].confidence > 0}
             f == [i \in found |-> -GHR.entry[i].confidence]
             best == LowestWith(found, f)
  <2>1. GHR.entry \in [1 .. MAX_GHR_ENTRY -> Registers] /\ MAX_GHR_ENTRY \in Nat
    BY SppConstants DEF SppInv, GlobalInv, Globals
  <2>2. BootstrapSig(offset) = IF found = {} THEN 0 ELSE NextSig(GHR.entry[best].sig, GHR.entry[best].delta)
    BY DEF BootstrapSig
  <2>3. CASE found = {}
    BY <2>2, <2>3, SppConstants
  <2>4. CASE found # {}
    <3>1. found \in SUBSET (1 .. MAX_GHR_ENTRY)
      BY <2>1
    <3>2. \A i \in found : f[i] \in Int
      BY <2>1 DEF Registers
    <3> HIDE DEF found, f
    <3>3. LowestWith(found, f) \in found
      BY <2>1, <2>4, <3>1, <3>2, LowestIn
    <3>4. GHR.entry[best] \in Registers
      BY <2>1, <3>1, <3>3
    <3> HIDE DEF best
    <3>5. GHR.entry[best].sig \in Signatures /\ GHR.entry[best].delta \in PageDeltas
      BY <3>4 DEF Registers
    <3>6. NextSig(GHR.entry[best].sig, GHR.entry[best].delta) \in Signatures
      BY <3>5, SppConstants
    <3> QED BY <2>2, <2>4, <3>6
  <2> QED BY <2>3, <2>4
<1>7. sig \in Signatures
  BY <1>4, <1>5, <1>6, SppConstants
<1> HIDE DEF sig
<1>8. entry \in TableEntries /\ entry.lru = ST[way].lru
  <2>1. PageTag[Page(line)] \in SppTags
    BY DEF SppTags
  <2> QED BY <1>2, <1>4, <1>7, <2>1 DEF TableEntries
<1> HIDE DEF entry
<1>9. TableInv(table)
  <2>1. table \in [1 .. ST_WAY -> TableEntries]
    BY <1>1, <1>3, <1>8
  <2>2. \A w \in 1 .. ST_WAY : table[w].lru = ST[w].lru
    BY <1>1, <1>3, <1>8
  <2> HIDE DEF table
  <2> QED BY <1>1, <2>1, <2>2 DEF TableInv
<1>10. read = [table |-> MadeRecent(table, way),
               last_sig |-> IF delta # 0 THEN ST[way].sig ELSE 0,
               curr_sig |-> IF hit /\ delta = 0 THEN 0 ELSE sig,
               delta |-> delta]
  BY DEF ReadAndUpdateSig, entry, sig, delta, way, hit
<1> HIDE DEF read, table
<1>11. TableInv(MadeRecent(table, way))
  BY <1>3, <1>9, RecencyPermuted
<1>12. read.table = MadeRecent(table, way) /\ read.delta = delta
       /\ read.last_sig = (IF delta # 0 THEN ST[way].sig ELSE 0)
       /\ read.curr_sig = (IF hit /\ delta = 0 THEN 0 ELSE sig)
  BY <1>10
<1>13. read.last_sig \in Signatures /\ read.curr_sig \in Signatures /\ (read.last_sig # 0 => read.delta # 0)
  BY <1>4, <1>7, <1>12, SppConstants
<1> QED BY <1>5, <1>11, <1>12, <1>13 DEF read

(* prefetcher_cache_operate, up to its loop *)
LEMMA SppOperateKeeps ==
  ASSUME SppInv, NEW line \in SppLines, SppOperate(line)
  PROVE  SppInv'
<1> DEFINE read == ReadAndUpdateSig(line)
           used == FirstUse(line) /\ FILTER[Quotient[line]].valid
           accuracy == IF GHR.pf_issued > 0 THEN (100 * GHR.pf_useful) \div GHR.pf_issued ELSE 0
           q == Quotient[line]
<1>1. /\ TableInv(read.table) /\ read.last_sig \in Signatures /\ read.curr_sig \in Signatures
      /\ read.delta \in PageDeltas /\ (read.last_sig # 0 => read.delta # 0)
  BY SignatureRead
<1> HIDE DEF read
<1>2. /\ ST' = read.table
      /\ PT' = UpdatePattern(read.last_sig, read.delta)
      /\ FILTER' = Demanded(line)
      /\ GHR' = [GHR EXCEPT !.pf_useful = IF used THEN @ + 1 ELSE @]
      /\ walk' = [NoWalk EXCEPT
                    !.at = "read_pattern", !.page = Page(line), !.sig = read.curr_sig, !.base = line,
                    !.accuracy = accuracy]
  BY DEF SppOperate, read
<1>3. TableInv(ST')
  BY <1>1, <1>2
<1>4. PatternInv'
  <2>1. PT \in [PatternSets -> CountedSets] /\ \A s \in PatternSets : WellCounted(PT[s])
    BY DEF SppInv, PatternInv
  <2>2. CASE read.last_sig = 0
    <3>1. PT' = PT
      BY <1>2, <2>2 DEF UpdatePattern
    <3> QED BY <2>1, <3>1 DEF PatternInv, WellCounted, Occurrences
  <2>3. CASE read.last_sig # 0
    <3> DEFINE s == SignatureHash[read.last_sig]
               set == UpdateSet(PT[s], read.delta)
    <3>1. s \in PatternSets
      BY <1>1, SppConstants
    <3>2. WellCounted(set) /\ set \in CountedSets
      <4>1. WellCounted(PT[s])
        BY <2>1, <3>1
      <4>2. WellCounted(set)
        BY <1>1, <2>3, <4>1, SetUpdated
      <4> QED BY <4>2 DEF WellCounted
    <3>3. PT' = [PT EXCEPT ![s] = set]
      BY <1>2, <2>3, <3>1, <2>1 DEF UpdatePattern
    <3> HIDE DEF s, set
    <3>4. PT' \in [PatternSets -> CountedSets] /\ \A r \in PatternSets : WellCounted(PT'[r])
      BY <2>1, <3>1, <3>2, <3>3
    <3> QED BY <3>4 DEF PatternInv, WellCounted, Occurrences
  <2> QED BY <2>2, <2>3
<1>5. /\ GHR \in Globals /\ FILTER \in [FilterSlots -> SppSlots]
      /\ GHR.pf_useful \in Nat /\ GHR.pf_issued \in Nat /\ Cardinality(Pending(FILTER)) \in Nat
      /\ ~GHR.halved => /\ GHR.pf_useful + Cardinality(Pending(FILTER)) <= GHR.pf_issued
                        /\ ~GHR.failed
                        /\ \A i \in 1 .. MAX_GHR_ENTRY : GHR.entry[i].confidence < 100
  BY PendingFinite DEF SppInv, GlobalInv, FilterInv, Globals
<1>6. line \in Int /\ q \in FilterSlots /\ Page(line) \in Int
  <2>1. line \in Int
    BY SppConstants
  <2>2. Quotient[line] \in FilterSlots
    BY <2>1, InPage
  <2> QED BY <2>1, <2>2, OffsetInPage
<1>7. FilterInv' /\ GlobalInv(GHR, FILTER)' /\ GHR'.halved = GHR.halved
  <2>1. CASE FirstUse(line)
    <3> DEFINE slot == [FILTER[q] EXCEPT !.useful = TRUE]
    <3>1. FILTER' = [FILTER EXCEPT ![q] = slot]
      <4>1. FILTER' = [FILTER EXCEPT ![q].useful = TRUE]
        BY <1>2, <2>1 DEF Demanded
      <4> QED BY <4>1
    <3>2. FILTER[q] \in SppSlots /\ slot \in SppSlots /\ slot.useful /\ ~FILTER[q].useful
      BY <1>5, <1>6, <2>1 DEF SppSlots, FirstUse
    <3> HIDE DEF slot, q
    <3>3. /\ FILTER' \in [FilterSlots -> SppSlots]
          /\ Cardinality(Pending(FILTER')) = IF FILTER[q].valid /\ ~FILTER[q].useful
                                             THEN Cardinality(Pending(FILTER)) - 1
                                             ELSE Cardinality(Pending(FILTER))
      BY <1>5, <1>6, <3>1, <3>2, OneLessPending
    <3>4. used = FILTER[q].valid
      BY <2>1, <3>2 DEF q, SppSlots
    <3> HIDE DEF used
    <3>5. /\ GHR' \in Globals /\ GHR'.entry = GHR.entry /\ GHR'.failed = GHR.failed
          /\ GHR'.halved = GHR.halved /\ GHR'.pf_issued = GHR.pf_issued
          /\ GHR'.pf_useful = IF used THEN GHR.pf_useful + 1 ELSE GHR.pf_useful
      BY <1>2, <1>5 DEF Globals
    <3>6. ~GHR'.halved => GHR'.pf_useful + Cardinality(Pending(FILTER')) <= GHR'.pf_issued
      <4>1. used => Cardinality(Pending(FILTER')) = Cardinality(Pending(FILTER)) - 1
        BY <3>2, <3>3, <3>4
      <4>2. ~used => Cardinality(Pending(FILTER')) = Cardinality(Pending(FILTER))
        BY <3>2, <3>3, <3>4
      <4>3. used \in BOOLEAN
        BY <3>2, <3>4 DEF SppSlots
      <4> QED BY <1>5, <3>5, <4>1, <4>2, <4>3
    <3> QED BY <1>5, <3>3, <3>5, <3>6 DEF FilterInv, GlobalInv
  <2>2. CASE ~FirstUse(line)
    <3>1. FILTER' = FILTER /\ ~used
      BY <1>2, <2>2 DEF Demanded
    <3>2. GHR' = GHR
      BY <1>2, <1>5, <3>1 DEF Globals
    <3> QED BY <1>5, <3>1, <3>2 DEF FilterInv, GlobalInv
  <2> QED BY <2>1, <2>2
<1>8. accuracy \in Nat /\ (~GHR.halved => accuracy <= 100)
  <2>1. CASE GHR.pf_issued > 0
    <3> DEFINE a == GHR.pf_useful
               b == GHR.pf_issued
               x == 100 * a
    <3>1. accuracy = x \div b /\ x \in Nat /\ b \in Nat \ {0}
      BY <1>5, <2>1
    <3>2. ~GHR.halved => a <= b
      BY <1>5
    <3>3. ~GHR.halved => x < 101 * b
      BY <1>5, <3>1, <3>2
    <3> HIDE DEF x, b, accuracy
    <3>4. accuracy \in Nat
      BY <3>1
    <3>5. ~GHR.halved => accuracy < 101
      BY <3>1, <3>3, QuotientBelow
    <3> QED BY <3>4, <3>5
  <2>2. CASE ~(GHR.pf_issued > 0)
    BY <2>2
  <2> QED BY <2>1, <2>2
<1> HIDE DEF accuracy
<1>9. WalkInv'
  <2>1. walk' = [at |-> "read_pattern", page |-> Page(line), accuracy |-> accuracy, sig |-> read.curr_sig,
                 base |-> line, queue |-> <<>>, head |-> 1, pos |-> 1, way |-> 0, conf |-> 100, depth |-> 0,
                 more |-> FALSE]
    BY <1>2 DEF NoWalk
  <2>2. walk' \in PathWalks
    BY <1>1, <1>6, <1>8, <2>1, SppConstants DEF PathWalks
  <2>3. /\ walk'.at = "read_pattern" /\ walk'.page = Page(line) /\ walk'.base = line /\ walk'.queue = <<>>
        /\ walk'.accuracy = accuracy /\ walk'.conf = 100 /\ walk'.depth = 0
    BY <2>1
  <2>4. \A i \in DOMAIN walk'.queue : FALSE
    BY <2>3
  <2> QED BY <1>7, <1>8, <2>2, <2>3, <2>4 DEF WalkInv
<1> QED BY <1>3, <1>4, <1>7, <1>9 DEF SppInv

(* prefetcher_cache_fill *)
LEMMA SppEvictKeeps ==
  ASSUME SppInv, NEW line \in SppEvicted, SppEvict(line)
  PROVE  SppInv'
<1> DEFINE q == Quotient[line]
           slot == FILTER[q]
           new == [valid |-> FALSE, useful |-> FALSE, remainder_tag |-> 0]
           taken == slot.valid /\ ~slot.useful /\ GHR.pf_useful > 0
<1>1. /\ FILTER' = [FILTER EXCEPT ![q] = new]
      /\ GHR' = [GHR EXCEPT !.pf_useful = IF taken THEN @ - 1 ELSE @]
      /\ UNCHANGED <<ST, PT, walk, spp_last>>
  BY DEF SppEvict
<1>2. /\ GHR \in Globals /\ FILTER \in [FilterSlots -> SppSlots]
      /\ GHR.pf_useful \in Nat /\ GHR.pf_issued \in Nat /\ Cardinality(Pending(FILTER)) \in Nat
      /\ ~GHR.halved => /\ GHR.pf_useful + Cardinality(Pending(FILTER)) <= GHR.pf_issued
                        /\ ~GHR.failed
                        /\ \A i \in 1 .. MAX_GHR_ENTRY : GHR.entry[i].confidence < 100
  BY PendingFinite DEF SppInv, GlobalInv, FilterInv, Globals
<1>3. q \in FilterSlots /\ new \in SppSlots
  BY SppConstants DEF SppSlots, SppRemainders
<1>4. /\ FILTER' \in [FilterSlots -> SppSlots]
      /\ Cardinality(Pending(FILTER')) = IF FILTER[q].valid /\ ~FILTER[q].useful
                                         THEN Cardinality(Pending(FILTER)) - 1
                                         ELSE Cardinality(Pending(FILTER))
  <2>1. new.useful \/ ~new.valid
    OBVIOUS
  <2> HIDE DEF q, new
  <2> QED BY <1>1, <1>2, <1>3, <2>1, OneLessPending
<1> HIDE DEF q, new, taken
<1>5. /\ GHR' \in Globals /\ GHR'.entry = GHR.entry /\ GHR'.failed = GHR.failed
      /\ GHR'.halved = GHR.halved /\ GHR'.pf_issued = GHR.pf_issued
      /\ GHR'.pf_useful <= GHR.pf_useful
  <2> DEFINE u == IF taken THEN GHR.pf_useful - 1 ELSE GHR.pf_useful
  <2>1. GHR' = [GHR EXCEPT !.pf_useful = u]
    BY <1>1
  <2>2. u \in Nat /\ u <= GHR.pf_useful
    BY <1>2 DEF taken
  <2> HIDE DEF u
  <2> QED BY <1>2, <2>1, <2>2 DEF Globals
<1>6. Cardinality(Pending(FILTER')) <= Cardinality(Pending(FILTER)) /\ Cardinality(Pending(FILTER')) \in Nat
  BY <1>2, <1>4, PendingFinite
<1>7. ~GHR'.halved => GHR'.pf_useful + Cardinality(Pending(FILTER')) <= GHR'.pf_issued
  <2>1. GHR'.pf_useful \in Nat
    BY <1>5 DEF Globals
  <2> QED BY <1>2, <1>5, <1>6, <2>1
<1>8. FilterInv' /\ GlobalInv(GHR, FILTER)'
  BY <1>2, <1>4, <1>5, <1>7 DEF FilterInv, GlobalInv
<1>9. TableInv(ST)' /\ PatternInv'
  BY <1>1 DEF SppInv, TableInv, PatternInv, WellCounted, Occurrences
<1>10. WalkInv'
  BY <1>1, <1>5 DEF SppInv, WalkInv
<1> QED BY <1>8, <1>9, <1>10 DEF SppInv

LEMMA SppInitially ==
  ASSUME SppInit
  PROVE  SppInv
<1>1. TableInv(ST)
  <2>1. ST = [w \in 1 .. ST_WAY |-> [valid |-> FALSE, tag |-> 0, last_offset |-> 0, sig |-> 0, lru |-> w - 1]]
    BY DEF SppInit
  <2>2. \A w \in 1 .. ST_WAY : w - 1 \in 0 .. ST_WAY - 1
    BY SppConstants
  <2>3. \A w \in 1 .. ST_WAY : ST[w] \in TableEntries /\ ST[w].lru = w - 1
    BY <2>1, <2>2, SppConstants DEF TableEntries, SppTags
  <2>4. \A v, w \in 1 .. ST_WAY : v # w => ST[v].lru # ST[w].lru
    BY <2>3, SppConstants
  <2> QED BY <2>1, <2>3, <2>4 DEF TableInv
<1>2. PatternInv
  <2> DEFINE set == [delta |-> [w \in 1 .. PT_WAY |-> 0], c_delta |-> [w \in 1 .. PT_WAY |-> 0], c_sig |-> 0]
  <2>1. PT = [s \in PatternSets |-> set]
    BY DEF SppInit
  <2>2. set \in CountedSets
    BY SppConstants DEF CountedSets
  <2>3. WellCounted(set)
    BY <2>2 DEF WellCounted
  <2> HIDE DEF set
  <2> QED BY <2>1, <2>2, <2>3 DEF PatternInv
<1>3. FilterInv /\ Pending(FILTER) = {}
  BY DEF SppInit, FilterInv, SppSlots, SppRemainders, Pending
<1>4. GlobalInv(GHR, FILTER)
  <2>1. Cardinality(Pending(FILTER)) = 0
    BY <1>3, FS_EmptySet
  <2>2. /\ GHR.entry = [i \in 1 .. MAX_GHR_ENTRY |->
                          [valid |-> FALSE, sig |-> 0, confidence |-> 0, offset |-> 0, delta |-> 0]]
        /\ GHR.pf_useful = 0 /\ GHR.pf_issued = 0 /\ GHR.halved = FALSE /\ GHR.failed = FALSE
        /\ GHR = [entry |-> GHR.entry, pf_useful |-> 0, pf_issued |-> 0, halved |-> FALSE, failed |-> FALSE]
    BY DEF SppInit
  <2>3. GHR.entry \in [1 .. MAX_GHR_ENTRY -> Registers]
        /\ \A i \in 1 .. MAX_GHR_ENTRY : GHR.entry[i].confidence < 100
    BY <2>2, SppConstants DEF Registers
  <2>4. GHR \in Globals
    <3> DEFINE e == GHR.entry
    <3>1. GHR = [entry |-> e, pf_useful |-> 0, pf_issued |-> 0, halved |-> FALSE, failed |-> FALSE]
      BY <2>2
    <3>2. e \in [1 .. MAX_GHR_ENTRY -> Registers]
      BY <2>3
    <3> HIDE DEF e
    <3> QED BY <3>1, <3>2 DEF Globals
  <2> QED BY <2>1, <2>2, <2>3, <2>4 DEF GlobalInv
<1>5. WalkInv
  <2>1. walk = NoWalk
    BY DEF SppInit
  <2>2. NoWalk \in PathWalks
    BY SppConstants DEF NoWalk, PathWalks
  <2>3. walk.at = "return" /\ walk.accuracy = 0 /\ walk.conf = 100 /\ walk.depth = 0 /\ walk.queue = <<>>
    BY <2>1 DEF NoWalk
  <2>4. \A i \in DOMAIN walk.queue : FALSE
    BY <2>3
  <2> QED BY <2>1, <2>2, <2>3, <2>4 DEF WalkInv
<1> QED BY <1>1, <1>2, <1>3, <1>4, <1>5 DEF SppInv

LEMMA SppStuttering ==
  ASSUME SppInv, UNCHANGED sppVars
  PROVE  SppInv'
BY DEF SppInv, TableInv, PatternInv, FilterInv, GlobalInv, WalkInv, WellCounted, Occurrences, Pending, sppVars

LEMMA SppAssertionsFollow ==
  ASSUME SppInv
  PROVE  SppAssertionsHold
<1>1. {ST[w].lru : w \in DOMAIN ST} = 0 .. ST_WAY - 1
  BY Permutation DEF SppInv
<1>2. \A s \in DOMAIN PT : /\ PT[s].c_sig \in 0 .. C_SIG_MAX
                           /\ PT[s].c_sig = 0 \/ Cardinality(Occurrences(PT[s])) < PT[s].c_sig
  BY DEF SppInv, PatternInv, WellCounted, CountedSets
<1>3. ~GHR.halved => /\ GHR.pf_useful <= GHR.pf_issued
                     /\ walk.conf + walk.depth <= 100
                     /\ ~GHR.failed
  <2>1. GHR.pf_useful \in Nat /\ GHR.pf_issued \in Nat /\ Cardinality(Pending(FILTER)) \in Nat
    BY PendingFinite DEF SppInv, GlobalInv, Globals
  <2> QED BY <2>1 DEF SppInv, GlobalInv, WalkInv
<1> QED BY <1>1, <1>2, <1>3 DEF SppAssertionsHold

(* For any pages, hashes and table sizes: no assertion of spp_dev fires in its *)
(* tables, and none in its GHR before its counters are halved.                  *)
THEOREM SppNeverAsserts == SppSpec => []SppAssertionsHold
<1>1. SppInit => SppInv
  BY SppInitially
<1>2. SppInv /\ [SppNext]_sppVars => SppInv'
  <2> SUFFICES ASSUME SppInv, [SppNext]_sppVars PROVE SppInv'
    OBVIOUS
  <2>1. ASSUME NEW line \in SppLines, SppOperate(line) PROVE SppInv'
    BY <2>1, SppOperateKeeps
  <2>2. ASSUME NEW line \in SppEvicted, SppEvict(line) PROVE SppInv'
    BY <2>2, SppEvictKeeps
  <2>3. ASSUME ReadPattern PROVE SppInv'
    BY <2>3, ReadPatternKeeps
  <2>4. ASSUME Candidate PROVE SppInv'
    BY <2>4, CandidateKeeps
  <2>5. ASSUME Follow PROVE SppInv'
    BY <2>5, FollowKeeps
  <2>6. ASSUME UNCHANGED sppVars PROVE SppInv'
    BY <2>6, SppStuttering
  <2> QED BY <2>1, <2>2, <2>3, <2>4, <2>5, <2>6 DEF SppNext
<1>3. SppInv => SppAssertionsHold
  BY SppAssertionsFollow
<1> QED BY <1>1, <1>2, <1>3, PTL DEF SppSpec
-------------------------------------------------------------------------------
(* next_line, ip_stride, va_ampm_lite *)

(* What any user of lru_table keeps in it: every element in the set of its tag,  *)
(* and no tag twice.                                                             *)
Entries(D) == [last_used : Nat, data : D]
Rows(ways, D) == [1 .. ways -> Entries(D)]
TableRows(sets, ways, D) == [0 .. sets - 1 -> Rows(ways, D)]
Tables(sets, ways, D) == [access_count : Nat, block : TableRows(sets, ways, D)]
Keeps(table, s, w, d) ==
  /\ s \in DOMAIN table.block /\ w \in DOMAIN table.block[s]
  /\ table.block[s][w].last_used > 0 /\ table.block[s][w].data = d
InTable(table, d) == \E s, w : Keeps(table, s, w, d)
Sorted(table, sets) ==
  /\ \A s, w, d : Keeps(table, s, w, d) => d.index = d.tag /\ d.tag \in Nat /\ s = d.tag % sets
  /\ \A s, v, w, d, e : Keeps(table, s, v, d) /\ Keeps(table, s, w, e) /\ d.tag = e.tag => v = w

LEMMA SetInTable ==
  ASSUME NEW sets \in Nat \ {0}, NEW ways \in Nat, NEW D, NEW table \in Tables(sets, ways, D),
         NEW elem, elem.index \in Nat
  PROVE  /\ SetOf(table, elem) = elem.index % sets
         /\ SetOf(table, elem) \in 0 .. sets - 1
         /\ DOMAIN table.block = 0 .. sets - 1
         /\ WaysOf(table, elem) \in Rows(ways, D) /\ DOMAIN WaysOf(table, elem) = 1 .. ways
<1>1. DOMAIN table.block = 0 .. sets - 1
  BY DEF Tables, TableRows
<1>2. Cardinality(0 .. sets - 1) = sets
  <2>1. 0 \in Int /\ sets - 1 \in Int /\ 0 <= (sets - 1) + 1 /\ (sets - 1) - 0 + 1 = sets
    OBVIOUS
  <2> QED BY <2>1, IntervalSize
<1>3. elem.index % sets \in 0 .. sets - 1
  OBVIOUS
<1>4. SetOf(table, elem) = elem.index % sets
  BY <1>1, <1>2 DEF SetOf
<1>5. WaysOf(table, elem) \in Rows(ways, D)
  BY <1>3, <1>4 DEF WaysOf, Tables, TableRows
<1> QED BY <1>1, <1>3, <1>4, <1>5 DEF Rows, Entries

(* A hit finds the one element of the table with that tag. *)
LEMMA Found ==
  ASSUME NEW sets \in Nat \ {0}, NEW ways \in Nat, NEW D, NEW table \in Tables(sets, ways, D),
         Sorted(table, sets), NEW elem, elem.index = elem.tag, elem.tag \in Nat
  PROVE  /\ Hits(table, elem) => /\ Keeps(table, SetOf(table, elem), WayOf(table, elem), DataOf(table, elem))
                                 /\ DataOf(table, elem).tag = elem.tag
         /\ \A d : InTable(table, d) /\ d.tag = elem.tag => Hits(table, elem) /\ DataOf(table, elem) = d
<1> DEFINE s == SetOf(table, elem)
<1>1. s = elem.tag % sets /\ s \in DOMAIN table.block /\ WaysOf(table, elem) = table.block[s]
  BY SetInTable DEF WaysOf
<1>2. ASSUME Hits(table, elem)
      PROVE  Keeps(table, s, WayOf(table, elem), DataOf(table, elem)) /\ DataOf(table, elem).tag = elem.tag
  <2>1. WayOf(table, elem) \in Matching(WaysOf(table, elem), elem)
    BY <1>2 DEF Hits, WayOf
  <2> QED BY <1>1, <2>1 DEF Matching, Keeps, DataOf
<1>3. ASSUME NEW d, InTable(table, d), d.tag = elem.tag
      PROVE  Hits(table, elem) /\ DataOf(table, elem) = d
  <2>1. PICK t, w : Keeps(table, t, w, d)
    BY <1>3 DEF InTable
  <2>2. t = s
    BY <1>1, <1>3, <2>1 DEF Sorted
  <2>3. w \in Matching(WaysOf(table, elem), elem)
    BY <1>1, <1>3, <2>1, <2>2 DEF Keeps, Matching
  <2>4. Hits(table, elem)
    BY <2>3 DEF Hits
  <2>5. Keeps(table, s, WayOf(table, elem), DataOf(table, elem)) /\ DataOf(table, elem).tag = d.tag
    BY <1>2, <1>3, <2>4
  <2>6. WayOf(table, elem) = w
    BY <2>1, <2>2, <2>5 DEF Sorted
  <2> QED BY <2>1, <2>2, <2>4, <2>5, <2>6 DEF Keeps
<1> QED BY <1>2, <1>3

(* One way of one set changes. *)
WithWay(block, s, way, entry) == [block EXCEPT ![s][way] = entry]

LEMMA WayChanged ==
  ASSUME NEW sets \in Nat \ {0}, NEW ways \in Nat, NEW D, NEW block \in TableRows(sets, ways, D),
         NEW s \in 0 .. sets - 1, NEW way, NEW entry \in Entries(D)
  PROVE  /\ WithWay(block, s, way, entry) \in TableRows(sets, ways, D)
         /\ \A t \in 0 .. sets - 1, w \in 1 .. ways :
              WithWay(block, s, way, entry)[t][w] = IF t = s /\ w = way THEN entry ELSE block[t][w]
<1> DEFINE new == WithWay(block, s, way, entry)
           row == [block[s] EXCEPT ![way] = entry]
<1>1. block[s] \in [1 .. ways -> Entries(D)]
  BY DEF TableRows, Rows
<1>2. row \in [1 .. ways -> Entries(D)]
  BY <1>1
<1>3. \A w \in 1 .. ways : row[w] = IF w = way THEN entry ELSE block[s][w]
  BY <1>1
<1>4. new = [block EXCEPT ![s] = row]
  BY DEF WithWay
<1>5. row \in Rows(ways, D)
  BY <1>2 DEF Rows, Entries
<1> HIDE DEF row, new
<1>6. new \in TableRows(sets, ways, D)
  BY <1>4, <1>5 DEF TableRows
<1>7. \A t \in 0 .. sets - 1 : new[t] = IF t = s THEN row ELSE block[t]
  BY <1>4 DEF TableRows
<1> QED BY <1>3, <1>6, <1>7 DEF new

LEMMA KeepsIn ==
  ASSUME NEW sets \in Nat \ {0}, NEW ways \in Nat, NEW D, NEW table \in Tables(sets, ways, D),
         NEW s, NEW w, NEW d
  PROVE  Keeps(table, s, w, d) <=> /\ s \in 0 .. sets - 1 /\ w \in 1 .. ways
                                   /\ table.block[s][w].last_used > 0 /\ table.block[s][w].data = d
<1>1. table.block \in TableRows(sets, ways, D)
  BY DEF Tables, TableRows
<1>2. \A t \in 0 .. sets - 1 : table.block[t] \in [1 .. ways -> Entries(D)]
  BY <1>1 DEF TableRows, Rows
<1> QED BY <1>1, <1>2 DEF Keeps, TableRows

(* Using a way for an element: the way of its tag, or any if there is none. *)
LEMMA TableUsed ==
  ASSUME NEW sets \in Nat \ {0}, NEW ways \in Nat, NEW D, NEW table \in Tables(sets, ways, D),
         Sorted(table, sets), NEW elem \in D, elem.index = elem.tag, elem.tag \in Nat, NEW way,
         Hits(table, elem) => way = WayOf(table, elem)
  PROVE  LET used == Used(table, elem, way, elem)
         IN  /\ used \in Tables(sets, ways, D) /\ Sorted(used, sets)
             /\ \A d : InTable(used, d) => d = elem \/ (InTable(table, d) /\ d.tag # elem.tag)
<1> DEFINE s == SetOf(table, elem)
           used == Used(table, elem, way, elem)
           entry == [last_used |-> table.access_count + 1, data |-> elem]
<1>1. s = elem.tag % sets /\ s \in 0 .. sets - 1 /\ DOMAIN table.block = 0 .. sets - 1
  BY SetInTable
<1>2. table.access_count \in Nat /\ table.block \in TableRows(sets, ways, D)
  BY DEF Tables, TableRows
<1>3. used = [access_count |-> table.access_count + 1, block |-> [table.block EXCEPT ![s][way] = entry]]
  BY DEF Used
<1>4. entry \in Entries(D)
  BY <1>2 DEF Entries
<1>5. /\ used.block \in TableRows(sets, ways, D)
      /\ \A t \in 0 .. sets - 1, w \in 1 .. ways :
           used.block[t][w] = IF t = s /\ w = way THEN entry ELSE table.block[t][w]
  <2> HIDE DEF s, entry
  <2>1. used.block = WithWay(table.block, s, way, entry)
    BY <1>3 DEF WithWay
  <2> HIDE DEF used
  <2>2. /\ WithWay(table.block, s, way, entry) \in TableRows(sets, ways, D)
        /\ \A t \in 0 .. sets - 1, w \in 1 .. ways :
             WithWay(table.block, s, way, entry)[t][w] =
               IF t = s /\ w = way THEN entry ELSE table.block[t][w]
    <3>1. s \in 0 .. sets - 1 /\ table.block \in TableRows(sets, ways, D)
          /\ entry \in Entries(D)
      BY <1>1, <1>2, <1>4
    <3> QED BY ONLY <3>1, sets \in Nat \ {0}, ways \in Nat, WayChanged
  <2> QED BY <2>1, <2>2
<1>7. used \in Tables(sets, ways, D)
  BY <1>2, <1>3, <1>5 DEF Tables, TableRows
<1>8. \A t, w, d : Keeps(used, t, w, d) =>
        IF t = s /\ w = way THEN d = elem ELSE Keeps(table, t, w, d)
  <2> SUFFICES ASSUME NEW t, NEW w, NEW d, Keeps(used, t, w, d)
               PROVE  IF t = s /\ w = way THEN d = elem ELSE Keeps(table, t, w, d)
    OBVIOUS
  <2> HIDE DEF used, s
  <2>1. /\ t \in 0 .. sets - 1 /\ w \in 1 .. ways
        /\ used.block[t][w].last_used > 0 /\ used.block[t][w].data = d
    <3>1. used \in Tables(sets, ways, D)
      BY <1>7
    <3>2. Keeps(used, t, w, d) <=> /\ t \in 0 .. sets - 1 /\ w \in 1 .. ways
                                   /\ used.block[t][w].last_used > 0 /\ used.block[t][w].data = d
      BY ONLY <3>1, KeepsIn, sets \in Nat \ {0}, ways \in Nat
    <3> QED BY <3>2
  <2>2. CASE t = s /\ w = way
    BY <1>5, <2>1, <2>2
  <2>3. CASE ~(t = s /\ w = way)
    <3>1. used.block[t][w] = table.block[t][w]
      BY <1>5, <2>1, <2>3
    <3>2. Keeps(table, t, w, d)
      BY <2>1, <3>1, KeepsIn
    <3> QED BY <2>3, <3>2
  <2> QED BY <2>2, <2>3
<1>9. \A t, w, d : Keeps(table, t, w, d) /\ d.tag = elem.tag => t = s /\ w = way
  <2> SUFFICES ASSUME NEW t, NEW w, NEW d, Keeps(table, t, w, d), d.tag = elem.tag
               PROVE  t = s /\ w = way
    OBVIOUS
  <2>1. InTable(table, d) /\ t = s
    BY <1>1 DEF InTable, Sorted
  <2>2. /\ Hits(table, elem)
        /\ Keeps(table, s, WayOf(table, elem), DataOf(table, elem)) /\ DataOf(table, elem).tag = elem.tag
    BY <2>1, Found
  <2> QED BY <2>1, <2>2 DEF Sorted
<1>10. Sorted(used, sets)
  <2>1. \A t, w, d : Keeps(used, t, w, d) => d.index = d.tag /\ d.tag \in Nat /\ t = d.tag % sets
    BY <1>1, <1>8 DEF Sorted
  <2>2. \A t, v, w, d, e : Keeps(used, t, v, d) /\ Keeps(used, t, w, e) /\ d.tag = e.tag => v = w
    BY <1>8, <1>9 DEF Sorted
  <2> QED BY <2>1, <2>2 DEF Sorted
<1>11. \A d : InTable(used, d) => d = elem \/ (InTable(table, d) /\ d.tag # elem.tag)
  BY <1>8, <1>9 DEF InTable
<1> QED BY <1>7, <1>10, <1>11

LEMMA TableFilled ==
  ASSUME NEW sets \in Nat \ {0}, NEW ways \in Nat, NEW D, NEW table \in Tables(sets, ways, D),
         Sorted(table, sets), NEW elem \in D, elem.index = elem.tag, elem.tag \in Nat
  PROVE  /\ Fill(table, elem) \in Tables(sets, ways, D) /\ Sorted(Fill(table, elem), sets)
         /\ \A d : InTable(Fill(table, elem), d) => d = elem \/ (InTable(table, d) /\ d.tag # elem.tag)
<1>1. CASE Hits(table, elem)
  BY <1>1, TableUsed DEF Fill
<1>2. CASE ~Hits(table, elem)
  BY <1>2, TableUsed DEF Fill
<1> QED BY <1>1, <1>2

(* A look changes the order of use only. *)
LEMMA TableLooked ==
  ASSUME NEW sets \in Nat \ {0}, NEW ways \in Nat, NEW D, NEW table \in Tables(sets, ways, D),
         Sorted(table, sets), NEW elem, elem.index = elem.tag, elem.tag \in Nat
  PROVE  /\ CheckHit(table, elem) \in Tables(sets, ways, D) /\ Sorted(CheckHit(table, elem), sets)
         /\ \A d : InTable(CheckHit(table, elem), d) <=> InTable(table, d)
<1>1. CASE ~Hits(table, elem)
  BY <1>1 DEF CheckHit
<1>2. CASE Hits(table, elem)
  <2> DEFINE s == SetOf(table, elem)
             way == WayOf(table, elem)
             entry == [last_used |-> table.access_count + 1, data |-> DataOf(table, elem)]
  <2>1. Keeps(table, s, way, DataOf(table, elem))
    BY <1>2, Found
  <2>2. table.access_count \in Nat /\ table.block \in TableRows(sets, ways, D)
    BY DEF Tables, TableRows
  <2>3. /\ s \in 0 .. sets - 1 /\ way \in 1 .. ways
        /\ table.block[s][way].last_used > 0 /\ table.block[s][way].data = DataOf(table, elem)
    BY <2>1, KeepsIn
  <2>4. CheckHit(table, elem) = [access_count |-> table.access_count + 1,
                                 block |-> [table.block EXCEPT ![s][way] = entry]]
    BY <1>2 DEF CheckHit, Used
  <2>5. entry \in Entries(D)
    <3>1. table.block[s] \in Rows(ways, D)
      BY <2>2, <2>3 DEF TableRows
    <3>2. table.block[s][way] \in Entries(D)
      BY <2>3, <3>1 DEF Rows, Entries
    <3> QED BY <2>2, <2>3, <3>2 DEF Entries
  <2> DEFINE looked == CheckHit(table, elem)
  <2>6. /\ looked.block \in TableRows(sets, ways, D)
        /\ \A t \in 0 .. sets - 1, w \in 1 .. ways :
             looked.block[t][w] = IF t = s /\ w = way THEN entry ELSE table.block[t][w]
    <3> HIDE DEF s, entry
    <3>1. looked.block = WithWay(table.block, s, way, entry)
      BY <2>4 DEF WithWay
    <3> HIDE DEF looked
    <3>2. /\ WithWay(table.block, s, way, entry) \in TableRows(sets, ways, D)
          /\ \A t \in 0 .. sets - 1, w \in 1 .. ways :
               WithWay(table.block, s, way, entry)[t][w] =
                 IF t = s /\ w = way THEN entry ELSE table.block[t][w]
      <4>1. s \in 0 .. sets - 1 /\ table.block \in TableRows(sets, ways, D)
            /\ entry \in Entries(D)
        BY <2>2, <2>3, <2>5
      <4> QED BY ONLY <4>1, sets \in Nat \ {0}, ways \in Nat, WayChanged
    <3> QED BY <3>1, <3>2
  <2>7. looked \in Tables(sets, ways, D)
    BY <2>2, <2>4, <2>6 DEF Tables, TableRows
  <2>8. \A t, w, d : Keeps(looked, t, w, d) <=> Keeps(table, t, w, d)
    <3> SUFFICES ASSUME NEW t, NEW w, NEW d
                 PROVE  Keeps(looked, t, w, d) <=> Keeps(table, t, w, d)
      OBVIOUS
    <3>1. /\ Keeps(looked, t, w, d) <=> /\ t \in 0 .. sets - 1 /\ w \in 1 .. ways
                                       /\ looked.block[t][w].last_used > 0 /\ looked.block[t][w].data = d
          /\ Keeps(table, t, w, d) <=> /\ t \in 0 .. sets - 1 /\ w \in 1 .. ways
                                       /\ table.block[t][w].last_used > 0 /\ table.block[t][w].data = d
      <4> HIDE DEF looked
      <4> QED BY <2>7, KeepsIn
    <3>2. entry.last_used > 0 /\ entry.data = DataOf(table, elem)
      BY <2>2
    <3> HIDE DEF looked, s, way, entry
    <3>3. CASE t = s /\ w = way
      BY <2>3, <2>6, <3>1, <3>2, <3>3
    <3>4. CASE ~(t = s /\ w = way)
      BY <2>6, <3>1, <3>4
    <3> QED BY <3>3, <3>4
  <2> QED BY <2>7, <2>8 DEF Sorted, InTable
<1> QED BY <1>1, <1>2

LEMMA TableNew ==
  ASSUME NEW sets \in Nat \ {0}, NEW ways \in Nat, NEW D, [index |-> 0, tag |-> 0] \in D
  PROVE  /\ NewTable(sets, ways) \in Tables(sets, ways, D) /\ Sorted(NewTable(sets, ways), sets)
         /\ \A d : ~InTable(NewTable(sets, ways), d)
<1>1. NewTable(sets, ways) \in Tables(sets, ways, D)
  BY DEF NewTable, Tables, TableRows, Rows, Entries
<1>2. \A s, w, d : ~Keeps(NewTable(sets, ways), s, w, d)
  BY DEF NewTable, Keeps
<1> QED BY <1>1, <1>2 DEF Sorted, InTable

LEMMA TypedIn ==
  ASSUME NEW sets \in Nat \ {0}, NEW ways \in Nat, NEW D, NEW table \in Tables(sets, ways, D),
         NEW d, InTable(table, d)
  PROVE  d \in D
<1>1. PICK s, w : Keeps(table, s, w, d)
  BY DEF InTable
<1>2. /\ s \in 0 .. sets - 1 /\ w \in 1 .. ways /\ table.block[s][w].data = d
  BY <1>1, KeepsIn
<1>3. table.block[s] \in Rows(ways, D)
  BY <1>2 DEF Tables, TableRows
<1>4. table.block[s][w] \in Entries(D)
  BY <1>2, <1>3 DEF Rows
<1> QED BY <1>2, <1>4 DEF Entries

-------------------------------------------------------------------------------
(* The accesses so far, as a sequence that one more is appended to. *)
LineNumbers == 0 .. LP_LINES - 1
AccessLists == Seq(Nat \X LineNumbers)
Alike(h, q, m) == h[q][1] \div 4 = h[m][1] \div 4
Before(h, q, m) ==
  /\ q \in DOMAIN h /\ q < m /\ Alike(h, q, m)
  /\ \A k \in DOMAIN h : q < k /\ k < m => ~Alike(h, k, m)
LastOfIp(h, m) == m \in DOMAIN h /\ \A k \in DOMAIN h : m < k => ~Alike(h, k, m)

OneMore(h, ip, l) == Append(h, <<ip, l>>)

LEMMA OneMoreAccess ==
  \A h \in AccessLists, ip \in Nat, l \in LineNumbers :
    /\ OneMore(h, ip, l) \in AccessLists /\ DOMAIN h = 1 .. Len(h) /\ Len(h) \in Nat
    /\ Len(OneMore(h, ip, l)) = Len(h) + 1 /\ DOMAIN OneMore(h, ip, l) = 1 .. Len(h) + 1
    /\ OneMore(h, ip, l)[Len(h) + 1] = <<ip, l>> /\ OneMore(h, ip, l)[Len(h) + 1][1] = ip /\ OneMore(h, ip, l)[Len(h) + 1][2] = l
    /\ \A m \in DOMAIN h : m \in DOMAIN OneMore(h, ip, l) /\ OneMore(h, ip, l)[m] = h[m]
BY DEF AccessLists, OneMore

LEMMA OrderKept ==
  ASSUME NEW h \in AccessLists, NEW ip \in Nat, NEW l \in LineNumbers, NEW g, g = OneMore(h, ip, l)
  PROVE  /\ \A m \in DOMAIN h : \A q : Before(h, q, m) => Before(g, q, m)
         /\ \A m : LastOfIp(h, m) /\ h[m][1] \div 4 # ip \div 4 => LastOfIp(g, m)
         /\ \A m : LastOfIp(h, m) /\ h[m][1] \div 4 = ip \div 4 => Before(g, m, Len(h) + 1)
         /\ LastOfIp(g, Len(h) + 1)
<1>1. /\ DOMAIN h = 1 .. Len(h) /\ Len(h) \in Nat /\ DOMAIN g = 1 .. Len(h) + 1
      /\ g[Len(h) + 1][1] = ip /\ \A m \in DOMAIN h : m \in DOMAIN g /\ g[m] = h[m]
  BY OneMoreAccess
<1>2. \A k, m \in DOMAIN h : Alike(g, k, m) <=> Alike(h, k, m)
  BY <1>1 DEF Alike
<1>3. \A k \in DOMAIN h : /\ Alike(g, k, Len(h) + 1) <=> h[k][1] \div 4 = ip \div 4
                          /\ Alike(g, Len(h) + 1, k) <=> h[k][1] \div 4 = ip \div 4
  BY <1>1 DEF Alike
<1>4. \A m \in DOMAIN h : \A q : Before(h, q, m) => Before(g, q, m)
  <2> SUFFICES ASSUME NEW m \in DOMAIN h, NEW q, Before(h, q, m)
               PROVE  Before(g, q, m)
    OBVIOUS
  <2>1. q \in DOMAIN h /\ q < m /\ Alike(g, q, m) /\ q \in DOMAIN g
    BY <1>1, <1>2 DEF Before
  <2>2. \A k \in DOMAIN g : q < k /\ k < m => k \in DOMAIN h
    BY <1>1, <2>1
  <2> QED BY <1>2, <2>1, <2>2 DEF Before
<1>5. \A m : LastOfIp(h, m) /\ h[m][1] \div 4 # ip \div 4 => LastOfIp(g, m)
  <2> SUFFICES ASSUME NEW m, LastOfIp(h, m), h[m][1] \div 4 # ip \div 4
               PROVE  LastOfIp(g, m)
    OBVIOUS
  <2>1. m \in DOMAIN h /\ m \in DOMAIN g
    BY <1>1 DEF LastOfIp
  <2>2. ASSUME NEW k \in DOMAIN g, m < k
        PROVE  ~Alike(g, k, m)
    <3>1. CASE k \in DOMAIN h
      BY <1>2, <2>1, <2>2, <3>1 DEF LastOfIp
    <3>2. CASE k = Len(h) + 1
      BY <1>3, <2>1, <3>2
    <3> QED BY <1>1, <3>1, <3>2
  <2> QED BY <2>1, <2>2 DEF LastOfIp
<1>6. \A m : LastOfIp(h, m) /\ h[m][1] \div 4 = ip \div 4 => Before(g, m, Len(h) + 1)
  <2> SUFFICES ASSUME NEW m, LastOfIp(h, m), h[m][1] \div 4 = ip \div 4
               PROVE  Before(g, m, Len(h) + 1)
    OBVIOUS
  <2>1. m \in DOMAIN h /\ m \in DOMAIN g /\ m < Len(h) + 1 /\ Alike(g, m, Len(h) + 1)
    BY <1>1, <1>3 DEF LastOfIp
  <2>2. ASSUME NEW k \in DOMAIN g, m < k, k < Len(h) + 1
        PROVE  ~Alike(g, k, Len(h) + 1)
    <3>1. k \in DOMAIN h
      BY <1>1, <2>2
    <3>2. h[k][1] \div 4 # h[m][1] \div 4
      BY <2>2, <3>1 DEF LastOfIp, Alike
    <3> QED BY <1>3, <3>1, <3>2
  <2> QED BY <2>1, <2>2 DEF Before
<1>7. LastOfIp(g, Len(h) + 1)
  BY <1>1 DEF LastOfIp
<1> QED BY <1>4, <1>5, <1>6, <1>7

-------------------------------------------------------------------------------
(* ip_stride: what an entry of its table and its lookahead say is true of the   *)
(* accesses so far.                                                             *)
TrackerData ==
  [index : Nat, tag : Nat, last_cl_addr : LineNumbers, last_stride : Int] \cup {[index |-> 0, tag |-> 0]}

EntryTrue(h, d) ==
  \E m \in DOMAIN h :
    /\ LastOfIp(h, m) /\ d.tag = h[m][1] \div 4 /\ d.last_cl_addr = h[m][2]
    /\ d.last_stride # 0 => \E q : Before(h, q, m) /\ d.last_stride = h[m][2] - h[q][2]

Strides(h, p, q, m, stride) ==
  /\ m \in DOMAIN h /\ Before(h, p, q) /\ Before(h, q, m)
  /\ stride # 0 /\ stride = h[m][2] - h[q][2] /\ stride = h[q][2] - h[p][2]

AheadTrue(h, a) ==
  /\ a.line \in LineNumbers /\ a.stride \in Int /\ a.degree \in 1 .. STRIDE_DEGREE
  /\ \E p, q, m : /\ Strides(h, p, q, m, a.stride)
                  /\ a.line = Line(h[m][2] + (STRIDE_DEGREE - a.degree) * a.stride)
                  /\ virtual_prefetch \/ PageOf(a.line) = PageOf(h[m][2])

LEMMA TruthKept ==
  ASSUME NEW h \in AccessLists, NEW ip \in Nat, NEW l \in LineNumbers, NEW g, g = OneMore(h, ip, l)
  PROVE  /\ \A d : EntryTrue(h, d) /\ d.tag # ip \div 4 => EntryTrue(g, d)
         /\ \A a : AheadTrue(h, a) => AheadTrue(g, a)
<1>1. \A m \in DOMAIN h : m \in DOMAIN g /\ g[m] = h[m]
  BY OneMoreAccess
<1>2. \A m \in DOMAIN h : \A q : Before(h, q, m) => Before(g, q, m) /\ q \in DOMAIN h
  BY OrderKept DEF Before
<1>3. ASSUME NEW d, EntryTrue(h, d), d.tag # ip \div 4
      PROVE  EntryTrue(g, d)
  <2>1. PICK m \in DOMAIN h : /\ LastOfIp(h, m) /\ d.tag = h[m][1] \div 4 /\ d.last_cl_addr = h[m][2]
                              /\ d.last_stride # 0 => \E q : Before(h, q, m) /\ d.last_stride = h[m][2] - h[q][2]
    BY <1>3 DEF EntryTrue
  <2>2. LastOfIp(g, m)
    BY <1>3, <2>1, OrderKept
  <2> QED BY <1>1, <1>2, <2>1, <2>2 DEF EntryTrue
<1>4. ASSUME NEW a, AheadTrue(h, a)
      PROVE  AheadTrue(g, a)
  <2>1. PICK p, q, m : /\ Strides(h, p, q, m, a.stride)
                       /\ a.line = Line(h[m][2] + (STRIDE_DEGREE - a.degree) * a.stride)
                       /\ virtual_prefetch \/ PageOf(a.line) = PageOf(h[m][2])
    BY <1>4 DEF AheadTrue
  <2>2. m \in DOMAIN h /\ q \in DOMAIN h /\ p \in DOMAIN h
    BY <2>1 DEF Strides, Before
  <2>3. Strides(g, p, q, m, a.stride)
    BY <1>1, <1>2, <2>1, <2>2 DEF Strides
  <2>4. g[m] = h[m]
    BY <1>1, <2>2
  <2> QED BY <1>4, <2>1, <2>3, <2>4 DEF AheadTrue
<1> QED BY <1>3, <1>4

-------------------------------------------------------------------------------
LEMMA RemainderOf ==
  ASSUME NEW n \in Nat \ {0}, NEW q \in Int, NEW r \in 0 .. n - 1
  PROVE (n * q + r) % n = r
OBVIOUS

LEMMA Division ==
  ASSUME NEW n \in Nat \ {0}, NEW a \in Int
  PROVE a = n * (a \div n) + (a % n) /\ a % n \in 0 .. n - 1 /\ a \div n \in Int
OBVIOUS

(* A sum may wrap in parts. *)
LEMMA WrapsOnce ==
  ASSUME NEW n \in Nat \ {0}, NEW a \in Int, NEW b \in Int
  PROVE  ((a % n) + b) % n = (a + b) % n
<1> DEFINE q == a \div n
           c == (a % n) + b
           p == c \div n
           r == c % n
<1>1. a = n * q + (a % n) /\ a % n \in 0 .. n - 1 /\ q \in Int
  BY Division
<1>2. c = n * p + r /\ r \in 0 .. n - 1 /\ p \in Int /\ c \in Int
  <2>1. c \in Int
    BY <1>1
  <2> HIDE DEF c
  <2> QED BY <2>1, Division
<1>3. a + b = n * (p + q) + r
  <2>1. a + b = n * q + c
    BY <1>1
  <2>2. n * (p + q) = n * p + n * q
    BY <1>1, <1>2
  <2> HIDE DEF q, c, p, r
  <2> QED BY <1>1, <1>2, <2>1, <2>2
<1>4. (a + b) % n = r
  <2>1. p + q \in Int
    BY <1>1, <1>2
  <2> HIDE DEF q, c, p, r
  <2> QED BY <1>2, <1>3, <2>1, RemainderOf
<1> QED BY <1>4

LEMMA LineFacts ==
  /\ LP_LINES \in Nat \ {0} /\ LP_PAGE \in Nat \ {0} /\ 1 \in Nat \ {0}
  /\ TRACKER_SETS \in Nat \ {0} /\ TRACKER_WAYS \in Nat \ {0} /\ REGION_WAYS \in Nat \ {0}
  /\ STRIDE_DEGREE \in Nat \ {0} /\ MAX_DISTANCE \in Nat /\ AMPM_DEGREE \in Nat
  /\ \A n \in Int : Line(n) \in LineNumbers
  /\ \A l \in LineNumbers : Line(l) = l /\ PageOf(l) \in Nat /\ l \in Int
  /\ \A a, b \in Int : Line(Line(a) + b) = Line(a + b)
<1>1. LP_LINES \in Nat \ {0} /\ LP_PAGE \in Nat \ {0}
  BY LineAssumption
<1>2. \A n \in Int : Line(n) \in LineNumbers
  BY <1>1, Division DEF Line, LineNumbers
<1>3. \A l \in LineNumbers : Line(l) = l /\ PageOf(l) \in Nat /\ l \in Int
  <2> SUFFICES ASSUME NEW l \in LineNumbers
               PROVE  Line(l) = l /\ PageOf(l) \in Nat /\ l \in Int
    OBVIOUS
  <2>1. l \in Nat /\ l < LP_LINES
    BY <1>1 DEF LineNumbers
  <2>2. Line(l) = l
    BY <1>1, <2>1 DEF Line
  <2>3. PageOf(l) \in Nat
    BY <1>1, <2>1 DEF PageOf
  <2> QED BY <2>1, <2>2, <2>3
<1>4. \A a, b \in Int : Line(Line(a) + b) = Line(a + b)
  BY <1>1, WrapsOnce DEF Line
<1> QED BY <1>1, <1>2, <1>3, <1>4, LineAssumption

-------------------------------------------------------------------------------
(* va_ampm_lite: the accesses of a region were made, and its table is in order. *)
RegionType == [index : Nat, tag : Nat, access_map : SUBSET LineNumbers, prefetch_map : SUBSET LineNumbers]
RegionData == RegionType \cup {[index |-> 0, tag |-> 0]}
Tidy(table, seen) ==
  /\ table \in Tables(1, REGION_WAYS, RegionData) /\ Sorted(table, 1)
  /\ \A d : InTable(table, d) => d \in RegionType /\ d.index = d.tag /\ d.access_map \subseteq seen
Alikes(t, u) == \A d : InTable(t, d) <=> InTable(u, d)

LEMMA RegionOf ==
  ASSUME NEW l \in LineNumbers
  PROVE  /\ Region(l) \in RegionType /\ Region(l).index = Region(l).tag /\ Region(l).tag \in Nat
         /\ Region(l).tag = PageOf(l) /\ Region(l).access_map = {} /\ Region(l).prefetch_map = {}
  BY LineFacts DEF Region, RegionType

LEMMA RegionFound ==
  ASSUME NEW seen, NEW table, Tidy(table, seen), NEW l \in LineNumbers
  PROVE  /\ Hits(table, Region(l)) => /\ InTable(table, Mapped(table, l))
                                      /\ Mapped(table, l).tag = PageOf(l)
         /\ \A d : InTable(table, d) /\ d.tag = PageOf(l) => Hits(table, Region(l)) /\ Mapped(table, l) = d
         /\ ~Hits(table, Region(l)) => Mapped(table, l) = Region(l)
<1>1. /\ table \in Tables(1, REGION_WAYS, RegionData) /\ Sorted(table, 1)
      /\ Region(l).index = Region(l).tag /\ Region(l).tag \in Nat /\ Region(l).tag = PageOf(l)
  BY RegionOf DEF Tidy
<1>2. REGION_WAYS \in Nat /\ 1 \in Nat \ {0}
  BY LineFacts
<1>3. /\ Hits(table, Region(l)) =>
           /\ Keeps(table, SetOf(table, Region(l)), WayOf(table, Region(l)), DataOf(table, Region(l)))
           /\ DataOf(table, Region(l)).tag = Region(l).tag
      /\ \A d : InTable(table, d) /\ d.tag = Region(l).tag =>
           Hits(table, Region(l)) /\ DataOf(table, Region(l)) = d
  BY ONLY <1>1, <1>2, Found
<1> QED BY <1>1, <1>3 DEF Mapped, InTable

LEMMA MappedType ==
  ASSUME NEW seen, NEW table, Tidy(table, seen), NEW l \in LineNumbers
  PROVE  LET m == Mapped(table, l)
         IN  m \in RegionType /\ m.index = m.tag /\ m.tag = PageOf(l) /\ m.access_map \subseteq seen
<1>1. CASE Hits(table, Region(l))
  BY <1>1, RegionFound DEF Tidy
<1>2. CASE ~Hits(table, Region(l))
  BY <1>2, RegionFound, RegionOf
<1> QED BY <1>1, <1>2

LEMMA RegionLooked ==
  ASSUME NEW seen, NEW table, Tidy(table, seen), NEW l \in LineNumbers
  PROVE  Tidy(CheckHit(table, Region(l)), seen) /\ Alikes(CheckHit(table, Region(l)), table)
<1>1. /\ table \in Tables(1, REGION_WAYS, RegionData) /\ Sorted(table, 1)
      /\ Region(l).index = Region(l).tag /\ Region(l).tag \in Nat
  BY RegionOf DEF Tidy
<1>2. REGION_WAYS \in Nat /\ 1 \in Nat \ {0}
  BY LineFacts
<1>3. /\ CheckHit(table, Region(l)) \in Tables(1, REGION_WAYS, RegionData)
      /\ Sorted(CheckHit(table, Region(l)), 1)
      /\ \A d : InTable(CheckHit(table, Region(l)), d) <=> InTable(table, d)
  BY ONLY <1>1, <1>2, TableLooked
<1> QED BY <1>3 DEF Tidy, Alikes

LEMMA RegionFilled ==
  ASSUME NEW seen, NEW table, Tidy(table, seen),
         NEW e \in RegionType, e.index = e.tag, e.access_map \subseteq seen
  PROVE  /\ Tidy(Fill(table, e), seen)
         /\ \A d : InTable(Fill(table, e), d) => d = e \/ (InTable(table, d) /\ d.tag # e.tag)
<1>1. /\ table \in Tables(1, REGION_WAYS, RegionData) /\ Sorted(table, 1)
      /\ e \in RegionData /\ e.tag \in Nat
  BY DEF Tidy, RegionData, RegionType
<1>2. REGION_WAYS \in Nat /\ 1 \in Nat \ {0}
  BY LineFacts
<1>3. /\ Fill(table, e) \in Tables(1, REGION_WAYS, RegionData) /\ Sorted(Fill(table, e), 1)
      /\ \A d : InTable(Fill(table, e), d) => d = e \/ (InTable(table, d) /\ d.tag # e.tag)
  BY ONLY <1>1, <1>2, e.index = e.tag, TableFilled
<1> QED BY <1>3 DEF Tidy

LEMMA MappedAlike ==
  ASSUME NEW seen, NEW t, NEW u, Tidy(t, seen), Tidy(u, seen), Alikes(t, u), NEW l \in LineNumbers
  PROVE  Mapped(t, l) = Mapped(u, l) /\ (Hits(t, Region(l)) <=> Hits(u, Region(l)))
<1>1. CASE Hits(t, Region(l))
  BY <1>1, RegionFound DEF Alikes
<1>2. CASE Hits(u, Region(l))
  BY <1>2, RegionFound DEF Alikes
<1>3. CASE ~Hits(t, Region(l)) /\ ~Hits(u, Region(l))
  BY <1>3, RegionFound
<1> QED BY <1>1, <1>2, <1>3

LEMMA LookedTidy ==
  ASSUME NEW seen, Tidy(regions, seen), NEW l \in LineNumbers, NEW d \in Int
  PROVE  Tidy(Looked(l, d), seen) /\ Alikes(Looked(l, d), regions)
<1> DEFINE near == CheckHit(regions, Region(Line(l - d)))
           far == CheckHit(near, Region(Line(l - 2 * d)))
           forward == CheckHit(far, Region(Line(l + d)))
           last == CheckHit(forward, Region(Line(l + d)))
<1>1. Line(l - d) \in LineNumbers /\ Line(l - 2 * d) \in LineNumbers /\ Line(l + d) \in LineNumbers
  <2>1. l \in Int
    BY LineFacts
  <2>2. l - d \in Int /\ l - 2 * d \in Int /\ l + d \in Int
    BY <2>1
  <2> QED BY <2>2, LineFacts
<1>2. Tidy(near, seen) /\ Alikes(near, regions)
  BY <1>1, RegionLooked
<1>3. Tidy(far, seen) /\ Alikes(far, near)
  BY <1>1, <1>2, RegionLooked
<1>4. Tidy(forward, seen) /\ Alikes(forward, far)
  BY <1>1, <1>3, RegionLooked
<1>5. Tidy(last, seen) /\ Alikes(last, forward)
  BY <1>1, <1>4, RegionLooked
<1>6. Looked(l, d) \in {near, far, forward, last}
  BY DEF Looked
<1> HIDE DEF near, far, forward, last
<1> QED BY <1>2, <1>3, <1>4, <1>5, <1>6 DEF Alikes

-------------------------------------------------------------------------------
(* The inductive invariant. *)
Seen(h) == {h[m][2] : m \in DOMAIN h}
Marked(table, b) == \A d : InTable(table, d) /\ d.tag = PageOf(b) => b \in d.prefetch_map
Wants == [lines : SUBSET LineNumbers, standing : SUBSET LineNumbers]
Searches == [direction : {-1, 0, 1}, i : Nat \ {0}, issued : Nat, room : Nat]

LineTypes ==
  /\ history \in AccessLists /\ wanted \in Wants /\ search \in Searches
  /\ search.direction # 0 => kind = "va_ampm_lite" /\ Len(history) > 0

(* ip_stride: the table and the lookahead are true of the accesses. *)
TrackerTrue ==
  /\ tracker \in Tables(TRACKER_SETS, TRACKER_WAYS, TrackerData) /\ Sorted(tracker, TRACKER_SETS)
  /\ \A d : InTable(tracker, d) => EntryTrue(history, d)
  /\ \A a \in active_lookahead : AheadTrue(history, a)

(* va_ampm_lite: what was asked for in a region that is still there is marked. *)
RegionsTrue ==
  /\ Tidy(regions, Seen(history))
  /\ \A b \in wanted.standing \cup wanted.lines : Marked(regions, b)

LineInv ==
  /\ LineTypes
  /\ kind \in {"next_line", "ip_stride", "va_ampm_lite"}
  /\ kind = "ip_stride" => TrackerTrue
  /\ kind = "va_ampm_lite" => RegionsTrue
  /\ PrefetchesHaveReasons

LEMMA LineInitInv ==
  ASSUME LineInit
  PROVE  LineInv
<1>1. /\ history = <<>> /\ wanted = [lines |-> {}, standing |-> {}]
      /\ search = NoSearch /\ kind \in {"next_line", "ip_stride", "va_ampm_lite"}
      /\ tracker = NewTable(TRACKER_SETS, TRACKER_WAYS) /\ active_lookahead = {}
      /\ regions = NewTable(1, REGION_WAYS)
  BY DEF LineInit
<1>2. LineTypes
  BY <1>1 DEF LineTypes, AccessLists, Wants, Searches, NoSearch
<1>3. TrackerTrue
  <2>1. TRACKER_SETS \in Nat \ {0} /\ TRACKER_WAYS \in Nat /\ [index |-> 0, tag |-> 0] \in TrackerData
    BY LineFacts DEF TrackerData
  <2>2. /\ NewTable(TRACKER_SETS, TRACKER_WAYS) \in Tables(TRACKER_SETS, TRACKER_WAYS, TrackerData)
        /\ Sorted(NewTable(TRACKER_SETS, TRACKER_WAYS), TRACKER_SETS)
        /\ \A d : ~InTable(NewTable(TRACKER_SETS, TRACKER_WAYS), d)
    BY ONLY <2>1, TableNew
  <2> QED BY <1>1, <2>2 DEF TrackerTrue
<1>4. RegionsTrue
  <2>1. 1 \in Nat \ {0} /\ REGION_WAYS \in Nat /\ [index |-> 0, tag |-> 0] \in RegionData
    BY LineFacts DEF RegionData
  <2>2. /\ NewTable(1, REGION_WAYS) \in Tables(1, REGION_WAYS, RegionData)
        /\ Sorted(NewTable(1, REGION_WAYS), 1) /\ \A d : ~InTable(NewTable(1, REGION_WAYS), d)
    BY ONLY <2>1, TableNew
  <2> QED BY <1>1, <2>2 DEF RegionsTrue, Tidy
<1>5. PrefetchesHaveReasons
  BY <1>1 DEF PrefetchesHaveReasons
<1> QED BY <1>1, <1>2, <1>3, <1>4, <1>5 DEF LineInv

(* The specification says of the accesses what the operators above say of any *)
(* sequence.                                                                  *)
LEMMA PrecedesIsBefore == \A q, m : Precedes(q, m) <=> Before(history, q, m)
BY DEF Precedes, Before, SameIp, Alike

(* An access, to next_line. *)
LEMMA NextLineKeeps ==
  ASSUME LineInv, NEW ip \in Nat, NEW l \in LineNumbers, NEW room \in Nat,
         LineOperate(ip, l, room), kind = "next_line"
  PROVE  LineInv'
<1>1. /\ history' = OneMore(history, ip, l) /\ kind' = kind
      /\ wanted' = [wanted EXCEPT !.lines = {Line(l + 1)}] /\ UNCHANGED search /\ search.direction = 0
  BY DEF LineOperate, OneMore
<1>2. history \in AccessLists /\ wanted \in Wants /\ search \in Searches
  BY DEF LineInv, LineTypes
<1>3. history' \in AccessLists /\ Len(history') = Len(history) + 1 /\ history'[Len(history) + 1][2] = l
  <2>1. history \in AccessLists /\ ip \in Nat /\ l \in LineNumbers /\ history' = OneMore(history, ip, l)
    BY <1>1, <1>2
  <2>2. history' \in AccessLists
    BY <2>1, OneMoreAccess
  <2>3. Len(history') = Len(history) + 1
    BY <2>1, OneMoreAccess
  <2>4. history'[Len(history) + 1] = <<ip, l>>
    BY <2>1 DEF AccessLists, OneMore
  <2> QED BY <2>2, <2>3, <2>4
<1>4. Line(l + 1) \in LineNumbers
  <2>1. l \in Int
    BY <1>2, LineFacts
  <2>2. l + 1 \in Int
    BY <2>1
  <2> QED BY <2>2, LineFacts
<1>5. wanted' \in Wants /\ wanted'.lines = {Line(l + 1)}
  BY <1>1, <1>2, <1>4 DEF Wants
<1>6. LineTypes'
  BY <1>1, <1>2, <1>3, <1>5 DEF LineTypes
<1>7. PrefetchesHaveReasons'
  BY <1>1, <1>3, <1>5 DEF PrefetchesHaveReasons
<1> QED BY <1>1, <1>6, <1>7 DEF LineInv

(* An access, to ip_stride. *)
LEMMA StrideKeeps ==
  ASSUME LineInv, NEW ip \in Nat, NEW l \in LineNumbers, NEW room \in Nat,
         LineOperate(ip, l, room), kind = "ip_stride"
  PROVE  LineInv'
<1> DEFINE key == Tracked(ip, l, 0)
           stride == StrideOf(ip, l)
           looked == CheckHit(tracker, key)
           entry == Tracked(ip, l, stride)
           old == DataOf(tracker, key)
           now == Len(history) + 1
<1>1. /\ history' = OneMore(history, ip, l) /\ kind' = kind /\ UNCHANGED search /\ search.direction = 0
      /\ tracker' = Fill(looked, entry)
      /\ active_lookahead' = IF StartsLookahead(ip, l)
                             THEN {[line |-> l, stride |-> stride, degree |-> STRIDE_DEGREE]}
                             ELSE active_lookahead
      /\ wanted' = [wanted EXCEPT !.lines = {}]
  BY DEF LineOperate, StrideOperate, OneMore
<1>2. /\ history \in AccessLists /\ wanted \in Wants /\ search \in Searches
      /\ TrackerTrue
  BY DEF LineInv, LineTypes
<1>3. /\ history' \in AccessLists /\ Len(history') = Len(history) + 1 /\ Len(history) \in Nat
      /\ now \in DOMAIN history' /\ history'[now][1] = ip /\ history'[now][2] = l
      /\ \A m \in DOMAIN history : history'[m] = history[m]
  <2>1. history \in AccessLists /\ ip \in Nat /\ l \in LineNumbers /\ history' = OneMore(history, ip, l)
    BY <1>1, <1>2
  <2>2. /\ history' \in AccessLists /\ DOMAIN history = 1 .. Len(history) /\ Len(history) \in Nat
        /\ Len(history') = Len(history) + 1 /\ DOMAIN history' = 1 .. Len(history) + 1
        /\ \A m \in DOMAIN history : history'[m] = history[m]
    BY <2>1, OneMoreAccess
  <2>3. history'[Len(history) + 1] = <<ip, l>>
    BY <2>1 DEF AccessLists, OneMore
  <2>4. history'[now][1] = ip /\ history'[now][2] = l
    BY <2>3
  <2> QED BY <2>2, <2>4
<1>4. /\ \A m \in DOMAIN history : \A q : Before(history, q, m) => Before(history', q, m)
      /\ \A m : LastOfIp(history, m) /\ history[m][1] \div 4 = ip \div 4 => Before(history', m, now)
      /\ LastOfIp(history', now)
  BY <1>1, <1>2, OrderKept
<1>5. /\ \A d : EntryTrue(history, d) /\ d.tag # ip \div 4 => EntryTrue(history', d)
      /\ \A d : AheadTrue(history, d) => AheadTrue(history', d)
  BY <1>1, <1>2, TruthKept
<1>6. l \in Int /\ ip \div 4 \in Nat
  BY <1>2, LineFacts
<1>7. key.index = key.tag /\ key.tag \in Nat /\ key.tag = ip \div 4
  BY <1>6 DEF Tracked
<1>8. /\ TRACKER_SETS \in Nat \ {0} /\ TRACKER_WAYS \in Nat
      /\ tracker \in Tables(TRACKER_SETS, TRACKER_WAYS, TrackerData) /\ Sorted(tracker, TRACKER_SETS)
  BY <1>2, LineFacts DEF TrackerTrue
<1> HIDE DEF key
<1>9. Hits(tracker, key) => InTable(tracker, old) /\ old.tag = ip \div 4
  <2>1. Hits(tracker, key) => Keeps(tracker, SetOf(tracker, key), WayOf(tracker, key), old) /\ old.tag = key.tag
    BY ONLY <1>7, <1>8, Found
  <2> QED BY <1>7, <2>1 DEF InTable
<1>10. stride = IF Hits(tracker, key) THEN l - old.last_cl_addr ELSE 0
  BY DEF StrideOf, key
<1>11. Hits(tracker, key) =>
         \E m \in DOMAIN history :
           /\ Before(history', m, now) /\ old.last_cl_addr = history[m][2] /\ stride = l - history[m][2]
           /\ old.last_stride # 0 =>
                \E q : Before(history, q, m) /\ old.last_stride = history[m][2] - history[q][2]
  <2> SUFFICES ASSUME Hits(tracker, key)
               PROVE  \E m \in DOMAIN history :
                        /\ Before(history', m, now) /\ old.last_cl_addr = history[m][2]
                        /\ stride = l - history[m][2]
                        /\ old.last_stride # 0 =>
                             \E q : Before(history, q, m) /\ old.last_stride = history[m][2] - history[q][2]
    OBVIOUS
  <2>1. EntryTrue(history, old) /\ old.tag = ip \div 4
    BY <1>2, <1>9 DEF TrackerTrue
  <2> HIDE DEF old, stride
  <2>2. PICK m \in DOMAIN history :
          /\ LastOfIp(history, m) /\ old.tag = history[m][1] \div 4 /\ old.last_cl_addr = history[m][2]
          /\ old.last_stride # 0 =>
               \E q : Before(history, q, m) /\ old.last_stride = history[m][2] - history[q][2]
    BY <2>1 DEF EntryTrue
  <2>3. Before(history', m, now)
    BY <1>4, <2>1, <2>2
  <2>4. stride = l - history[m][2]
    BY <1>10, <2>2
  <2> QED BY <2>2, <2>3, <2>4
<1>12. \A m \in DOMAIN history : history[m][2] \in LineNumbers
  BY <1>2 DEF AccessLists
<1>13. stride \in Int
  <2>1. CASE Hits(tracker, key)
    <3>1. PICK m \in DOMAIN history : stride = l - history[m][2]
      BY <1>11, <2>1
    <3>2. history[m][2] \in Int
      BY <1>12, LineFacts
    <3> QED BY <1>6, <3>1, <3>2
  <2>2. CASE ~Hits(tracker, key)
    BY <1>10, <2>2
  <2> QED BY <2>1, <2>2
<1>14. /\ entry.tag = ip \div 4 /\ entry.index = entry.tag /\ entry.tag \in Nat /\ entry \in TrackerData
       /\ entry.last_cl_addr = l /\ entry.last_stride = stride
  <2> HIDE DEF stride
  <2> QED BY <1>2, <1>6, <1>13 DEF Tracked, TrackerData
<1> HIDE DEF stride, entry, old
<1>15. EntryTrue(history', entry)
  <2>1. entry.last_stride # 0 => \E q : Before(history', q, now) /\ stride = l - history'[q][2]
    <3> SUFFICES ASSUME entry.last_stride # 0
                 PROVE  \E q : Before(history', q, now) /\ stride = l - history'[q][2]
      OBVIOUS
    <3>1. Hits(tracker, key)
      BY <1>10, <1>14
    <3> QED BY <1>3, <1>11, <3>1
  <2> QED BY <1>3, <1>4, <1>14, <2>1 DEF EntryTrue
<1>16. /\ looked \in Tables(TRACKER_SETS, TRACKER_WAYS, TrackerData) /\ Sorted(looked, TRACKER_SETS)
       /\ \A d : InTable(looked, d) <=> InTable(tracker, d)
  BY ONLY <1>7, <1>8, TableLooked
<1> HIDE DEF looked
<1>17. /\ tracker' \in Tables(TRACKER_SETS, TRACKER_WAYS, TrackerData) /\ Sorted(tracker', TRACKER_SETS)
       /\ \A d : InTable(tracker', d) => d = entry \/ (InTable(looked, d) /\ d.tag # entry.tag)
  <2>1. /\ Fill(looked, entry) \in Tables(TRACKER_SETS, TRACKER_WAYS, TrackerData)
        /\ Sorted(Fill(looked, entry), TRACKER_SETS)
        /\ \A d : InTable(Fill(looked, entry), d) => d = entry \/ (InTable(looked, d) /\ d.tag # entry.tag)
    BY ONLY <1>8, <1>14, <1>16, TableFilled
  <2> QED BY <1>1, <2>1
<1>18. \A d : InTable(tracker', d) => EntryTrue(history', d)
  BY <1>2, <1>5, <1>14, <1>15, <1>16, <1>17 DEF TrackerTrue
<1>19. ASSUME StartsLookahead(ip, l)
       PROVE  AheadTrue(history', [line |-> l, stride |-> stride, degree |-> STRIDE_DEGREE])
  <2> DEFINE forward == [line |-> l, stride |-> stride, degree |-> STRIDE_DEGREE]
  <2>1. stride # 0 /\ stride = old.last_stride
    BY <1>19 DEF StartsLookahead, stride, old, key
  <2>2. PICK m \in DOMAIN history :
          /\ Before(history', m, now) /\ stride = l - history[m][2]
          /\ old.last_stride # 0 =>
               \E q : Before(history, q, m) /\ old.last_stride = history[m][2] - history[q][2]
    BY <1>10, <1>11, <2>1
  <2>3. PICK q : Before(history, q, m) /\ stride = history[m][2] - history[q][2]
    BY <2>1, <2>2
  <2>4. q \in DOMAIN history /\ Before(history', q, m)
    BY <1>4, <2>3 DEF Before
  <2>5. Strides(history', q, m, now, stride)
    BY <1>3, <2>1, <2>2, <2>3, <2>4 DEF Strides
  <2>6. l = Line(l + (STRIDE_DEGREE - STRIDE_DEGREE) * stride)
    <3>1. STRIDE_DEGREE - STRIDE_DEGREE = 0 /\ 0 * stride = 0 /\ l + 0 = l
      BY <1>6, <1>13, LineFacts
    <3> QED BY <3>1, LineFacts
  <2>7. forward.line = l /\ forward.stride = stride /\ forward.degree = STRIDE_DEGREE
    OBVIOUS
  <2>8. STRIDE_DEGREE \in 1 .. STRIDE_DEGREE
    BY LineFacts
  <2> HIDE DEF forward
  <2>9. AheadTrue(history', forward)
    BY <1>2, <1>3, <1>13, <2>5, <2>6, <2>7, <2>8 DEF AheadTrue
  <2> QED BY <2>9 DEF forward
<1>20. \A d \in active_lookahead' : AheadTrue(history', d)
  BY <1>1, <1>2, <1>5, <1>19 DEF TrackerTrue, stride
<1>21. TrackerTrue'
  BY <1>17, <1>18, <1>20 DEF TrackerTrue
<1>22. wanted' \in Wants /\ wanted'.lines = {}
  BY <1>1, <1>2 DEF Wants
<1>23. LineTypes'
  BY <1>1, <1>2, <1>3, <1>22 DEF LineTypes
<1>24. PrefetchesHaveReasons'
  BY <1>22 DEF PrefetchesHaveReasons
<1> QED BY <1>1, <1>21, <1>23, <1>24 DEF LineInv

(* A cycle of ip_stride: one step further along the stride. *)
LEMMA CycleKeeps ==
  ASSUME LineInv, NEW room, StrideCycle(room)
  PROVE  LineInv'
<1>1. /\ kind = "ip_stride" /\ UNCHANGED <<kind, tracker, regions, search, history>>
      /\ TrackerTrue /\ LineTypes
  BY DEF StrideCycle, LineInv
<1>2. PICK forward \in active_lookahead :
        LET next == Line(forward.line + forward.stride)
            after == [line |-> next, stride |-> forward.stride, degree |-> forward.degree - 1]
            stays == virtual_prefetch \/ PageOf(next) = PageOf(forward.line)
            taken == stays /\ room > 0
        IN  /\ active_lookahead' = IF taken THEN {a \in {after} : a.degree # 0}
                                   ELSE {a \in {forward} : stays}
            /\ wanted' = [wanted EXCEPT !.lines = {n \in {next} : taken}]
  BY DEF StrideCycle
<1> DEFINE next == Line(forward.line + forward.stride)
           after == [line |-> next, stride |-> forward.stride, degree |-> forward.degree - 1]
           stays == virtual_prefetch \/ PageOf(next) = PageOf(forward.line)
           taken == stays /\ room > 0
           k == STRIDE_DEGREE - forward.degree
           stride == forward.stride
<1>3. /\ active_lookahead' = IF taken THEN {a \in {after} : a.degree # 0} ELSE {a \in {forward} : stays}
      /\ wanted' = [wanted EXCEPT !.lines = {n \in {next} : taken}]
  BY <1>2
<1>4. /\ AheadTrue(history, forward) /\ forward.line \in LineNumbers /\ forward.stride \in Int
      /\ forward.degree \in 1 .. STRIDE_DEGREE
  BY <1>1 DEF TrackerTrue, AheadTrue
<1>5. PICK p, q, m : /\ Strides(history, p, q, m, stride)
                     /\ forward.line = Line(history[m][2] + k * stride)
                     /\ virtual_prefetch \/ PageOf(forward.line) = PageOf(history[m][2])
  BY <1>4 DEF AheadTrue
<1>6. /\ m \in DOMAIN history /\ q \in DOMAIN history /\ p \in DOMAIN history
      /\ history[m][2] \in LineNumbers /\ history[m][2] \in Int
  <2>1. m \in DOMAIN history /\ q \in DOMAIN history /\ p \in DOMAIN history
    BY <1>5 DEF Strides, Before
  <2>2. history \in AccessLists
    BY <1>1 DEF LineTypes
  <2>3. history[m][2] \in LineNumbers
    BY <2>1, <2>2 DEF AccessLists
  <2> QED BY <2>1, <2>3, LineFacts
<1>7. k \in 0 .. STRIDE_DEGREE - 1 /\ k + 1 \in 1 .. STRIDE_DEGREE /\ stride \in Int
      /\ k + 1 = STRIDE_DEGREE - (forward.degree - 1)
  <2>1. STRIDE_DEGREE \in Nat
    BY LineFacts
  <2> QED BY ONLY <1>4, <2>1
<1>8. next \in LineNumbers
  <2>1. forward.line \in Int
    BY <1>4, LineFacts
  <2>2. forward.line + forward.stride \in Int
    BY <1>4, <2>1
  <2> QED BY <2>2, LineFacts
<1>9. next = Line(history[m][2] + (k + 1) * stride)
  <2> DEFINE a == history[m][2]
             b == k * stride
  <2> HIDE DEF k, stride, a
  <2>1. a \in Int /\ b \in Int /\ k \in Int /\ stride \in Int
    BY <1>6, <1>7 DEF a
  <2>2. (k + 1) * stride = b + stride
    BY <2>1
  <2> HIDE DEF b
  <2>3. a + b \in Int /\ (a + b) + stride = a + (b + stride)
    BY <2>1
  <2>4. Line(Line(a + b) + stride) = Line((a + b) + stride)
    BY <2>1, <2>3, LineFacts
  <2>5. next = Line(Line(a + b) + stride)
    BY <1>5 DEF a, b, stride
  <2> QED BY <2>2, <2>3, <2>4, <2>5 DEF a
<1>10. stays => virtual_prefetch \/ PageOf(next) = PageOf(history[m][2])
  BY <1>5
<1>11. OnAStride(next) \/ ~stays
  <2>1. /\ Precedes(p, q) /\ Precedes(q, m) /\ stride # 0
        /\ stride = history[m][2] - history[q][2] /\ stride = history[q][2] - history[p][2]
    BY <1>5, PrecedesIsBefore DEF Strides
  <2> HIDE DEF k, stride, next, stays
  <2>2. next = Line(history[m][2] + (k + 1) * (history[m][2] - history[q][2]))
    BY <1>9, <2>1
  <2> QED BY <1>6, <1>7, <1>10, <2>1, <2>2 DEF OnAStride
<1>12. ASSUME stays, after.degree # 0
       PROVE  AheadTrue(history, after)
  <2>1. after.line = next /\ after.stride = stride /\ after.degree = forward.degree - 1
    OBVIOUS
  <2>2. after.degree \in 1 .. STRIDE_DEGREE
    <3>1. STRIDE_DEGREE \in Nat
      BY LineFacts
    <3>2. after.degree # 0
      BY <1>12
    <3> HIDE DEF after
    <3> QED BY ONLY <1>4, <2>1, <3>1, <3>2
  <2>3. STRIDE_DEGREE - after.degree = k + 1
    BY <1>7, <2>1
  <2> HIDE DEF after, next, stride, k, stays
  <2> QED BY <1>5, <1>7, <1>8, <1>9, <1>10, <1>12, <2>1, <2>2, <2>3 DEF AheadTrue
<1>13. \A a \in active_lookahead' : AheadTrue(history', a)
  <2> HIDE DEF after, stays
  <2> QED BY <1>1, <1>3, <1>4, <1>12
<1>14. TrackerTrue'
  BY <1>1, <1>13 DEF TrackerTrue
<1>15. wanted' \in Wants /\ wanted'.lines = {n \in {next} : taken}
  <2>1. wanted \in Wants
    BY <1>1 DEF LineTypes
  <2> HIDE DEF next, taken
  <2> QED BY <1>3, <1>8, <2>1 DEF Wants
<1>16. LineTypes'
  BY <1>1, <1>15 DEF LineTypes
<1>17. PrefetchesHaveReasons'
  <2>1. \A line \in wanted'.lines : OnAStride(line)
    <3> HIDE DEF next
    <3> QED BY <1>11, <1>15
  <2>2. \A line : OnAStride(line) => OnAStride(line)'
    BY <1>1 DEF OnAStride, Precedes, SameIp
  <2> QED BY <1>1, <2>1, <2>2 DEF PrefetchesHaveReasons
<1> QED BY <1>1, <1>14, <1>16, <1>17 DEF LineInv

(* What was asked for and is still in the table is marked after a step that     *)
(* puts the element e into it, if e keeps the marks of its region.              *)
LEMMA MarksKept ==
  ASSUME RegionsTrue, wanted \in Wants, NEW table,
         NEW e, NEW l \in LineNumbers, e.tag = PageOf(l),
         \A d : InTable(table, d) => d = e \/ (InTable(regions, d) /\ d.tag # e.tag),
         Mapped(regions, l).prefetch_map \subseteq e.prefetch_map
  PROVE  \A b \in StillTracked : Marked(table, b)
<1> SUFFICES ASSUME NEW b \in StillTracked, NEW d, InTable(table, d), d.tag = PageOf(b)
             PROVE  b \in d.prefetch_map
  BY DEF Marked
<1>1. /\ b \in LineNumbers /\ Hits(regions, Region(b)) /\ Marked(regions, b)
      /\ Tidy(regions, Seen(history))
  BY DEF StillTracked, RegionsTrue, Wants
<1>2. InTable(regions, Mapped(regions, b)) /\ Mapped(regions, b).tag = PageOf(b)
  BY <1>1, RegionFound
<1>3. b \in Mapped(regions, b).prefetch_map
  BY <1>1, <1>2 DEF Marked
<1>4. CASE d = e
  <2>1. Mapped(regions, b) = Mapped(regions, l)
    BY <1>1, <1>2, <1>4, RegionFound
  <2> QED BY <1>3, <1>4, <2>1
<1>5. CASE InTable(regions, d)
  BY <1>1, <1>5 DEF Marked
<1> QED BY <1>4, <1>5

(* An access, to va_ampm_lite. *)
LEMMA AmpmKeeps ==
  ASSUME LineInv, NEW ip \in Nat, NEW l \in LineNumbers, NEW room \in Nat,
         LineOperate(ip, l, room), kind = "va_ampm_lite"
  PROVE  LineInv'
<1> DEFINE looked == CheckHit(regions, Region(l))
           tracked == Hits(regions, Region(l))
           entry == IF tracked THEN [Mapped(looked, l) EXCEPT !.access_map = @ \cup {l}] ELSE Region(l)
           seen == Seen(history')
<1>1. /\ history' = OneMore(history, ip, l) /\ kind' = kind
      /\ regions' = Fill(looked, entry)
      /\ search' = IF tracked THEN [NoSearch EXCEPT !.direction = 1, !.room = room] ELSE NoSearch
      /\ wanted' = [lines |-> {}, standing |-> StillTracked]
  BY DEF LineOperate, AmpmOperate, OneMore, MarkAccess
<1>2. history \in AccessLists /\ wanted \in Wants /\ search \in Searches /\ RegionsTrue
  BY DEF LineInv, LineTypes
<1>3. history' \in AccessLists /\ Len(history') > 0 /\ Seen(history) \subseteq seen /\ l \in seen
  <2>1. history \in AccessLists /\ ip \in Nat /\ l \in LineNumbers /\ history' = OneMore(history, ip, l)
    BY <1>1, <1>2
  <2>2. /\ history' \in AccessLists /\ Len(history) \in Nat
        /\ Len(history') = Len(history) + 1 /\ DOMAIN history' = 1 .. Len(history) + 1
        /\ \A m \in DOMAIN history : m \in DOMAIN history' /\ history'[m] = history[m]
    BY <2>1, OneMoreAccess
  <2>3. history'[Len(history) + 1] = <<ip, l>>
    BY <2>1 DEF AccessLists, OneMore
  <2>4. Len(history) + 1 \in DOMAIN history' /\ history'[Len(history) + 1][2] = l
    BY <2>2, <2>3
  <2> QED BY <2>2, <2>4 DEF Seen
<1>4. Tidy(regions, seen)
  BY <1>2, <1>3 DEF RegionsTrue, Tidy
<1>5. Tidy(looked, seen) /\ Alikes(looked, regions)
  BY <1>4, RegionLooked
<1>6. Mapped(looked, l) = Mapped(regions, l)
  BY <1>4, <1>5, MappedAlike
<1>7. /\ entry \in RegionType /\ entry.index = entry.tag /\ entry.tag = PageOf(l)
      /\ entry.access_map \subseteq seen /\ Mapped(regions, l).prefetch_map \subseteq entry.prefetch_map
  <2> DEFINE m == Mapped(regions, l)
  <2>1. m \in RegionType /\ m.index = m.tag /\ m.tag = PageOf(l) /\ m.access_map \subseteq seen
    BY <1>4, MappedType
  <2>2. CASE tracked
    <3>1. entry = [m EXCEPT !.access_map = @ \cup {l}]
      BY <1>6, <2>2
    <3> HIDE DEF m, entry, seen
    <3>2. /\ entry.index = m.index /\ entry.tag = m.tag /\ entry.prefetch_map = m.prefetch_map
          /\ entry.access_map = m.access_map \cup {l} /\ entry \in RegionType
      BY <2>1, <3>1 DEF RegionType
    <3> QED BY <1>3, <2>1, <3>2 DEF m
  <2>3. CASE ~tracked
    <3>1. m = Region(l)
      BY <1>4, <2>3, RegionFound
    <3> QED BY <2>1, <2>3, <3>1
  <2> QED BY <2>2, <2>3
<1> HIDE DEF looked, entry, seen
<1>8. /\ Tidy(regions', seen)
      /\ \A d : InTable(regions', d) => d = entry \/ (InTable(looked, d) /\ d.tag # entry.tag)
  BY <1>1, <1>5, <1>7, RegionFilled
<1>9. \A b \in StillTracked : Marked(regions', b)
  BY <1>2, <1>5, <1>7, <1>8, MarksKept DEF Alikes
<1>10. wanted' \in Wants /\ wanted'.lines = {} /\ wanted'.standing = StillTracked
  BY <1>1, <1>2 DEF Wants, StillTracked
<1>11. RegionsTrue'
  BY <1>8, <1>9, <1>10 DEF RegionsTrue, seen
<1>12. search' \in Searches
  <2>1. CASE tracked
    <3>1. search' = [direction |-> 1, i |-> 1, issued |-> 0, room |-> room]
      BY <1>1, <2>1 DEF NoSearch
    <3> QED BY <3>1 DEF Searches
  <2>2. CASE ~tracked
    <3>1. search' = [direction |-> 0, i |-> 1, issued |-> 0, room |-> 0]
      BY <1>1, <2>2 DEF NoSearch
    <3> QED BY <3>1 DEF Searches
  <2> QED BY <2>1, <2>2
<1>13. LineTypes'
  BY <1>1, <1>3, <1>10, <1>12 DEF LineTypes
<1>14. PrefetchesHaveReasons'
  BY <1>10 DEF PrefetchesHaveReasons
<1> QED BY <1>1, <1>11, <1>13, <1>14 DEF LineInv

(* One distance of va_ampm_lite. *)
LEMMA StepKeeps ==
  ASSUME LineInv, AmpmStep
  PROVE  LineInv'
<1> DEFINE l == history[Len(history)][2]
           d == IF search.direction = 1 THEN search.i ELSE -search.i
           n == Line(l + d)
           taken == Fresh(l, d) /\ n # l /\ search.room > 0
           table == Looked(l, d)
           seen == Seen(history)
           looked == CheckHit(table, Region(n))
           entry == [Mapped(table, n) EXCEPT !.prefetch_map = @ \cup {n}]
<1>1. /\ search.direction # 0 /\ search.i <= MAX_DISTANCE
      /\ regions' = IF taken THEN MarkPrefetch(table, n) ELSE table
      /\ search' = [search EXCEPT !.i = @ + 1, !.issued = IF taken THEN @ + 1 ELSE @,
                                  !.room = IF taken THEN @ - 1 ELSE @]
      /\ wanted' = [lines |-> {b \in {n} : taken}, standing |-> StillTracked]
      /\ UNCHANGED <<kind, tracker, active_lookahead, history>>
  BY DEF AmpmStep
<1>2. /\ history \in AccessLists /\ wanted \in Wants /\ search \in Searches
      /\ kind = "va_ampm_lite" /\ Len(history) > 0 /\ RegionsTrue /\ Tidy(regions, seen)
  BY <1>1 DEF LineInv, LineTypes, RegionsTrue
<1>3. l \in LineNumbers /\ l \in Int
  <2>1. Len(history) \in DOMAIN history
    BY <1>2 DEF AccessLists
  <2>2. history[Len(history)][2] \in LineNumbers
    BY <1>2, <2>1 DEF AccessLists
  <2> QED BY <2>2, LineFacts
<1>4. d \in (1 .. MAX_DISTANCE) \cup {-k : k \in 1 .. MAX_DISTANCE} /\ d \in Int
  <2>1. search.i \in 1 .. MAX_DISTANCE
    BY <1>1, <1>2, LineFacts DEF Searches
  <2> QED BY <2>1
<1> HIDE DEF d
<1>5. n \in LineNumbers /\ Line(l - d) \in LineNumbers /\ Line(l - 2 * d) \in LineNumbers
  <2>1. l + d \in Int /\ l - d \in Int /\ l - 2 * d \in Int
    BY <1>3, <1>4
  <2> QED BY <2>1, LineFacts
<1> HIDE DEF l, seen
<1>6. Tidy(table, seen) /\ Alikes(table, regions)
  BY <1>2, <1>3, <1>4, LookedTidy
<1> HIDE DEF n, table
<1>7. Tidy(looked, seen) /\ Alikes(looked, table)
  BY <1>5, <1>6, RegionLooked
<1>8. Mapped(table, n) = Mapped(regions, n)
  BY <1>2, <1>5, <1>6, MappedAlike
<1>9. /\ entry \in RegionType /\ entry.index = entry.tag /\ entry.tag = PageOf(n)
      /\ entry.access_map \subseteq seen /\ n \in entry.prefetch_map
      /\ Mapped(regions, n).prefetch_map \subseteq entry.prefetch_map
  <2> DEFINE m == Mapped(regions, n)
  <2>1. m \in RegionType /\ m.index = m.tag /\ m.tag = PageOf(n) /\ m.access_map \subseteq seen
    BY <1>2, <1>5, MappedType
  <2>2. entry = [m EXCEPT !.prefetch_map = @ \cup {n}]
    BY <1>8
  <2> HIDE DEF m, entry
  <2>3. /\ entry.index = m.index /\ entry.tag = m.tag /\ entry.access_map = m.access_map
        /\ entry.prefetch_map = m.prefetch_map \cup {n} /\ entry \in RegionType
    BY <1>5, <2>1, <2>2 DEF RegionType
  <2> QED BY <2>1, <2>3 DEF m
<1> HIDE DEF looked, entry
<1>10. wanted' \in Wants /\ wanted'.lines = {b \in {n} : taken} /\ wanted'.standing = StillTracked
  <2>1. StillTracked \subseteq LineNumbers
    BY <1>2 DEF StillTracked, Wants
  <2> HIDE DEF taken
  <2> QED BY <1>1, <1>5, <2>1 DEF Wants
<1>11. RegionsTrue'
  <2>1. CASE taken
    <3>1. regions' = Fill(looked, entry)
      BY <1>1, <2>1 DEF MarkPrefetch, looked, entry
    <3>2. /\ Tidy(regions', seen)
          /\ \A x : InTable(regions', x) => x = entry \/ (InTable(looked, x) /\ x.tag # entry.tag)
      BY <1>7, <1>9, <3>1, RegionFilled
    <3>3. \A x : InTable(regions', x) => x = entry \/ (InTable(regions, x) /\ x.tag # entry.tag)
      BY <1>6, <1>7, <3>2 DEF Alikes
    <3>4. \A b \in StillTracked : Marked(regions', b)
      BY <1>2, <1>5, <1>9, <3>3, MarksKept
    <3>5. Marked(regions', n)
      BY <1>9, <3>3 DEF Marked
    <3>6. Tidy(regions', Seen(history'))
      BY <1>1, <3>2 DEF seen
    <3> HIDE DEF taken
    <3>7. \A b \in wanted'.standing \cup wanted'.lines : Marked(regions', b)
      BY <1>10, <3>4, <3>5
    <3> QED BY <3>6, <3>7 DEF RegionsTrue
  <2>2. CASE ~taken
    <3>1. regions' = table /\ wanted'.lines = {}
      BY <1>1, <1>10, <2>2
    <3>2. \A b \in StillTracked : Marked(regions', b)
      BY <1>2, <1>6, <3>1 DEF RegionsTrue, StillTracked, Marked, Alikes
    <3>3. Tidy(regions', Seen(history'))
      BY <1>1, <1>6, <3>1 DEF seen
    <3> QED BY <1>10, <3>1, <3>2, <3>3 DEF RegionsTrue
  <2> QED BY <2>1, <2>2
<1>12. search' \in Searches /\ search'.direction = search.direction
  <2>1. taken => search.room > 0
    OBVIOUS
  <2>2. /\ search.i + 1 \in Nat \ {0} /\ search.issued + 1 \in Nat
        /\ search.room > 0 => search.room - 1 \in Nat
    BY <1>2 DEF Searches
  <2> HIDE DEF taken
  <2> QED BY <1>1, <1>2, <2>1, <2>2 DEF Searches
<1>13. LineTypes'
  BY <1>1, <1>2, <1>10, <1>12 DEF LineTypes
<1>14. ASSUME taken, NEW line, line = n
       PROVE  OnAPattern(line)'
  <2>1. /\ check_cl_access(regions, Line(l - d)) /\ check_cl_access(regions, Line(l - 2 * d))
        /\ ~check_cl_prefetch(regions, n)
    BY <1>14 DEF Fresh, n
  <2>2. Line(l - d) \in seen /\ Line(l - 2 * d) \in seen
    BY <1>2, <1>5, <2>1, MappedType DEF check_cl_access
  <2>3. n \notin StillTracked
    <3> SUFFICES ASSUME n \in StillTracked
                 PROVE  FALSE
      OBVIOUS
    <3>1. Hits(regions, Region(n)) /\ Marked(regions, n)
      BY <1>2 DEF StillTracked, RegionsTrue
    <3>2. n \in Mapped(regions, n).prefetch_map
      BY <1>2, <1>5, <3>1, RegionFound DEF Marked
    <3> QED BY <2>1, <3>2 DEF check_cl_prefetch
  <2>4. n = Line(l + d)
    BY DEF n
  <2>5. l = history'[Len(history')][2] /\ seen = {history'[m][2] : m \in DOMAIN history'}
    BY <1>1 DEF l, seen, Seen
  <2>6. line \notin wanted'.standing
    BY <1>10, <1>14, <2>3
  <2> HIDE DEF taken
  <2>7. line = Line(history'[Len(history')][2] + d)
    BY <1>14, <2>4, <2>5
  <2>8. {Line(history'[Len(history')][2] - d), Line(history'[Len(history')][2] - 2 * d)}
          \subseteq {history'[m][2] : m \in DOMAIN history'}
    BY <2>2, <2>5
  <2> QED BY <1>4, <2>6, <2>7, <2>8 DEF OnAPattern
<1>15. PrefetchesHaveReasons'
  <2> HIDE DEF taken
  <2> QED BY <1>1, <1>2, <1>10, <1>14 DEF PrefetchesHaveReasons
<1> QED BY <1>1, <1>2, <1>11, <1>13, <1>15 DEF LineInv

(* The end of a direction of va_ampm_lite. *)
LEMMA TurnKeeps ==
  ASSUME LineInv, AmpmTurn
  PROVE  LineInv'
<1>1. /\ search.direction # 0 /\ UNCHANGED <<kind, tracker, active_lookahead, regions, history, wanted>>
      /\ search' = IF search.direction = 1 THEN [NoSearch EXCEPT !.direction = -1, !.room = search.room]
                   ELSE NoSearch
  BY DEF AmpmTurn
<1>2. LineTypes /\ search.room \in Nat
  BY DEF LineInv, LineTypes, Searches
<1>3. search' \in Searches
  <2>1. CASE search.direction = 1
    <3>1. search' = [direction |-> -1, i |-> 1, issued |-> 0, room |-> search.room]
      BY <1>1, <2>1 DEF NoSearch
    <3> QED BY <1>2, <3>1 DEF Searches
  <2>2. CASE search.direction # 1
    <3>1. search' = [direction |-> 0, i |-> 1, issued |-> 0, room |-> 0]
      BY <1>1, <2>2 DEF NoSearch
    <3> QED BY <3>1 DEF Searches
  <2> QED BY <2>1, <2>2
<1>4. LineTypes'
  BY <1>1, <1>2, <1>3 DEF LineTypes
<1>5. PrefetchesHaveReasons'
  BY <1>1 DEF LineInv, PrefetchesHaveReasons, OnAStride, OnAPattern, Precedes, SameIp
<1>6. (TrackerTrue <=> TrackerTrue') /\ (RegionsTrue <=> RegionsTrue')
  BY <1>1 DEF TrackerTrue, RegionsTrue
<1> QED BY <1>1, <1>4, <1>5, <1>6 DEF LineInv

LEMMA LineNextInv ==
  ASSUME LineInv, [LineNext]_lineVars
  PROVE  LineInv'
<1>1. ASSUME NEW a \in LineAccesses, NEW room \in {0, 1, 2 * AMPM_DEGREE}, LineOperate(a[1], a[2], room)
      PROVE  LineInv'
  <2>1. a[1] \in Nat /\ a[2] \in LineNumbers /\ room \in Nat
    <3>1. a \in Nat \X LineNumbers
      BY LineAssumption DEF LineNumbers
    <3>2. AMPM_DEGREE \in Nat
      BY LineFacts
    <3> QED BY <3>1, <3>2
  <2>2. kind \in {"next_line", "ip_stride", "va_ampm_lite"}
    BY DEF LineInv
  <2> QED BY <1>1, <2>1, <2>2, NextLineKeeps, StrideKeeps, AmpmKeeps
<1>2. ASSUME UNCHANGED lineVars
      PROVE  LineInv'
  <2>1. UNCHANGED <<kind, tracker, active_lookahead, regions, search, history, wanted>>
    BY <1>2 DEF lineVars
  <2>2. PrefetchesHaveReasons'
    BY <2>1 DEF LineInv, PrefetchesHaveReasons, OnAStride, OnAPattern, Precedes, SameIp
  <2>3. LineTypes' /\ (TrackerTrue <=> TrackerTrue') /\ (RegionsTrue <=> RegionsTrue')
    BY <2>1 DEF LineInv, LineTypes, TrackerTrue, RegionsTrue
  <2> QED BY <2>1, <2>2, <2>3 DEF LineInv
<1> QED BY <1>1, <1>2, CycleKeeps, StepKeeps, TurnKeeps DEF LineNext

(* What next_line, ip_stride and va_ampm_lite ask for has its reason in the      *)
(* accesses so far, whatever was thrown out of their tables in between           *)
(* (ip_stride.cc, va_ampm_lite.cc, next_line.cc).                                *)
THEOREM ReasonsHold == LineSpec => []PrefetchesHaveReasons
<1>1. LineInit => LineInv
  BY LineInitInv
<1>2. LineInv /\ [LineNext]_lineVars => LineInv'
  BY LineNextInv
<1>3. LineInv => PrefetchesHaveReasons
  BY DEF LineInv
<1> QED BY <1>1, <1>2, <1>3, PTL DEF LineSpec
===============================================================================
