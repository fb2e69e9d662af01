------------------------------ MODULE AgentLoop ------------------------------
(* chia_agent/agent_loop.py: the search writes a genome for the simulator,     *)
(* runs it on every trace, rewrites the history and asks for another genome.   *)
(* It may die between any two steps and is started again on what it left in    *)
(* its two files. A genome is the function of the fields its JSON names; a     *)
(* measurement is the configuration it was made under.                         *)
EXTENDS Naturals, Sequences

CONSTANTS
  AgentGenomes,      \* what the service may answer: functions on some of the fields
  AgentDefault,      \* the genome of a search that finds none in its file
  PrefetcherDefault, \* the configuration of a prefetcher that reads no field
  Unparsable,        \* the values of a numeric field stoul() throws at
  NUM_GENERATIONS, AgentTraces, MAX_RETRIES,
  MaxStarts,         \* bound: how often the script is started
  Failed             \* the result of a simulation that did not end well

ASSUME AgentAssumption == AgentTraces \in Nat /\ NUM_GENERATIONS \in Nat

VARIABLES
  genome_file, history_file,    \* a file is missing, broken (its writing was cut off) or whole
  main,              \* where main() is: the step it takes next, or "down"
  search_history, current_genome, gen, trace_results, attempt,
  starts,
  written            \* the records of every history_file that was completed since one was lost
memory == <<search_history, current_genome, gen, trace_results, attempt>>
agentVars == <<genome_file, history_file, main, memory, starts, written>>

Missing == [state |-> "missing", content |-> <<>>]
Broken == [state |-> "broken", content |-> <<>>]
Whole(data) == [state |-> "whole", content |-> data]
read_json(file, default) == IF file.state = "whole" THEN file.content ELSE default

(* custom_pref::load_genome: fields the file does not name keep their default. *)
Loads(genome) == "degree" \in DOMAIN genome => genome["degree"] \notin Unparsable
LoadedConfiguration(genome) ==
  [f \in DOMAIN PrefetcherDefault |-> IF f \in DOMAIN genome THEN genome[f] ELSE PrefetcherDefault[f]]

AgentInit ==
  /\ genome_file = Missing \/ \E genome \in AgentGenomes : genome_file = Whole(genome)
  /\ history_file = Missing /\ written = <<>>
  /\ main = "down" /\ starts = 0
  /\ search_history = <<>> /\ current_genome = AgentDefault /\ gen = 1
  /\ trace_results = <<>> /\ attempt = 0

(* The script is started; nobody moves a broken file away.                     *)
StartSearch ==
  /\ main = "down" /\ starts < MaxStarts
  /\ starts' = starts + 1
  /\ search_history' = read_json(history_file, <<>>)
  /\ current_genome' = read_json(genome_file, AgentDefault)
  /\ written' = IF history_file.state = "broken" THEN <<>> ELSE written
  /\ main' = "open genome" /\ gen' = 1 /\ trace_results' = <<>> /\ attempt' = 0
  /\ UNCHANGED <<genome_file, history_file>>

(* write_json truncates the file it is about to fill.                          *)
OpenGenome ==
  /\ main = "open genome" /\ main' = "dump genome"
  /\ genome_file' = Broken
  /\ UNCHANGED <<history_file, memory, starts, written>>

DumpGenome ==
  /\ main = "dump genome" /\ main' = "simulate"
  /\ genome_file' = Whole(current_genome)
  /\ trace_results' = <<>>
  /\ UNCHANGED <<history_file, search_history, current_genome, gen, attempt, starts, written>>

(* One trace. A run that fails leaves zeroes, whatever the log still says.     *)
RunTrace ==
  /\ main = "simulate" /\ Len(trace_results) < AgentTraces
  /\ \/ trace_results' = Append(trace_results, Failed)
     \/ /\ Loads(genome_file.content)
        /\ trace_results' = Append(trace_results, LoadedConfiguration(genome_file.content))
  /\ UNCHANGED <<genome_file, history_file, main, search_history, current_genome, gen, attempt, starts, written>>

Valid_All(results) == DOMAIN results    \* mutant
Valid(results) == {t \in DOMAIN results : results[t] # Failed}
run_record == [generation |-> gen, genome |-> current_genome,
               average_of |-> Valid(trace_results), trace_results |-> trace_results]

OpenHistory ==
  /\ main = "simulate" /\ Len(trace_results) = AgentTraces
  /\ main' = "dump history"
  /\ search_history' = Append(search_history, run_record)
  /\ history_file' = Broken
  /\ UNCHANGED <<genome_file, current_genome, gen, trace_results, attempt, starts, written>>

DumpHistory ==
  /\ main = "dump history"
  /\ history_file' = Whole(search_history)
  /\ written' = Append(written, search_history[Len(search_history)])
  /\ main' = IF gen < NUM_GENERATIONS THEN "ask" ELSE "down"
  /\ attempt' = 0
  /\ UNCHANGED <<genome_file, search_history, current_genome, gen, trace_results, starts>>

NextGeneration(genome) ==
  /\ current_genome' = genome
  /\ gen' = gen + 1
  /\ main' = "open genome"
  /\ UNCHANGED <<genome_file, history_file, search_history, trace_results, attempt, starts, written>>

(* mutate_genome: an answer, an answer that is of no use, or a busy service,   *)
(* which is asked MAX_RETRIES times.                                           *)
Answered == main = "ask" /\ \E genome \in AgentGenomes : NextGeneration(genome)
Refused == main = "ask" /\ NextGeneration(current_genome)
Busy ==
  /\ main = "ask" /\ attempt + 1 < MAX_RETRIES
  /\ attempt' = attempt + 1
  /\ UNCHANGED <<genome_file, history_file, main, search_history, current_genome, gen, trace_results, starts, written>>

(* The process dies: only the files are left.                                  *)
Crash ==
  /\ main # "down" /\ starts < MaxStarts
  /\ main' = "down"
  /\ search_history' = <<>> /\ current_genome' = AgentDefault /\ gen' = 1
  /\ trace_results' = <<>> /\ attempt' = 0
  /\ UNCHANGED <<genome_file, history_file, starts, written>>

AgentNext ==
  \/ StartSearch \/ OpenGenome \/ DumpGenome \/ RunTrace \/ OpenHistory \/ DumpHistory
  \/ Answered \/ Refused \/ Busy \/ Crash

AgentSpec == AgentInit /\ [][AgentNext]_agentVars

-------------------------------------------------------------------------------
(* What was measured is what the record says: the simulator read the genome    *)
(* of the record, in every trace the averages count, across crashes between    *)
(* the two files.                                                              *)
IsTrue(r) ==
  /\ r.average_of = {t \in 1 .. AgentTraces : r.trace_results[t] # Failed}
  /\ \A t \in r.average_of : r.trace_results[t] = LoadedConfiguration(r.genome)
RecordsAreTrue == \A i \in DOMAIN written : IsTrue(written[i])

(* The history keeps every record of every run since the last write that was   *)
(* cut off: only a crash between the opening of the file and the end of the    *)
(* dump (agent_loop.py:34) loses any, and then it loses all.                   *)
SearchIsRecorded ==
  /\ RecordsAreTrue
  /\ history_file.state = "missing" => written = <<>>
  /\ history_file.state = "whole" => history_file.content = written
  /\ main = "ask" => search_history = written /\ history_file = Whole(written)
===============================================================================
