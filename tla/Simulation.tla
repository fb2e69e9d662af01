------------------------------- MODULE Simulation -------------------------------
(***************************************************************************)
(* The simulation loop (src/src/champsim.cc, operable.cc): main, do_phase  *)
(* and do_cycle over processors and other clocked parts (caches, DRAM),    *)
(* with their hooks for the begin and the end of a phase.                  *)
(*                                                                         *)
(* A processor is what the loop sees of it: an input queue filled from its *)
(* trace and a count of retired instructions.  Times are relative to       *)
(* global_clock.                                                           *)
(***************************************************************************)
EXTENDS Positions
LOCAL INSTANCE FiniteSetsExt

CONSTANTS
  Cpus, Devices,        \* the operables
  clock_period,        \* [Cpus \cup Devices -> picoseconds]
  Phases,              \* sequence of [is_warmup, length]
  TraceSizes,          \* [Cpus -> instructions in its trace], for each run considered
  IN_QUEUE_SIZE, RETIRE_WIDTH,
  DEADLOCK_CYCLE,
  livelock_period, livelock_instrs   \* a processor retiring no more than this in a period panics

Operables == Cpus \cup Devices
Endless == -1    \* a repeatable trace never ends

ASSUME SimulationAssumption ==
  /\ Cpus # {} /\ Cpus \cap Devices = {} /\ IsFiniteSet(Operables)
  /\ clock_period \in [Operables -> Nat \ {0}]
  /\ Phases \in Seq([is_warmup : BOOLEAN, length : Nat]) /\ Phases # <<>>
  /\ TraceSizes \subseteq [Cpus -> Nat \cup {Endless}]
  /\ {IN_QUEUE_SIZE, RETIRE_WIDTH, DEADLOCK_CYCLE, livelock_period} \subseteq Nat \ {0}

VARIABLES
  left,             \* instructions left in each trace; a trace that repeats has none of this
  phase,            \* index of the phase, Len(Phases) + 1 at the end
  running,          \* inside the loop of do_phase
  aborted,
  ahead,            \* current_time - global_clock.now()
  input_queue, num_retired,
  phase_complete, stalled_cycle, livelock_timer, livelock_instr,
  begin_phase_instr,
  events,           \* sim_stats of the others, as one count of a phase
  roi_stats,        \* of the operables
  results           \* the statistics of each phase that is no warmup
simVars == <<left, phase, running, aborted, ahead, input_queue, num_retired, phase_complete,
             stalled_cycle, livelock_timer, livelock_instr, begin_phase_instr, events,
             roi_stats, results>>

TracesEnd(l) == \E c \in Cpus : l[c] = 0
sim_instr(retired, c) == retired[c] - begin_phase_instr[c]
TotalOf(f, S) == MapThenSumSet(LAMBDA c : f[c], S)

SimulationInit ==
  /\ left \in TraceSizes
  /\ phase = 1 /\ running = FALSE /\ aborted = FALSE
  /\ ahead = [o \in Operables |-> 0]
  /\ input_queue = [c \in Cpus |-> 0] /\ num_retired = [c \in Cpus |-> 0]
  /\ phase_complete = [c \in Cpus |-> FALSE]
  /\ stalled_cycle = 0 /\ livelock_timer = 0 /\ livelock_instr = [c \in Cpus |-> 0]
  /\ begin_phase_instr = [c \in Cpus |-> 0]
  /\ events = [o \in Devices |-> 0]
  /\ roi_stats = [o \in Operables |-> 0]
  /\ results = <<>>

(* The head of do_phase: begin_phase of every operable. *)
BeginPhase ==
  /\ phase <= Len(Phases) /\ ~running /\ ~aborted
  /\ running' = TRUE
  /\ begin_phase_instr' = num_retired
  /\ events' = [o \in Devices |-> 0]
  /\ roi_stats' = [o \in Operables |-> IF o \in Devices THEN 0 ELSE roi_stats[o]]
  /\ phase_complete' = [c \in Cpus |-> FALSE]
  /\ stalled_cycle' = 0 /\ livelock_timer' = 0 /\ livelock_instr' = [c \in Cpus |-> 0]
  /\ UNCHANGED <<left, phase, aborted, ahead, input_queue, num_retired, results>>

(* operate_on: an operable operates until it has caught up with the clock. *)
time_quantum == Least({clock_period[o] : o \in Operables})
Operations(o) ==
  LET behind == time_quantum - ahead[o]
  IN  IF behind <= 0 THEN 0 ELSE (behind + clock_period[o] - 1) \div clock_period[o]

(* The end of do_cycle: the input queues are filled up from the traces. *)
Reads(c, queue) ==
  LET room == IN_QUEUE_SIZE - queue
  IN  IF left[c] = Endless THEN room ELSE Lesser(room, left[c])

EndPhase_AnyCpu(finishes, retired, seen) ==    \* mutant
  roi_stats' = [o \in Operables |->
                  IF finishes = {} THEN roi_stats[o]
                  ELSE IF o \in Devices THEN seen[o] ELSE sim_instr(retired, o)]

(* end_phase(cpu) of every operable, for each processor that finishes: a processor *)
(* takes its ROI at its own end only, the others at every end.                     *)
EndPhase(finishes, retired, seen) ==
  roi_stats' = [o \in Operables |->
                  CASE o \in finishes -> sim_instr(retired, o)
                    [] o \in Devices /\ finishes # {} -> seen[o]
                    [] OTHER -> roi_stats[o]]

(* One turn of the loop of do_phase. *)
Quantum(retires, works) ==
  LET retired == [c \in Cpus |-> num_retired[c] + retires[c]]
      progress == TotalOf(retires, Cpus) + Cardinality(works)
      seen == [o \in Devices |-> events[o] + IF o \in works THEN 1 ELSE 0]
      queues == [c \in Cpus |-> input_queue[c] - retires[c]]
      reads == [c \in Cpus |-> Reads(c, queues[c])]
      remaining == [c \in Cpus |-> IF left[c] = Endless THEN Endless ELSE left[c] - reads[c]]
      stalled == IF progress = 0 THEN stalled_cycle + 1 ELSE 0
      checks == livelock_timer + 1 >= livelock_period
      slow == {c \in Cpus : sim_instr(retired, c) - livelock_instr[c] <= livelock_instrs}
      aborts == stalled >= DEADLOCK_CYCLE \/ (checks /\ slow # {})
      complete == [c \in Cpus |-> \/ phase_complete[c] \/ TracesEnd(remaining)
                                  \/ sim_instr(retired, c) >= Phases[phase].length]
      finishes == {c \in Cpus : complete[c] # phase_complete[c]}
  IN  /\ running /\ ~aborted /\ \E c \in Cpus : ~phase_complete[c]
      /\ \A c \in Cpus : retires[c] <= input_queue[c] /\ retires[c] <= RETIRE_WIDTH * Operations(c)
      /\ works \subseteq {o \in Devices : Operations(o) > 0}
      /\ ahead' = [o \in Operables |-> ahead[o] + Operations(o) * clock_period[o] - time_quantum]
      /\ num_retired' = retired
      /\ events' = seen
      /\ input_queue' = [c \in Cpus |-> queues[c] + reads[c]]
      /\ left' = remaining
      /\ stalled_cycle' = stalled
      /\ livelock_timer' = IF checks THEN 0 ELSE livelock_timer + 1
      /\ livelock_instr' = IF checks THEN [c \in Cpus |-> sim_instr(retired, c)]
                           ELSE livelock_instr
      /\ aborted' = aborts
      /\ IF aborts THEN UNCHANGED <<phase_complete, roi_stats>>
         ELSE /\ phase_complete' = complete
              /\ EndPhase(finishes, retired, seen)
      /\ UNCHANGED <<phase, running, begin_phase_instr, results>>

(* The tail of do_phase, and main: the statistics of a warmup are dropped. *)
FinishPhase ==
  /\ running /\ ~aborted /\ \A c \in Cpus : phase_complete[c]
  /\ running' = FALSE /\ phase' = phase + 1
  /\ results' = IF Phases[phase].is_warmup THEN results
                ELSE Append(results, [roi |-> roi_stats, sim_events |-> events, phase |-> phase,
                                      eof |-> TracesEnd(left)])
  /\ UNCHANGED <<left, aborted, ahead, input_queue, num_retired, phase_complete, stalled_cycle,
                 livelock_timer, livelock_instr, begin_phase_instr, events, roi_stats>>

SimulationNext ==
  \/ BeginPhase
  \/ \E retires \in [Cpus -> 0 .. RETIRE_WIDTH], works \in SUBSET Devices : Quantum(retires, works)
  \/ FinishPhase

SimulationSpec == SimulationInit /\ [][SimulationNext]_simVars

-------------------------------------------------------------------------------
(* The reported region of a processor is its own: exactly the instructions from *)
(* the begin of the phase to the first quantum in which it reached the length,  *)
(* whatever it retired while the others went on; only the end of a trace may    *)
(* cut it short.  A phase lasts one quantum at least, so one of length 0 counts *)
(* as one of length 1.  A shared part reports what it did until the last one    *)
(* finished (end_phase, do_phase).                                              *)
RegionOfInterest ==
  \A i \in DOMAIN results :
    LET r == results[i]
    IN  /\ \A c \in Cpus : /\ \/ r.roi[c] < Phases[r.phase].length + RETIRE_WIDTH
                              \/ Phases[r.phase].length = 0 /\ r.roi[c] = RETIRE_WIDTH
                           /\ r.roi[c] >= Phases[r.phase].length \/ r.eof
        /\ \A o \in Devices : r.roi[o] = r.sim_events[o]
===============================================================================
