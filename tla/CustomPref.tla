------------------------------ MODULE CustomPref ------------------------------
(***************************************************************************)
(* The CHIA prefetcher (src/prefetcher/custom_pref/custom_pref.h): a       *)
(* genome loaded at the start chooses a pattern (next line, stride or      *)
(* delta), a degree, a distance and a throttle; every access of the cache  *)
(* trains the tables and asks for `current_degree' lines.                  *)
(*                                                                         *)
(* The cache around it is abstract: it may refuse prefetches when its      *)
(* queue is full, and an access to a line it prefetched is useful, once.   *)
(* Block numbers wrap at LINES, as the unsigned ones of the code do.       *)
(***************************************************************************)
EXTENDS Integers, Sequences

CONSTANTS
  LINES,          \* number of block numbers
  Accesses,       \* the pairs <<ip, line>> the program may touch
  Genomes,        \* what active_genome.json may hold
  MSHR_SIZE,
  Occupancies,    \* MSHR occupancies seen by the throttle
  ACCURACY_AFTER, \* prefetches before the accuracy counts; 100 in the code
  MaxAccesses     \* bound: accesses of one behaviour

(* The values the members of Genome are declared with: no file was found. *)
DefaultGenome == [pattern_type |-> "NEXT_LINE", degree |-> 1, distance |-> 1,
                  throttle_mode |-> "NONE"]

ASSUME CustomPrefAssumption ==
  /\ LINES \in Nat \ {0} /\ MSHR_SIZE \in Nat \ {0} /\ ACCURACY_AFTER \in Nat
  /\ \A a \in Accesses : a[2] \in 0 .. LINES - 1
  /\ \A g \in Genomes : g.degree \in Nat \ {0} /\ g.distance \in Nat

VARIABLES
  cpref,      \* the members of custom_pref; `loaded': prefetcher_initialize has run
  prefetched, \* lines in the cache that a prefetch brought and nothing touched
  asked,      \* [ip, lines]: the prefetch_line calls of the last access; the accesses
  touched     \* touched[ip]: lines this ip accessed, after the 0 of a fresh entry

cprefVars == <<cpref, prefetched, asked, touched>>

Ips == {a[1] : a \in Accesses}
Wrap(line) == line % LINES
Throttles(modes) == cpref.active_genome.throttle_mode \in modes
pattern_type == cpref.active_genome.pattern_type

CprefInit ==
  /\ cpref = [active_genome |-> DefaultGenome, current_degree |-> 1, loaded |-> FALSE,
              total_pref_issued |-> 0, total_pref_useful |-> 0,
              stride_table |-> [i \in Ips |-> [last_addr |-> 0, last_stride |-> 0, confidence |-> 0]],
              delta_table |-> [i \in Ips |-> [last_addr |-> 0, delta_history |-> 0]]]
  /\ prefetched = {}
  /\ asked = [ip |-> 0, lines |-> <<>>, accesses |-> 0]
  /\ touched = [i \in Ips |-> <<0>>]

(* prefetcher_initialize: the file gives a genome, or is missing. *)
load_genome ==
  /\ ~cpref.loaded
  /\ \/ \E g \in Genomes :
          cpref' = [cpref EXCEPT !.active_genome = g, !.current_degree = g.degree, !.loaded = TRUE]
     \/ cpref' = [cpref EXCEPT !.loaded = TRUE]
  /\ UNCHANGED <<prefetched, asked, touched>>

(* ACC_AWARE and HYBRID halve the degree while under a quarter was useful. *)
AccuracyDegree(useful) ==
  IF cpref.total_pref_issued > ACCURACY_AFTER /\ Throttles({"ACC_AWARE", "HYBRID"})
  THEN LET degree == cpref.active_genome.degree
       IN  IF 4 * useful >= cpref.total_pref_issued THEN degree
           ELSE IF degree < 2 THEN 1 ELSE degree \div 2
  ELSE cpref.current_degree

(* BW_AWARE and HYBRID look at the MSHR, and overwrite the degree so far. *)
BandwidthDegree(occupancy, degree) ==
  IF ~Throttles({"BW_AWARE", "HYBRID"}) THEN degree
  ELSE IF 5 * occupancy > 2 * MSHR_SIZE THEN 1
  ELSE cpref.active_genome.degree

TrainStride_KeepsConfidence(entry, line) ==    \* mutant
  LET stride == line - entry.last_addr
      same == stride = entry.last_stride /\ stride # 0
      up == IF entry.confidence < 3 THEN entry.confidence + 1 ELSE 3
  IN  [last_addr |-> line, last_stride |-> stride,
       confidence |-> IF same THEN up ELSE entry.confidence]

TrainStride(entry, line) ==
  LET stride == line - entry.last_addr
      same == stride = entry.last_stride /\ stride # 0
      up == IF entry.confidence < 3 THEN entry.confidence + 1 ELSE 3
  IN  [last_addr |-> line, last_stride |-> stride,
       confidence |-> IF same THEN up ELSE 0]

TrainDelta(entry, line) ==
  [last_addr |-> line, delta_history |-> line - entry.last_addr]

(* The multiples of a stride that are asked for, none while learning. *)
Ahead(line, step, first, degree) ==
  [i \in 1 .. degree |-> Wrap(line + step * (i + first))]

CandidatesOf(ip, line, stride, delta, degree) ==
  LET distance == cpref.active_genome.distance
  IN  CASE pattern_type = "STRIDE" ->
             IF stride.confidence >= 2
             THEN Ahead(line, stride.last_stride, distance, degree) ELSE <<>>
        [] pattern_type = "DELTA" ->
             IF delta.delta_history = cpref.delta_table[ip].delta_history
                /\ delta.delta_history # 0
             THEN Ahead(line, delta.delta_history, 0, degree) ELSE <<>>
        [] OTHER -> [i \in 1 .. degree |-> Wrap(line + i * distance)]

(* prefetcher_cache_operate. A prefetch counts as issued even when refused. *)
CprefOperate(ip, line, occupancy) ==
  LET useful == cpref.total_pref_useful + IF line \in prefetched THEN 1 ELSE 0
      degree == BandwidthDegree(occupancy, AccuracyDegree(useful))
      stride == TrainStride(cpref.stride_table[ip], line)
      delta == TrainDelta(cpref.delta_table[ip], line)
      lines == CandidatesOf(ip, line, stride, delta, degree)
  IN  /\ cpref.loaded /\ asked.accesses < MaxAccesses
      /\ cpref' = [cpref EXCEPT
           !.total_pref_useful = useful,
           !.current_degree = degree,
           !.total_pref_issued = @ + Len(lines),
           !.stride_table = IF pattern_type = "STRIDE" THEN [@ EXCEPT ![ip] = stride] ELSE @,
           !.delta_table = IF pattern_type = "DELTA" THEN [@ EXCEPT ![ip] = delta] ELSE @]
      /\ \E accepted \in 0 .. Len(lines) :
           prefetched' = (prefetched \ {line}) \cup {lines[i] : i \in 1 .. accepted}
      /\ asked' = [ip |-> ip, lines |-> lines, accesses |-> asked.accesses + 1]
      /\ touched' = [touched EXCEPT ![ip] = Append(@, line)]

(* The cache evicts a prefetched line that nothing touched. *)
CprefEvict(line) ==
  /\ prefetched' = prefetched \ {line}
  /\ UNCHANGED <<cpref, asked, touched>>

CprefNext ==
  \/ load_genome
  \/ \E a \in Accesses, o \in Occupancies : CprefOperate(a[1], a[2], o)
  \/ \E line \in prefetched : CprefEvict(line)

CprefSpec == CprefInit /\ [][CprefNext]_cprefVars

-------------------------------------------------------------------------------
(* The last n steps of a sequence of lines are one same stride, not zero. *)
Repeats(s, n) ==
  LET stride(k) == s[Len(s) - k] - s[Len(s) - k - 1]
  IN  Len(s) > n /\ stride(0) # 0 /\ \A k \in 1 .. n - 1 : stride(k) = stride(0)
LastStep(s) == s[Len(s)] - s[Len(s) - 1]

(* What the tables are to compute, stated on the whole history of the ip: a *)
(* stride is followed once it came three times in a row, a delta once it     *)
(* came twice, whatever other instructions access in between; the degree     *)
(* never exceeds the one of the genome (prefetcher_cache_operate; a fresh    *)
(* entry acts as if line 0 had been accessed first).                         *)
PrefetchesFollowHistory ==
  asked.accesses > 0 =>
    LET s == touched[asked.ip]
        line == s[Len(s)]
        genome == cpref.active_genome
        n == cpref.current_degree
    IN  /\ n \in 1 .. genome.degree
        /\ asked.lines =
             CASE pattern_type = "STRIDE" ->
                    IF Repeats(s, 3) THEN Ahead(line, LastStep(s), genome.distance, n) ELSE <<>>
               [] pattern_type = "DELTA" ->
                    IF Repeats(s, 2) THEN Ahead(line, LastStep(s), 0, n) ELSE <<>>
               [] OTHER -> [i \in 1 .. n |-> Wrap(line + genome.distance * i)]
===============================================================================
