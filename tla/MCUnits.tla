------------------------------- MODULE MCUnits -------------------------------
(* Instances for TLC of the sequential parts, side by side: a behaviour picks *)
(* one of them and drives it alone.                                            *)
EXTENDS LinePrefetchers, CustomPref, SignaturePath, BranchTargets, BranchDirection, Replacement, TraceReader, Simulation, AddressMapping, AgentLoop

CONSTANT Units    \* the parts this run drives
VARIABLE unit
vars == <<unit, cprefVars, sppVars, lruVars, btbVars, branchVars, replVars, traceVars, simVars, addressVars, lineVars, agentVars>>

(* A part that is not driven keeps to one of its initial states. *)
Idle ==
  /\ unit # "trace" => length = 1 /\ ~repeat
  /\ unit # "replacement" => policy = "lru" /\ match_offset_bits
  /\ unit # "simulation" => \A c \in Cpus : left[c] = Endless
  /\ unit # "address" => whole = 255 /\ geometry.ranks = 1
  /\ unit # "agent" => genome_file.state = "missing"
  /\ unit # "line_prefetchers" => kind = "next_line"

Init ==
  /\ unit \in Units
  /\ CprefInit /\ SppInit /\ LruInit /\ BtbInit /\ BranchInit /\ ReplacementInit
  /\ TraceInit /\ SimulationInit /\ AddressInit /\ LineInit /\ AgentInit
  /\ Idle

Next ==
  /\ UNCHANGED unit
  /\ \/ unit = "custom_pref" /\ CprefNext /\ UNCHANGED <<sppVars, lruVars, btbVars, branchVars, replVars, traceVars, simVars, addressVars, lineVars, agentVars>>
     \/ unit = "spp" /\ SppNext /\ UNCHANGED <<cprefVars, lruVars, btbVars, branchVars, replVars, traceVars, simVars, addressVars, lineVars, agentVars>>
     \/ unit = "lru_table" /\ LruNext /\ UNCHANGED <<cprefVars, sppVars, btbVars, branchVars, replVars, traceVars, simVars, addressVars, lineVars, agentVars>>
     \/ unit = "btb" /\ BtbNext /\ UNCHANGED <<cprefVars, sppVars, lruVars, branchVars, replVars, traceVars, simVars, addressVars, lineVars, agentVars>>
     \/ unit = "branch" /\ BranchNext /\ UNCHANGED <<cprefVars, sppVars, lruVars, btbVars, replVars, traceVars, simVars, addressVars, lineVars, agentVars>>
     \/ unit = "replacement" /\ ReplacementNext /\ UNCHANGED <<cprefVars, sppVars, lruVars, btbVars, branchVars, traceVars, simVars, addressVars, lineVars, agentVars>>
     \/ unit = "trace" /\ TraceNext /\ UNCHANGED <<cprefVars, sppVars, lruVars, btbVars, branchVars, replVars, simVars, addressVars, lineVars, agentVars>>
     \/ unit = "simulation" /\ SimulationNext /\ UNCHANGED <<cprefVars, sppVars, lruVars, btbVars, branchVars, replVars, traceVars, addressVars, lineVars, agentVars>>
     \/ unit = "address" /\ AddressNext /\ UNCHANGED <<cprefVars, sppVars, lruVars, btbVars, branchVars, replVars, traceVars, simVars, lineVars, agentVars>>
     \/ unit = "line_prefetchers" /\ LineNext /\ UNCHANGED <<cprefVars, sppVars, lruVars, btbVars, branchVars, replVars, traceVars, simVars, addressVars, agentVars>>
     \/ unit = "agent" /\ AgentNext /\ UNCHANGED <<cprefVars, sppVars, lruVars, btbVars, branchVars, replVars, traceVars, simVars, addressVars, lineVars>>

Spec == Init /\ [][Next]_vars

-------------------------------------------------------------------------------
MCGenome(p, n, d, t) == [pattern_type |-> p, degree |-> n, distance |-> d, throttle_mode |-> t]
MCGenomes == {MCGenome("STRIDE", 2, 1, "HYBRID"), MCGenome("DELTA", 2, 2, "ACC_AWARE"),
              MCGenome("NEXT_LINE", 2, 1, "BW_AWARE")}
MCAccesses == ({1} \X {0, 1, 2, 3}) \cup ({2} \X {1})

(* Two pages of eight blocks, four slots of the filter, two sets of PT. *)
MCPageTag == [p \in 0 .. 2 |-> p]
MCSignatureHash == [s \in 0 .. 31 |-> s % 2]
MCQuotient == [l \in 0 .. 15 |-> l % 4]
MCRemainder == [l \in 0 .. 15 |-> l \div 4]
MCSppLines == 0 .. 15
MCSppSteps == {-1, 1, 2, 7}
MCSppEvicted == {4}

(* Three pages of four blocks; two addresses that ip_stride takes for one. *)
MCLineAccesses == {<<4, 3>>, <<4, 4>>, <<5, 5>>, <<5, 6>>, <<8, 5>>, <<12, 8>>}

(* Calls of two sizes in different trackers, two functions, a conditional branch. *)
MCBtbInstr(ip, r, w, t) ==
  [ip |-> ip, target |-> t,
   instr |-> [reads |-> r, writes |-> w, memory |-> "sp" \in w, is_branch |-> TRUE, taken |-> TRUE]]
MCBtbProgram == {MCBtbInstr(8, {"sp", "ip"}, {"sp", "ip"}, 32),
                 MCBtbInstr(12, {"sp", "ip", "rax"}, {"sp", "ip"}, 48),
                 MCBtbInstr(16, {"ip", "flags"}, {"ip"}, 8),
                 MCBtbInstr(36, {"sp"}, {"sp", "ip"}, 0), MCBtbInstr(52, {"sp"}, {"sp", "ip"}, 0),
                 MCBtbInstr(20, {"ip"}, {"ip"}, 8)}
MCCallSize == [ip \in {i.ip : i \in MCBtbProgram} |-> CASE ip = 8 -> 5 [] ip = 12 -> 2 [] OTHER -> 0]
MCExclusiveOr(a, b) == a ^^ b

(* Two branches and an instruction that shares the address of neither. *)
MCBranchStream == [ip : {5, 10}, branch : {TRUE}, taken : BOOLEAN]
                  \cup {[ip |-> 3, branch |-> FALSE, taken |-> FALSE]}
MCHistoryLengths == <<0, 1, 3, 4, 5, 8>>

(* Three blocks of a set of two ways, which leads the duel and is sampled. *)
MCAccess(l, i, t) == [line |-> l, ip |-> i, type |-> t]
MCReplacementAccesses ==
  {MCAccess(l, 1, "LOAD") : l \in {0, 8}} \cup {MCAccess(16, 1, "PREFETCH"), MCAccess(8, 0, "WRITE")}

(* Two processors at different clocks and a shared cache; traces that end or repeat. *)
MCPeriod == [o \in {"cpu0", "cpu1", "cache"} |-> CASE o = "cpu0" -> 2 [] o = "cpu1" -> 3 [] OTHER -> 3]
MCPhases == <<[is_warmup |-> TRUE, length |-> 1], [is_warmup |-> FALSE, length |-> 2]>>
MCTraceSizes == {[c \in {"cpu0", "cpu1"} |-> IF c = "cpu0" THEN 4 ELSE 6],
                 [c \in {"cpu0", "cpu1"} |-> -1]}

(* Two memories below an address space of 256 bytes; a third that is no power of two. *)
MCGeometry(c, g, b, k, l, r) ==
  [channel_width |-> 1, prefetch_size |-> 2, channels |-> c, bankgroups |-> g, banks |-> b,
   columns |-> k, ranks |-> l, rows |-> r]
MCGeometries == {MCGeometry(2, 2, 2, 4, 1, 4), MCGeometry(1, 2, 4, 2, 2, 8), MCGeometry(1, 3, 2, 2, 1, 8)}
MCAddressValues == {0, 1, 77, 255}
MCExtents == {<<5, 2>>, <<6, 0>>, <<3, 1>>, <<8, 4>>}
MCDeltas == {-1, 3}

(* Genomes that name all fields or one; 9 stands for a text that is no number. *)
MCAgentDefault == [pattern_type |-> "DELTA", degree |-> 4]
MCPrefetcherDefault == [pattern_type |-> "NEXT_LINE", degree |-> 1]
MCAgentGenomes == {[pattern_type |-> "STRIDE", degree |-> 2], [degree |-> 2], [pattern_type |-> "STRIDE", degree |-> 9]}
MCUnparsable == {9}

===============================================================================
