-------------------------- MODULE RegisterRenameProofs --------------------------
(***************************************************************************)
(* Proofs about RegisterRename for every value of its constants: its types,*)
(* the conservation of the physical registers, and the program order: what *)
(* an instruction reads is what the last older writer wrote, and that      *)
(* writer has completed when the instruction executes.                     *)
(***************************************************************************)
EXTENDS RegisterRename, TLAPS, SequenceTheorems, WellFoundedInduction

(* Where the loops of operate() stand between two of their steps. *)
CursorOK ==
  /\ stage = "rename" => /\ scan \in DOMAIN ROB /\ ~ROB[scan].scheduled /\ budget > 0
                         /\ operand <= Len(ROB[scan].src) + Len(ROB[scan].dst) + 1
  /\ stage = "retire" /\ operand > 1 => Retiring
  /\ stage = "retire" => /\ scan <= Len(ROB) + 1
                         /\ \A i \in 1 .. scan - 1 : ROB[i].completed
  /\ stage \notin {"retire", "rename"} => operand = 1
  /\ stage \notin {"retire", "rename", "schedule"} => scan = 1

(* An entry is scheduled, executed and completed in this order, and its      *)
(* renamed destinations are physical registers.                              *)
EntriesOK ==
  \A i \in DOMAIN ROB :
    /\ ROB[i].executed => ROB[i].scheduled
    /\ ROB[i].completed => ROB[i].executed
    /\ \A k \in DOMAIN ROB[i].dst : DestRenamed(i, k) => ROB[i].dst[k] \in PhysReg

(* A register in use knows an architectural register that is mapped, and     *)
(* what is committed is mapped: the frontend RAT never forgets.              *)
MappingOK ==
  /\ \A p \in PhysReg : ~IsFree(p) =>
       /\ physical_register_file[p].arch_reg_index \in ArchReg
       /\ frontend_RAT[physical_register_file[p].arch_reg_index] # NoReg
  /\ \A r \in ArchReg : backend_RAT[r] # NoReg => frontend_RAT[r] # NoReg

Inv == TypeOK /\ CursorOK /\ EntriesOK
RegInv == RegistersConserved /\ MappingOK

--------------------------------------------------------------------------------
(* Lemmas about the helpers *)

LEMMA PhysIsArch == PhysReg \subseteq ArchReg /\ NoReg \notin ArchReg /\ NoReg \notin PhysReg
BY RenameAssumption DEF PhysReg, ArchReg, NoReg

LEMMA LatencyType == ASSUME NEW c \in Nat PROVE Latency(c) \in Nat
BY DEF Latency

(* A ROB rewritten entry by entry is still a ROB of the same length. *)
LEMMA RobRewrite ==
  ASSUME ROB \in Seq(Entry), NEW new, DOMAIN new = DOMAIN ROB,
         new = [i \in DOMAIN ROB |-> new[i]], \A i \in DOMAIN ROB : new[i] \in Entry
  PROVE  new \in Seq(Entry) /\ Len(new) = Len(ROB)
<1>1. DOMAIN ROB = 1 .. Len(ROB) /\ Len(ROB) \in Nat
  OBVIOUS
<1> QED BY <1>1

(* One entry of the ROB changes. *)
LEMMA RobUpdate ==
  ASSUME ROB \in Seq(Entry), NEW i \in DOMAIN ROB, NEW e \in Entry,
         ROB' = [ROB EXCEPT ![i] = e]
  PROVE  /\ ROB' \in Seq(Entry) /\ Len(ROB') = Len(ROB) /\ DOMAIN ROB' = DOMAIN ROB
         /\ ROB'[i] = e
         /\ \A j \in DOMAIN ROB : j # i => ROB'[j] = ROB[j]
<1>1. i \in 1 .. Len(ROB)
  OBVIOUS
<1> QED BY <1>1, ExceptSeq

(* An operand of an entry is renamed in place. *)
LEMMA OperandUpdate ==
  ASSUME NEW s \in Seq(ArchReg), NEW k \in DOMAIN s, NEW r \in ArchReg
  PROVE  /\ [s EXCEPT ![k] = r] \in Seq(ArchReg)
         /\ Len([s EXCEPT ![k] = r]) = Len(s)
         /\ DOMAIN [s EXCEPT ![k] = r] = DOMAIN s
         /\ [s EXCEPT ![k] = r][k] = r
         /\ \A j \in DOMAIN s : j # k => [s EXCEPT ![k] = r][j] = s[j]
<1>1. k \in 1 .. Len(s) /\ DOMAIN s = 1 .. Len(s)
  OBVIOUS
<1> QED BY <1>1, ExceptSeq

LEMMA EntryTypes ==
  ASSUME TypeOK, NEW i \in DOMAIN ROB
  PROVE  /\ ROB[i] \in Entry /\ i \in 1 .. Len(ROB) /\ Len(ROB) \in Nat
         /\ ROB[i].src \in Seq(ArchReg) /\ Len(ROB[i].src) \in Nat
         /\ ROB[i].dst \in Seq(ArchReg) /\ Len(ROB[i].dst) \in Nat
         /\ DOMAIN ROB[i].dst = 1 .. Len(ROB[i].dst)
         /\ DOMAIN ROB[i].src = 1 .. Len(ROB[i].src)
<1>1. ROB[i] \in Entry /\ i \in 1 .. Len(ROB) /\ Len(ROB) \in Nat
  BY DEF TypeOK
<1>2. ROB[i].src \in Seq(ArchReg) /\ ROB[i].dst \in Seq(ArchReg)
  BY <1>1 DEF Entry
<1> QED BY <1>1, <1>2

(* The free list loses its head: a register that was free once. *)
LEMMA TakeFree ==
  ASSUME TypeOK, FreeOnce, free_registers # <<>>, free_registers' = Tail(free_registers)
  PROVE  /\ Head(free_registers) \in PhysReg
         /\ IsFree(Head(free_registers))
         /\ free_registers' \in Seq(PhysReg)
         /\ FreeOnce'
         /\ \A p \in PhysReg : IsFree(p)' <=> IsFree(p) /\ p # Head(free_registers)
<1> DEFINE s == free_registers
<1>1. /\ s \in Seq(PhysReg) /\ Len(s) \in Nat \ {0} /\ Head(s) = s[1]
      /\ Tail(s) \in Seq(PhysReg) /\ Len(Tail(s)) = Len(s) - 1
      /\ DOMAIN s = 1 .. Len(s) /\ DOMAIN Tail(s) = 1 .. Len(s) - 1
      /\ \A n \in 1 .. Len(s) - 1 : Tail(s)[n] = s[n + 1]
  BY DEF TypeOK
<1>2. Head(s) \in PhysReg /\ IsFree(Head(s))
  BY <1>1 DEF IsFree
<1>3. FreeOnce'
  <2> SUFFICES ASSUME NEW m \in 1 .. Len(s) - 1, NEW n \in 1 .. Len(s) - 1, s[m + 1] = s[n + 1]
               PROVE  m = n
    BY <1>1 DEF FreeOnce
  <2>1. m + 1 \in DOMAIN s /\ n + 1 \in DOMAIN s
    BY <1>1
  <2>2. m + 1 = n + 1
    BY <2>1 DEF FreeOnce
  <2> QED BY <2>2
<1>4. ASSUME NEW p \in PhysReg, IsFree(p)'
      PROVE  IsFree(p) /\ p # Head(s)
  <2>1. PICK n \in 1 .. Len(s) - 1 : s[n + 1] = p
    BY <1>1, <1>4 DEF IsFree
  <2>2. n + 1 \in DOMAIN s /\ 1 \in DOMAIN s /\ n + 1 # 1
    BY <1>1
  <2> QED BY <1>1, <2>1, <2>2 DEF IsFree, FreeOnce
<1>5. ASSUME NEW p \in PhysReg, IsFree(p), p # Head(s)
      PROVE  IsFree(p)'
  <2>1. PICK n \in DOMAIN s : s[n] = p
    BY <1>5 DEF IsFree
  <2>2. n - 1 \in 1 .. Len(s) - 1 /\ Tail(s)[n - 1] = s[n]
    BY <1>1, <1>5, <2>1
  <2> QED BY <1>1, <2>1, <2>2 DEF IsFree
<1> QED BY <1>1, <1>2, <1>3, <1>4, <1>5

(* A register that was not free joins the free list. *)
LEMMA GiveFree ==
  ASSUME TypeOK, FreeOnce, NEW q \in PhysReg, ~IsFree(q),
         free_registers' = Append(free_registers, q)
  PROVE  /\ free_registers' \in Seq(PhysReg)
         /\ FreeOnce'
         /\ \A p \in PhysReg : IsFree(p)' <=> IsFree(p) \/ p = q
<1> DEFINE s == free_registers
           t == Append(s, q)
<1>1. /\ s \in Seq(PhysReg) /\ Len(s) \in Nat /\ DOMAIN s = 1 .. Len(s)
      /\ t \in Seq(PhysReg) /\ DOMAIN t = 1 .. Len(s) + 1
      /\ \A n \in 1 .. Len(s) : t[n] = s[n]
      /\ t[Len(s) + 1] = q
  BY DEF TypeOK
<1>2. \A n \in 1 .. Len(s) : s[n] # q
  BY <1>1 DEF IsFree
<1>3. \A m, n \in 1 .. Len(s) : s[m] = s[n] => m = n
  BY <1>1 DEF FreeOnce
<1>4. \A m, n \in 1 .. Len(s) + 1 : t[m] = t[n] => m = n
  <2> HIDE DEF s, t
  <2> SUFFICES ASSUME NEW m \in 1 .. Len(s) + 1, NEW n \in 1 .. Len(s) + 1, t[m] = t[n]
               PROVE  m = n
    OBVIOUS
  <2>1. m \in 1 .. Len(s) \/ m = Len(s) + 1
    BY <1>1
  <2>2. n \in 1 .. Len(s) \/ n = Len(s) + 1
    BY <1>1
  <2> QED BY <1>1, <1>2, <1>3, <2>1, <2>2
<1>5. FreeOnce'
  BY <1>1, <1>4 DEF FreeOnce
<1>6. ASSUME NEW p \in PhysReg
      PROVE  IsFree(p)' <=> IsFree(p) \/ p = q
  <2>1. IsFree(p)' <=> \E n \in 1 .. Len(s) + 1 : t[n] = p
    BY <1>1 DEF IsFree
  <2>2. IsFree(p) <=> \E n \in 1 .. Len(s) : s[n] = p
    BY <1>1 DEF IsFree
  <2> HIDE DEF s, t
  <2>3. (\E n \in 1 .. Len(s) + 1 : t[n] = p) <=> (\E n \in 1 .. Len(s) : s[n] = p) \/ p = q
    <3>1. ASSUME NEW n \in 1 .. Len(s) + 1, t[n] = p
          PROVE  (\E m \in 1 .. Len(s) : s[m] = p) \/ p = q
      <4>1. n \in 1 .. Len(s) \/ n = Len(s) + 1
        BY <1>1
      <4> QED BY <1>1, <3>1, <4>1
    <3>2. ASSUME NEW n \in 1 .. Len(s), s[n] = p
          PROVE  n \in 1 .. Len(s) + 1 /\ t[n] = p
      BY <1>1, <3>2
    <3>3. Len(s) + 1 \in 1 .. Len(s) + 1
      BY <1>1
    <3> QED BY <1>1, <3>1, <3>2, <3>3
  <2> QED BY <2>1, <2>2, <2>3
<1> QED BY <1>1, <1>5, <1>6

--------------------------------------------------------------------------------
(* Inv: types, cursors and entries *)

LEMMA InitInv == Init => Inv
<1> SUFFICES ASSUME Init PROVE Inv
  OBVIOUS
<1>1. free_registers \in Seq(PhysReg)
  BY RenameAssumption DEF Init, PhysReg
<1>2. TypeOK
  BY <1>1, RenameAssumption DEF Init, TypeOK, PhysicalRegister, ArchReg, NoReg
<1> QED BY <1>2 DEF Init, Inv, CursorOK, EntriesOK, Retiring

(* The cursor of retire_rob is at a destination in flight, its architectural *)
(* register is known, and the register it supersedes is committed.           *)
LEMMA RetireDestFacts ==
  ASSUME Inv, RegInv, RetireDest
  PROVE  LET p    == ROB[scan].dst[operand]
             arch == physical_register_file[p].arch_reg_index
             old  == backend_RAT[arch]
         IN  /\ scan \in DOMAIN ROB /\ operand \in DOMAIN ROB[scan].dst
             /\ ROB[scan].scheduled /\ ROB[scan].completed
             /\ p \in PhysReg /\ InFlight(scan, operand)
             /\ ~IsFree(p) /\ ~IsCommitted(p)
             /\ arch \in ArchReg /\ frontend_RAT[arch] # NoReg
             /\ old \in PhysReg \cup {NoReg} /\ old # p
             /\ old # NoReg => IsCommitted(old) /\ ~IsFree(old)
<1> DEFINE p    == ROB[scan].dst[operand]
           arch == physical_register_file[p].arch_reg_index
           old  == backend_RAT[arch]
<1>1. scan \in DOMAIN ROB /\ ROB[scan].completed /\ stage = "retire" /\ scan \in Nat
  BY RenameAssumption DEF RetireDest, Retiring, Inv, TypeOK, Lesser
<1>2. operand \in DOMAIN ROB[scan].dst /\ operand \in Nat
  BY <1>1, EntryTypes DEF RetireDest, Inv, TypeOK
<1>3. ROB[scan].scheduled
  BY <1>1 DEF Inv, EntriesOK
<1>4. p \in PhysReg
  BY <1>1, <1>2, <1>3 DEF Inv, EntriesOK, DestRenamed
<1>5. InFlight(scan, operand)
  BY <1>1, <1>2, <1>3 DEF InFlight, DestRenamed, Committed
<1>6. IsInFlight(p)
  BY <1>1, <1>2, <1>5 DEF IsInFlight
<1>7. ~IsFree(p) /\ ~IsCommitted(p)
  BY <1>4, <1>6 DEF RegInv, RegistersConserved, OneUse
<1>8. arch \in ArchReg /\ frontend_RAT[arch] # NoReg
  BY <1>4, <1>7 DEF RegInv, MappingOK
<1>9. old \in PhysReg \cup {NoReg} /\ old # p
  BY SMTT(30), <1>7, <1>8 DEF Inv, TypeOK, IsCommitted
<1>10. old # NoReg => IsCommitted(old) /\ ~IsFree(old)
  BY <1>8, <1>9 DEF IsCommitted, RegInv, RegistersConserved, OneUse
<1> QED BY SMTT(30), <1>1, <1>2, <1>3, <1>4, <1>5, <1>7, <1>8, <1>9, <1>10

LEMMA RetireDestInv ==
  ASSUME Inv, RegInv, RetireDest
  PROVE  Inv'
<1> DEFINE p    == ROB[scan].dst[operand]
           arch == physical_register_file[p].arch_reg_index
           old  == backend_RAT[arch]
           back == Recycled(p, old)
<1>1. /\ p \in PhysReg /\ arch \in ArchReg /\ old \in PhysReg \cup {NoReg}
      /\ scan \in DOMAIN ROB
  BY RetireDestFacts
<1>2. back \subseteq PhysReg
  BY <1>1 DEF Recycled
<1>3. backend_RAT' = [backend_RAT EXCEPT ![arch] = p]
  BY DEF RetireDest
<1>4. physical_register_file' =
        [q \in PhysReg |-> IF q \in back THEN Cleared ELSE physical_register_file[q]]
  BY SMTT(30) DEF RetireDest
<1>5. free_registers' = free_registers
      \/ \E q \in back : free_registers' = Append(free_registers, q)
  BY DEF RetireDest
<1>6. /\ UNCHANGED <<ROB, frontend_RAT, warmup, stage, scan, budget>>
      /\ operand' = operand + 1 /\ stage = "retire" /\ Retiring
  BY DEF RetireDest, Retiring
<1> HIDE DEF p, arch, old, back
<1>7. backend_RAT' \in [ArchReg -> PhysReg \cup {NoReg}]
  BY <1>1, <1>3 DEF Inv, TypeOK
<1>8. physical_register_file' \in [PhysReg -> PhysicalRegister]
  BY <1>4 DEF Inv, TypeOK, Cleared, PhysicalRegister
<1>9. free_registers' \in Seq(PhysReg)
  <2>1. free_registers \in Seq(PhysReg)
    BY DEF Inv, TypeOK
  <2>2. ASSUME NEW q \in PhysReg
        PROVE  Append(free_registers, q) \in Seq(PhysReg)
    BY <2>1
  <2> QED BY <1>2, <1>5, <2>1, <2>2
<1>10. TypeOK'
  BY <1>6, <1>7, <1>8, <1>9 DEF Inv, TypeOK
<1>11. CursorOK'
  BY <1>6 DEF Inv, CursorOK, Retiring
<1>12. EntriesOK'
  BY <1>6 DEF Inv, EntriesOK, DestRenamed
<1> QED BY <1>10, <1>11, <1>12 DEF Inv

LEMMA RetireNextInv ==
  ASSUME Inv, RetireNext
  PROVE  Inv'
<1>1. TypeOK'
  BY DEF RetireNext, Inv, TypeOK, allocator
<1>2. CursorOK'
  <2>1. /\ scan \in Nat \ {0} /\ scan <= Len(ROB) /\ ROB[scan].completed /\ Len(ROB) \in Nat
        /\ stage = "retire"
    BY RenameAssumption DEF RetireNext, Retiring, Inv, TypeOK, Lesser
  <2>2. \A i \in 1 .. scan : ROB[i].completed
    BY <2>1 DEF Inv, CursorOK
  <2> QED BY <2>1, <2>2 DEF RetireNext, CursorOK
<1>3. EntriesOK'
  BY DEF RetireNext, Retiring, Inv, EntriesOK, DestRenamed
<1> QED BY <1>1, <1>2, <1>3 DEF Inv

(* ROB.erase keeps the entries from the cursor on, in their order. *)
LEMMA Erased ==
  ASSUME Inv, RetireErase
  PROVE  /\ ROB' \in Seq(Entry) /\ Len(ROB') = Len(ROB) - scan + 1
         /\ DOMAIN ROB' = 1 .. Len(ROB) - scan + 1
         /\ \A i \in DOMAIN ROB' : i + scan - 1 \in DOMAIN ROB /\ ROB'[i] = ROB[i + scan - 1]
         /\ scan \in Nat \ {0} /\ Len(ROB) \in Nat /\ scan <= Len(ROB) + 1
         /\ operand = 1 /\ stage = "retire"
<1>1. /\ ROB \in Seq(Entry) /\ Len(ROB) \in Nat /\ DOMAIN ROB = 1 .. Len(ROB)
      /\ scan \in Nat \ {0} /\ scan <= Len(ROB) + 1
      /\ stage = "retire" /\ operand = 1 /\ ROB' = SubSeq(ROB, scan, Len(ROB))
  BY DEF RetireErase, Inv, TypeOK, CursorOK
<1>2. \A i \in scan .. Len(ROB) : ROB[i] \in Entry
  BY <1>1
<1>3. /\ ROB' \in Seq(Entry)
      /\ Len(ROB') = IF scan <= Len(ROB) THEN Len(ROB) - scan + 1 ELSE 0
      /\ \A i \in 1 .. Len(ROB) - scan + 1 : ROB'[i] = ROB[scan + i - 1]
  BY <1>1, <1>2, SubSeqProperties
<1>4. Len(ROB') = Len(ROB) - scan + 1
  BY <1>1, <1>3
<1> QED BY SMTT(30), <1>1, <1>3, <1>4

LEMMA RetireEraseInv ==
  ASSUME Inv, RetireErase
  PROVE  Inv'
<1>1. TypeOK'
  <2>1. /\ ROB' \in Seq(Entry) /\ Len(ROB') <= ROB_SIZE
        /\ scan' = 1 /\ stage' = "complete"
        /\ UNCHANGED <<allocator, warmup, operand, budget>>
    BY Erased, RenameAssumption DEF RetireErase, Inv, TypeOK
  <2> QED BY <2>1 DEF Inv, TypeOK, allocator
<1>2. CursorOK'
  BY Erased DEF RetireErase, CursorOK
<1>3. EntriesOK'
  BY Erased DEF RetireErase, Inv, EntriesOK, DestRenamed
<1> QED BY <1>1, <1>2, <1>3 DEF Inv

LEMMA FirstOfSubset == ASSUME NEW n, NEW S PROVE FirstOf(n, S) \subseteq S
BY DEF FirstOf

LEMMA CompleteInflightInv ==
  ASSUME Inv, CompleteInflight
  PROVE  Inv'
<1>1. \A i \in Completing : ROB[i].executed
  BY FirstOfSubset DEF Completing
<1>2. ROB' = [i \in DOMAIN ROB |->
                IF i \in Completing THEN [ROB[i] EXCEPT !.completed = TRUE] ELSE ROB[i]]
  BY DEF CompleteInflight
<1>3. \A i \in DOMAIN ROB : ROB'[i] \in Entry
  <2> SUFFICES ASSUME NEW i \in DOMAIN ROB PROVE ROB'[i] \in Entry
    OBVIOUS
  <2>1. ROB[i] \in Entry
    BY EntryTypes DEF Inv
  <2> QED BY <1>2, <2>1 DEF Entry
<1>4. ROB' \in Seq(Entry) /\ Len(ROB') = Len(ROB) /\ DOMAIN ROB' = DOMAIN ROB
  BY <1>2, <1>3, RobRewrite DEF Inv, TypeOK
<1>5. physical_register_file' \in [PhysReg -> PhysicalRegister]
  <2> DEFINE Done(p) == \E i \in Completing : \E k \in DOMAIN ROB[i].dst : ROB[i].dst[k] = p
             new == [p \in PhysReg |-> IF Done(p)
                                        THEN [physical_register_file[p] EXCEPT !.valid = TRUE]
                                        ELSE physical_register_file[p]]
  <2>1. physical_register_file' = new
    BY DEF CompleteInflight
  <2> HIDE DEF Done
  <2>2. \A p \in PhysReg : new[p] \in PhysicalRegister
    <3> SUFFICES ASSUME NEW p \in PhysReg PROVE new[p] \in PhysicalRegister
      OBVIOUS
    <3>1. physical_register_file[p] \in PhysicalRegister
      BY DEF Inv, TypeOK
    <3>2. [physical_register_file[p] EXCEPT !.valid = TRUE] \in PhysicalRegister
      BY <3>1 DEF PhysicalRegister
    <3> QED BY <3>1, <3>2
  <2> QED BY <2>1, <2>2
<1>6. TypeOK'
  BY <1>4, <1>5 DEF CompleteInflight, Inv, TypeOK
<1>7. CursorOK'
  BY DEF CompleteInflight, Inv, CursorOK
<1>8. EntriesOK'
  <2> SUFFICES ASSUME NEW i \in DOMAIN ROB
               PROVE  /\ ROB'[i].executed => ROB'[i].scheduled
                      /\ ROB'[i].completed => ROB'[i].executed
                      /\ \A k \in DOMAIN ROB'[i].dst : DestRenamed(i, k)' => ROB'[i].dst[k] \in PhysReg
    BY <1>4 DEF EntriesOK
  <2>1. /\ ROB'[i].scheduled = ROB[i].scheduled /\ ROB'[i].executed = ROB[i].executed
        /\ ROB'[i].dst = ROB[i].dst
        /\ ROB'[i].completed => ROB[i].executed
    BY <1>1, <1>2, EntryTypes DEF Inv, Entry, EntriesOK
  <2> QED BY <2>1 DEF CompleteInflight, Inv, EntriesOK, DestRenamed
<1> QED BY <1>6, <1>7, <1>8 DEF Inv

LEMMA ExecuteInv ==
  ASSUME Inv, Execute
  PROVE  Inv'
<1>1. \A i \in Executing : ROB[i].scheduled
  BY FirstOfSubset DEF Executing
<1>2. ROB' = [i \in DOMAIN ROB |->
                IF i \in Executing
                THEN [ROB[i] EXCEPT !.executed = TRUE, !.wait = Latency(EXEC_LATENCY)]
                ELSE ROB[i]]
  BY DEF Execute
<1>3. Latency(EXEC_LATENCY) \in Nat
  BY LatencyType, RenameAssumption
<1>4. \A i \in DOMAIN ROB : ROB'[i] \in Entry
  <2> SUFFICES ASSUME NEW i \in DOMAIN ROB PROVE ROB'[i] \in Entry
    OBVIOUS
  <2>1. ROB[i] \in Entry
    BY EntryTypes DEF Inv
  <2> QED BY <1>2, <1>3, <2>1 DEF Entry
<1>5. ROB' \in Seq(Entry) /\ Len(ROB') = Len(ROB) /\ DOMAIN ROB' = DOMAIN ROB
  BY <1>2, <1>4, RobRewrite DEF Inv, TypeOK
<1>6. TypeOK'
  BY <1>5, RenameAssumption DEF Execute, Inv, TypeOK, allocator
<1>7. CursorOK'
  BY DEF Execute, Inv, CursorOK
<1>8. EntriesOK'
  <2> SUFFICES ASSUME NEW i \in DOMAIN ROB
               PROVE  /\ ROB'[i].executed => ROB'[i].scheduled
                      /\ ROB'[i].completed => ROB'[i].executed
                      /\ \A k \in DOMAIN ROB'[i].dst : DestRenamed(i, k)' => ROB'[i].dst[k] \in PhysReg
    BY <1>5 DEF EntriesOK
  <2>1. /\ ROB'[i].scheduled = ROB[i].scheduled /\ ROB'[i].completed = ROB[i].completed
        /\ ROB'[i].dst = ROB[i].dst
        /\ ROB'[i].executed => ROB[i].scheduled
        /\ ROB[i].executed => ROB'[i].executed
    BY <1>1, <1>2, EntryTypes DEF Inv, Entry, EntriesOK
  <2> QED BY <2>1 DEF Execute, Inv, EntriesOK, DestRenamed
<1> QED BY <1>6, <1>7, <1>8 DEF Inv

LEMMA ScheduleStopsInv ==
  ASSUME Inv, ScheduleStops \/ ScheduleEnds
  PROVE  Inv'
<1>1. TypeOK'
  BY DEF ScheduleStops, ScheduleEnds, Inv, TypeOK, allocator
<1>2. CursorOK'
  BY DEF ScheduleStops, ScheduleEnds, Scheduling, Inv, CursorOK
<1>3. EntriesOK'
  BY DEF ScheduleStops, ScheduleEnds, Scheduling, Inv, EntriesOK, DestRenamed
<1> QED BY <1>1, <1>2, <1>3 DEF Inv

LEMMA ScheduleSkipsInv ==
  ASSUME Inv, ScheduleSkips
  PROVE  Inv'
<1>1. TypeOK'
  BY DEF ScheduleSkips, Scheduling, Inv, TypeOK, allocator
<1>2. CursorOK'
  BY DEF ScheduleSkips, Scheduling, Inv, CursorOK
<1>3. EntriesOK'
  BY DEF ScheduleSkips, Scheduling, Inv, EntriesOK, DestRenamed
<1> QED BY <1>1, <1>2, <1>3 DEF Inv

LEMMA BeginSchedulingInv ==
  ASSUME Inv, BeginScheduling
  PROVE  Inv'
<1>0. scan \in DOMAIN ROB
  BY DEF BeginScheduling, Scheduling, Inv, TypeOK
<1>1. TypeOK'
  BY DEF BeginScheduling, Inv, TypeOK, allocator
<1>2. CursorOK'
  <2>1. Len(ROB[scan].src) \in Nat /\ Len(ROB[scan].dst) \in Nat
    BY <1>0, EntryTypes DEF Inv
  <2>2. /\ stage' = "rename" /\ operand' = 1 /\ budget > 0 /\ ~ROB[scan].scheduled
        /\ UNCHANGED <<ROB, scan, budget>>
    BY DEF BeginScheduling, Scheduling
  <2>3. 1 <= Len(ROB[scan].src) + Len(ROB[scan].dst) + 1
    <3> DEFINE a == Len(ROB[scan].src)
               b == Len(ROB[scan].dst)
    <3> HIDE DEF a, b
    <3>1. a \in Nat /\ b \in Nat
      BY <2>1 DEF a, b
    <3>2. 1 <= a + b + 1
      BY <3>1
    <3> QED BY <3>2 DEF a, b
  <2> QED BY <1>0, <2>2, <2>3 DEF CursorOK
<1>3. EntriesOK'
  <2> SUFFICES ASSUME NEW i \in DOMAIN ROB, NEW k \in DOMAIN ROB[i].dst, DestRenamed(i, k)'
               PROVE  DestRenamed(i, k)
    BY DEF BeginScheduling, Inv, EntriesOK
  <2>1. Len(ROB[i].src) \in Nat /\ k \in Nat \ {0}
    BY EntryTypes DEF Inv
  <2> QED BY <2>1 DEF BeginScheduling, DestRenamed
<1> QED BY <1>1, <1>2, <1>3 DEF Inv

(* The step RenameSource takes: source `operand' of the entry at the cursor  *)
(* becomes what the frontend RAT says, or the head of the free list.         *)
LEMMA RenameSourceFacts ==
  ASSUME Inv, RegInv, RenameSource
  PROVE  LET r == ROB[scan].src[operand]
             p == IF IsAllocated(r) THEN frontend_RAT[r] ELSE Head(free_registers)
         IN  /\ stage = "rename" /\ scan \in DOMAIN ROB /\ operand \in DOMAIN ROB[scan].src
             /\ ~ROB[scan].scheduled /\ r \in ArchReg /\ p \in PhysReg
             /\ free_registers' \in Seq(PhysReg)
             /\ ROB' \in Seq(Entry) /\ Len(ROB') = Len(ROB) /\ DOMAIN ROB' = DOMAIN ROB
             /\ \A j \in DOMAIN ROB : j # scan => ROB'[j] = ROB[j]
             /\ ROB'[scan].dst = ROB[scan].dst
             /\ ROB'[scan].scheduled = ROB[scan].scheduled
             /\ ROB'[scan].executed = ROB[scan].executed
             /\ ROB'[scan].completed = ROB[scan].completed
             /\ ROB'[scan].instr = ROB[scan].instr /\ ROB'[scan].wait = ROB[scan].wait
             /\ ROB'[scan].src[operand] = p /\ DOMAIN ROB'[scan].src = DOMAIN ROB[scan].src
             /\ Len(ROB'[scan].src) = Len(ROB[scan].src)
             /\ \A j \in DOMAIN ROB[scan].src : j # operand => ROB'[scan].src[j] = ROB[scan].src[j]
             /\ UNCHANGED <<warmup, stage, scan, budget>> /\ operand' = operand + 1
             /\ IsAllocated(r) => UNCHANGED allocator
             /\ ~IsAllocated(r) =>
                  /\ free_registers # <<>> /\ free_registers' = Tail(free_registers)
                  /\ frontend_RAT' = [frontend_RAT EXCEPT ![r] = p]
                  /\ backend_RAT' = [backend_RAT EXCEPT ![r] = p]
                  /\ physical_register_file' = [physical_register_file EXCEPT ![p] =
                        [arch_reg_index |-> r, valid |-> TRUE, busy |-> TRUE]]
<1> DEFINE e == ROB[scan]
           r == e.src[operand]
           p == IF IsAllocated(r) THEN frontend_RAT[r] ELSE Head(free_registers)
           src == [e.src EXCEPT ![operand] = p]
           new == [e EXCEPT !.src = src]
<1>1. /\ stage = "rename" /\ scan \in DOMAIN ROB /\ ~e.scheduled
      /\ e \in Entry /\ e.src \in Seq(ArchReg)
      /\ operand \in DOMAIN e.src /\ r \in ArchReg
  <2>1. stage = "rename" /\ scan \in DOMAIN ROB /\ ~e.scheduled
    BY DEF RenameSource, Inv, CursorOK
  <2>2. operand <= Len(e.src) /\ operand \in Nat \ {0}
    BY DEF RenameSource, Inv, TypeOK
  <2> QED BY <2>1, <2>2, EntryTypes DEF Inv
<1>2. /\ IsAllocated(r) => UNCHANGED allocator
      /\ ~IsAllocated(r) =>
           /\ free_registers # <<>> /\ free_registers' = Tail(free_registers)
           /\ frontend_RAT' = [frontend_RAT EXCEPT ![r] = p]
           /\ backend_RAT' = [backend_RAT EXCEPT ![r] = p]
           /\ physical_register_file' = [physical_register_file EXCEPT ![p] =
                 [arch_reg_index |-> r, valid |-> TRUE, busy |-> TRUE]]
  BY DEF RenameSource
<1>3. /\ UNCHANGED <<warmup, stage, scan, budget>> /\ operand' = operand + 1
      /\ ROB' = [ROB EXCEPT ![scan] = new]
  BY <1>1 DEF RenameSource, Source
<1>4. p \in PhysReg /\ free_registers' \in Seq(PhysReg)
  <2>1. CASE IsAllocated(r)
    BY <1>1, <1>2, <2>1 DEF IsAllocated, allocator, Inv, TypeOK
  <2>2. CASE ~IsAllocated(r)
    BY <1>2, <2>2, TakeFree DEF Inv, RegInv, RegistersConserved
  <2> QED BY <2>1, <2>2
<1>5. /\ src \in Seq(ArchReg) /\ Len(src) = Len(e.src) /\ DOMAIN src = DOMAIN e.src
      /\ src[operand] = p /\ \A j \in DOMAIN e.src : j # operand => src[j] = e.src[j]
  <2> HIDE DEF p
  <2> QED BY <1>1, <1>4, OperandUpdate, PhysIsArch
<1>6. /\ new \in Entry /\ new.src = src /\ new.dst = e.dst
      /\ new.scheduled = e.scheduled /\ new.executed = e.executed
      /\ new.completed = e.completed /\ new.instr = e.instr /\ new.wait = e.wait
  <2> HIDE DEF src
  <2> QED BY <1>1, <1>5 DEF Entry
<1> HIDE DEF new
<1>7. /\ ROB' \in Seq(Entry) /\ Len(ROB') = Len(ROB) /\ DOMAIN ROB' = DOMAIN ROB
      /\ ROB'[scan] = new /\ \A j \in DOMAIN ROB : j # scan => ROB'[j] = ROB[j]
  BY <1>1, <1>3, <1>6, RobUpdate DEF Inv, TypeOK
<1> HIDE DEF src, p
<1> QED BY <1>1, <1>2, <1>3, <1>4, <1>5, <1>6, <1>7 DEF p

(* An operand of the entry at the cursor is renamed. *)
LEMMA RenameSourceInv ==
  ASSUME Inv, RegInv, RenameSource
  PROVE  Inv'
<1> DEFINE e == ROB[scan]
           r == e.src[operand]
           p == IF IsAllocated(r) THEN frontend_RAT[r] ELSE Head(free_registers)
<1>1. /\ stage = "rename" /\ scan \in DOMAIN ROB /\ operand \in 1 .. Len(e.src)
      /\ Len(e.src) \in Nat /\ Len(e.dst) \in Nat /\ r \in ArchReg /\ p \in PhysReg
      /\ ~e.scheduled /\ budget > 0
  BY RenameSourceFacts, EntryTypes DEF Inv, CursorOK
<1>2. /\ ROB' \in Seq(Entry) /\ Len(ROB') = Len(ROB) /\ DOMAIN ROB' = DOMAIN ROB
      /\ UNCHANGED <<warmup, stage, scan, budget>> /\ operand' = operand + 1
      /\ free_registers' \in Seq(PhysReg)
      /\ IsAllocated(r) => UNCHANGED allocator
      /\ ~IsAllocated(r) =>
           /\ frontend_RAT' = [frontend_RAT EXCEPT ![r] = p]
           /\ backend_RAT' = [backend_RAT EXCEPT ![r] = p]
           /\ physical_register_file' = [physical_register_file EXCEPT ![p] =
                 [arch_reg_index |-> r, valid |-> TRUE, busy |-> TRUE]]
  BY RenameSourceFacts
<1>3. ASSUME NEW i \in DOMAIN ROB
      PROVE  /\ ROB'[i].scheduled = ROB[i].scheduled /\ ROB'[i].executed = ROB[i].executed
             /\ ROB'[i].completed = ROB[i].completed /\ ROB'[i].dst = ROB[i].dst
             /\ Len(ROB'[i].src) = Len(ROB[i].src)
  BY RenameSourceFacts
<1>4. /\ frontend_RAT' \in [ArchReg -> PhysReg \cup {NoReg}]
      /\ backend_RAT' \in [ArchReg -> PhysReg \cup {NoReg}]
      /\ physical_register_file' \in [PhysReg -> PhysicalRegister]
  <2>1. CASE IsAllocated(r)
    BY <1>2, <2>1 DEF allocator, Inv, TypeOK
  <2>2. CASE ~IsAllocated(r)
    <3>1. [arch_reg_index |-> r, valid |-> TRUE, busy |-> TRUE] \in PhysicalRegister
      BY <1>1 DEF PhysicalRegister
    <3> HIDE DEF p, r
    <3> QED BY <1>1, <1>2, <2>2, <3>1 DEF Inv, TypeOK
  <2> QED BY <2>1, <2>2
<1>5. TypeOK'
  BY <1>2, <1>4 DEF Inv, TypeOK
<1>6. CursorOK'
  <2>1. operand + 1 <= Len(e.src) + Len(e.dst) + 1
    <3> DEFINE a == Len(e.src)
               b == Len(e.dst)
    <3> HIDE DEF a, b
    <3>1. a \in Nat /\ b \in Nat /\ operand \in 1 .. a
      BY <1>1 DEF a, b
    <3>2. operand + 1 <= a + b + 1
      BY <3>1
    <3> QED BY <3>2 DEF a, b
  <2> QED BY <1>1, <1>2, <1>3, <2>1 DEF CursorOK
<1>7. EntriesOK'
  <2> SUFFICES ASSUME NEW i \in DOMAIN ROB
               PROVE  /\ ROB'[i].executed => ROB'[i].scheduled
                      /\ ROB'[i].completed => ROB'[i].executed
                      /\ \A k \in DOMAIN ROB'[i].dst : DestRenamed(i, k)' => ROB'[i].dst[k] \in PhysReg
    BY <1>2 DEF EntriesOK
  <2>1. ASSUME NEW k \in DOMAIN ROB[i].dst, DestRenamed(i, k)'
        PROVE  DestRenamed(i, k)
    <3>1. k \in Nat \ {0} /\ Len(ROB[i].src) \in Nat
      BY EntryTypes DEF Inv
    <3>2. Len(ROB[i].src) + k < operand + 1 /\ i = scan => FALSE
      BY <1>1, <3>1
    <3> QED BY <1>2, <1>3, <2>1, <3>2 DEF DestRenamed
  <2> QED BY <1>3, <2>1 DEF Inv, EntriesOK
<1> QED BY <1>5, <1>6, <1>7 DEF Inv

(* The step RenameDest takes: the head of the free list into destination k. *)
LEMMA RenameDestFacts ==
  ASSUME Inv, RegInv, RenameDest
  PROVE  LET k == operand - Len(ROB[scan].src)
             r == ROB[scan].dst[k]
             p == Head(free_registers)
         IN  /\ stage = "rename" /\ scan \in DOMAIN ROB /\ k \in DOMAIN ROB[scan].dst
             /\ ~ROB[scan].scheduled /\ r \in ArchReg /\ p \in PhysReg /\ IsFree(p)
             /\ free_registers' \in Seq(PhysReg) /\ FreeOnce'
             /\ \A q \in PhysReg : IsFree(q)' <=> IsFree(q) /\ q # p
             /\ ROB' \in Seq(Entry) /\ Len(ROB') = Len(ROB) /\ DOMAIN ROB' = DOMAIN ROB
             /\ \A j \in DOMAIN ROB : j # scan => ROB'[j] = ROB[j]
             /\ ROB'[scan].src = ROB[scan].src
             /\ ROB'[scan].scheduled = ROB[scan].scheduled
             /\ ROB'[scan].executed = ROB[scan].executed
             /\ ROB'[scan].completed = ROB[scan].completed
             /\ ROB'[scan].instr = ROB[scan].instr /\ ROB'[scan].wait = ROB[scan].wait
             /\ ROB'[scan].dst[k] = p /\ DOMAIN ROB'[scan].dst = DOMAIN ROB[scan].dst
             /\ Len(ROB'[scan].dst) = Len(ROB[scan].dst)
             /\ \A j \in DOMAIN ROB[scan].dst : j # k => ROB'[scan].dst[j] = ROB[scan].dst[j]
             /\ frontend_RAT' = [frontend_RAT EXCEPT ![r] = p]
             /\ physical_register_file' = [physical_register_file EXCEPT ![p] = NewDest(r)]
             /\ UNCHANGED <<backend_RAT, warmup, stage, scan, budget>>
             /\ operand' = operand + 1
<1> DEFINE e == ROB[scan]
           k == operand - Len(e.src)
           r == e.dst[k]
           p == Head(free_registers)
           dst == [e.dst EXCEPT ![k] = p]
           new == [e EXCEPT !.dst = dst]
<1>1. /\ stage = "rename" /\ scan \in DOMAIN ROB /\ k \in DOMAIN e.dst /\ ~e.scheduled
      /\ free_registers # <<>> /\ free_registers' = Tail(free_registers)
      /\ frontend_RAT' = [frontend_RAT EXCEPT ![r] = p]
      /\ physical_register_file' = [physical_register_file EXCEPT ![p] = NewDest(r)]
      /\ UNCHANGED <<backend_RAT, warmup, stage, scan, budget>> /\ operand' = operand + 1
      /\ ROB' = [ROB EXCEPT ![scan] = new]
  BY DEF RenameDest, Inv, CursorOK
<1>2. e \in Entry /\ e.dst \in Seq(ArchReg) /\ r \in ArchReg
  BY <1>1, EntryTypes DEF Inv
<1>3. /\ p \in PhysReg /\ IsFree(p) /\ free_registers' \in Seq(PhysReg) /\ FreeOnce'
      /\ \A q \in PhysReg : IsFree(q)' <=> IsFree(q) /\ q # p
  BY <1>1, TakeFree DEF Inv, RegInv, RegistersConserved
<1>4. /\ dst \in Seq(ArchReg) /\ Len(dst) = Len(e.dst) /\ DOMAIN dst = DOMAIN e.dst
      /\ dst[k] = p /\ \A j \in DOMAIN e.dst : j # k => dst[j] = e.dst[j]
  <2> HIDE DEF k, p
  <2> QED BY <1>1, <1>2, <1>3, OperandUpdate, PhysIsArch
<1>5. /\ new \in Entry /\ new.dst = dst /\ new.src = e.src
      /\ new.scheduled = e.scheduled /\ new.executed = e.executed
      /\ new.completed = e.completed /\ new.instr = e.instr /\ new.wait = e.wait
  <2> HIDE DEF dst
  <2> QED BY <1>2, <1>4 DEF Entry
<1> HIDE DEF new
<1>6. /\ ROB' \in Seq(Entry) /\ Len(ROB') = Len(ROB) /\ DOMAIN ROB' = DOMAIN ROB
      /\ ROB'[scan] = new /\ \A j \in DOMAIN ROB : j # scan => ROB'[j] = ROB[j]
  BY <1>1, <1>5, RobUpdate DEF Inv, TypeOK
<1> QED BY <1>1, <1>2, <1>3, <1>4, <1>5, <1>6

LEMMA RenameDestInv ==
  ASSUME Inv, RegInv, RenameDest
  PROVE  Inv'
<1> DEFINE k == operand - Len(ROB[scan].src)
           r == ROB[scan].dst[k]
           p == Head(free_registers)
<1>1. NewDest(r) \in PhysicalRegister
  BY RenameDestFacts DEF NewDest, PhysicalRegister
<1>2. TypeOK'
  <2>1. /\ p \in PhysReg /\ r \in ArchReg
        /\ free_registers' \in Seq(PhysReg)
        /\ ROB' \in Seq(Entry) /\ Len(ROB') = Len(ROB)
        /\ frontend_RAT' = [frontend_RAT EXCEPT ![r] = p]
        /\ physical_register_file' = [physical_register_file EXCEPT ![p] = NewDest(r)]
        /\ UNCHANGED <<backend_RAT, warmup, stage, scan, budget>> /\ operand' = operand + 1
    BY RenameDestFacts
  <2> HIDE DEF r, p
  <2> QED BY <1>1, <2>1 DEF Inv, TypeOK
<1>3. CursorOK'
  <2>1. /\ k \in DOMAIN ROB[scan].dst /\ scan \in DOMAIN ROB
        /\ Len(ROB[scan].src) \in Nat /\ Len(ROB[scan].dst) \in Nat /\ operand \in Nat
        /\ DOMAIN ROB[scan].dst = 1 .. Len(ROB[scan].dst)
    BY RenameDestFacts, EntryTypes DEF Inv, TypeOK
  <2>2. operand + 1 <= Len(ROB[scan].src) + Len(ROB[scan].dst) + 1
    <3> DEFINE a == Len(ROB[scan].src)
               b == Len(ROB[scan].dst)
    <3> HIDE DEF a, b
    <3>1. a \in Nat /\ b \in Nat /\ operand - a \in 1 .. b /\ operand \in Nat
      BY <2>1 DEF a, b
    <3>2. operand + 1 <= a + b + 1
      BY <3>1
    <3> QED BY <3>2 DEF a, b
  <2>3. budget > 0
    BY RenameDestFacts DEF Inv, CursorOK
  <2> QED BY <2>2, <2>3, RenameDestFacts DEF CursorOK
<1>4. EntriesOK'
  <2> SUFFICES ASSUME NEW i \in DOMAIN ROB
               PROVE  /\ ROB'[i].executed => ROB'[i].scheduled
                      /\ ROB'[i].completed => ROB'[i].executed
                      /\ \A j \in DOMAIN ROB'[i].dst : DestRenamed(i, j)' => ROB'[i].dst[j] \in PhysReg
    BY RenameDestFacts DEF EntriesOK
  <2>1. CASE i # scan
    BY <2>1, RenameDestFacts DEF Inv, EntriesOK, DestRenamed
  <2>2. CASE i = scan
    <3>1. ASSUME NEW j \in DOMAIN ROB[scan].dst, DestRenamed(scan, j)', j # k
          PROVE  DestRenamed(scan, j)
      <4>1. j \in Nat /\ Len(ROB[scan].src) \in Nat /\ operand \in Nat
        BY SMTT(30), RenameDestFacts, EntryTypes DEF Inv, TypeOK
      <4>2. Len(ROB[scan].src) + j < operand + 1
        BY <3>1, RenameDestFacts DEF DestRenamed
      <4>3. Len(ROB[scan].src) + j < operand
        BY <3>1, <4>1, <4>2
      <4> QED BY <4>3, RenameDestFacts DEF DestRenamed
    <3> QED BY SMTT(30), <2>2, <3>1, RenameDestFacts DEF Inv, EntriesOK
  <2> QED BY <2>1, <2>2
<1> QED BY <1>2, <1>3, <1>4 DEF Inv

(* The last operand is renamed: the entry is scheduled. *)
LEMMA FinishSchedulingFacts ==
  ASSUME Inv, FinishScheduling
  PROVE  /\ stage = "rename" /\ stage' = "schedule" /\ scan \in DOMAIN ROB
         /\ ~ROB[scan].scheduled
         /\ operand = Len(ROB[scan].src) + Len(ROB[scan].dst) + 1
         /\ ROB' \in Seq(Entry) /\ Len(ROB') = Len(ROB) /\ DOMAIN ROB' = DOMAIN ROB
         /\ \A i \in DOMAIN ROB :
              /\ ROB'[i].src = ROB[i].src /\ ROB'[i].dst = ROB[i].dst
              /\ ROB'[i].executed = ROB[i].executed /\ ROB'[i].completed = ROB[i].completed
              /\ ROB'[i].scheduled = (ROB[i].scheduled \/ i = scan)
              /\ ROB'[i].instr = ROB[i].instr /\ ROB'[i].wait = ROB[i].wait
         /\ \A k \in DOMAIN ROB[scan].dst : DestRenamed(scan, k)
<1> DEFINE e == ROB[scan]
           new == [e EXCEPT !.scheduled = TRUE]
<1>1. /\ stage = "rename" /\ stage' = "schedule" /\ scan \in DOMAIN ROB /\ ~e.scheduled
      /\ e \in Entry /\ ROB' = [ROB EXCEPT ![scan] = new]
      /\ Len(e.src) \in Nat /\ Len(e.dst) \in Nat /\ DOMAIN e.dst = 1 .. Len(e.dst)
  BY EntryTypes DEF FinishScheduling, Inv, CursorOK
<1>2. operand = Len(e.src) + Len(e.dst) + 1
  <2>1. /\ operand \in Nat /\ operand > Len(e.src) + Len(e.dst)
        /\ operand <= Len(e.src) + Len(e.dst) + 1
    BY DEF FinishScheduling, Inv, CursorOK, TypeOK
  <2> DEFINE a == Len(e.src)
             b == Len(e.dst)
  <2>2. a \in Nat /\ b \in Nat /\ operand > a + b /\ operand <= a + b + 1
    BY <1>1, <2>1
  <2> HIDE DEF a, b
  <2>3. operand = a + b + 1
    BY <2>1, <2>2
  <2> QED BY <2>3 DEF a, b
<1>3. /\ new \in Entry /\ new.src = e.src /\ new.dst = e.dst /\ new.scheduled
      /\ new.executed = e.executed /\ new.completed = e.completed /\ new.scheduled = TRUE
      /\ new.instr = e.instr /\ new.wait = e.wait
  BY <1>1 DEF Entry
<1>4. \A k \in DOMAIN e.dst : DestRenamed(scan, k)
  <2> SUFFICES ASSUME NEW k \in DOMAIN e.dst PROVE Len(e.src) + k < operand
    BY <1>1 DEF DestRenamed
  <2> DEFINE a == Len(e.src)
             b == Len(e.dst)
  <2>1. a \in Nat /\ b \in Nat /\ k \in 1 .. b /\ operand = a + b + 1
    BY <1>1, <1>2
  <2> HIDE DEF a, b
  <2>2. a + k < operand
    BY <2>1
  <2> QED BY <2>2 DEF a
<1> HIDE DEF new
<1>5. /\ ROB' \in Seq(Entry) /\ Len(ROB') = Len(ROB) /\ DOMAIN ROB' = DOMAIN ROB
      /\ ROB'[scan] = new /\ \A j \in DOMAIN ROB : j # scan => ROB'[j] = ROB[j]
  BY <1>1, <1>3, RobUpdate DEF Inv, TypeOK
<1>6. \A i \in DOMAIN ROB : ROB[i].scheduled \in BOOLEAN
  BY EntryTypes DEF Inv, Entry
<1>7. \A i \in DOMAIN ROB :
        /\ ROB'[i].src = ROB[i].src /\ ROB'[i].dst = ROB[i].dst
        /\ ROB'[i].executed = ROB[i].executed /\ ROB'[i].completed = ROB[i].completed
        /\ ROB'[i].scheduled = (ROB[i].scheduled \/ i = scan)
        /\ ROB'[i].instr = ROB[i].instr /\ ROB'[i].wait = ROB[i].wait
  BY <1>3, <1>5, <1>6
<1> QED BY <1>1, <1>2, <1>4, <1>5, <1>7

LEMMA FinishSchedulingInv ==
  ASSUME Inv, FinishScheduling
  PROVE  Inv'
<1>1. TypeOK'
  <2>1. budget > 0 /\ scan' = scan + 1 /\ operand' = 1 /\ budget' = budget - 1
        /\ stage' = "schedule"
        /\ UNCHANGED <<frontend_RAT, backend_RAT, free_registers, physical_register_file, warmup>>
    BY DEF FinishScheduling, Inv, CursorOK, allocator
  <2>2. ROB' \in Seq(Entry) /\ Len(ROB') = Len(ROB)
    BY FinishSchedulingFacts
  <2>3. scan' \in Nat \ {0} /\ budget' \in Nat
    BY <2>1 DEF Inv, TypeOK
  <2> QED BY <2>1, <2>2, <2>3 DEF Inv, TypeOK
<1>2. CursorOK'
  BY FinishSchedulingFacts DEF FinishScheduling, CursorOK
<1>3. EntriesOK'
  <2> SUFFICES ASSUME NEW i \in DOMAIN ROB
               PROVE  /\ ROB'[i].executed => ROB'[i].scheduled
                      /\ ROB'[i].completed => ROB'[i].executed
                      /\ \A k \in DOMAIN ROB'[i].dst : DestRenamed(i, k)' => ROB'[i].dst[k] \in PhysReg
    BY FinishSchedulingFacts DEF EntriesOK
  <2>1. ASSUME NEW k \in DOMAIN ROB[i].dst, DestRenamed(i, k)'
        PROVE  DestRenamed(i, k)
    BY <2>1, FinishSchedulingFacts DEF DestRenamed
  <2> QED BY <2>1, FinishSchedulingFacts DEF Inv, EntriesOK
<1> QED BY <1>1, <1>2, <1>3 DEF Inv

(* The steps of the memory system touch only the counters of an entry. *)
LEMMA MemoryFacts ==
  ASSUME Inv, NEW n \in Nat, FinishLoad(n) \/ FinishStore(n)
  PROVE  /\ stage = "memory"
         /\ UNCHANGED <<frontend_RAT, backend_RAT, free_registers, physical_register_file,
                        warmup, stage, scan, operand, budget>>
         /\ ROB' \in Seq(Entry) /\ Len(ROB') = Len(ROB) /\ DOMAIN ROB' = DOMAIN ROB
         /\ \A i \in DOMAIN ROB :
              /\ ROB'[i].src = ROB[i].src /\ ROB'[i].dst = ROB[i].dst
              /\ ROB'[i].executed = ROB[i].executed /\ ROB'[i].completed = ROB[i].completed
              /\ ROB'[i].scheduled = ROB[i].scheduled
              /\ ROB'[i].instr = ROB[i].instr /\ ROB'[i].wait = ROB[i].wait
<1> DEFINE e == ROB[n]
<1>1. n \in DOMAIN ROB /\ e \in Entry
  BY EntryTypes DEF FinishLoad, FinishStore, Inv
<1>2. PICK new \in Entry : /\ ROB' = [ROB EXCEPT ![n] = new]
                           /\ new.src = e.src /\ new.dst = e.dst
                           /\ new.scheduled = e.scheduled /\ new.executed = e.executed
                           /\ new.completed = e.completed
                           /\ new.instr = e.instr /\ new.wait = e.wait
  <2>1. CASE FinishLoad(n)
    <3>1. e.loads \in Nat /\ e.loads > 0
      BY <1>1, <2>1 DEF FinishLoad, Entry
    <3>2. [e EXCEPT !.loads = e.loads - 1] \in Entry
      BY SMTT(30), <1>1, <3>1 DEF Entry
    <3>3. ROB' = [ROB EXCEPT ![n] = [e EXCEPT !.loads = e.loads - 1]]
      BY <1>1, <2>1 DEF FinishLoad
    <3> QED BY <1>1, <3>2, <3>3 DEF Entry
  <2>2. CASE FinishStore(n)
    <3>1. e.stores \in Nat /\ e.stores > 0
      BY <1>1, <2>2 DEF FinishStore, Entry
    <3>2. [e EXCEPT !.stores = e.stores - 1] \in Entry
      BY <1>1, <3>1 DEF Entry
    <3>3. ROB' = [ROB EXCEPT ![n] = [e EXCEPT !.stores = e.stores - 1]]
      BY <1>1, <2>2 DEF FinishStore
    <3> QED BY <1>1, <3>2, <3>3 DEF Entry
  <2> QED BY <2>1, <2>2
<1>3. /\ ROB' \in Seq(Entry) /\ Len(ROB') = Len(ROB) /\ DOMAIN ROB' = DOMAIN ROB
      /\ ROB'[n] = new /\ \A j \in DOMAIN ROB : j # n => ROB'[j] = ROB[j]
  BY <1>1, <1>2, RobUpdate DEF Inv, TypeOK
<1>4. /\ stage = "memory"
      /\ UNCHANGED <<frontend_RAT, backend_RAT, free_registers, physical_register_file,
                     warmup, stage, scan, operand, budget>>
  BY DEF FinishLoad, FinishStore, allocator
<1>5. ASSUME NEW i \in DOMAIN ROB
      PROVE  /\ ROB'[i].src = ROB[i].src /\ ROB'[i].dst = ROB[i].dst
             /\ ROB'[i].executed = ROB[i].executed /\ ROB'[i].completed = ROB[i].completed
             /\ ROB'[i].scheduled = ROB[i].scheduled
             /\ ROB'[i].instr = ROB[i].instr /\ ROB'[i].wait = ROB[i].wait
  BY <1>2, <1>3
<1> QED BY <1>3, <1>4, <1>5

LEMMA MemoryInv ==
  ASSUME Inv, NEW n \in Nat, FinishLoad(n) \/ FinishStore(n)
  PROVE  Inv'
<1>1. TypeOK'
  BY MemoryFacts DEF Inv, TypeOK
<1>2. CursorOK'
  BY MemoryFacts DEF Inv, CursorOK
<1>3. EntriesOK'
  BY MemoryFacts DEF Inv, EntriesOK, DestRenamed
<1> QED BY <1>1, <1>2, <1>3 DEF Inv

LEMMA BeginDispatchInv ==
  ASSUME Inv, BeginDispatch
  PROVE  Inv'
<1>1. TypeOK'
  BY RenameAssumption DEF BeginDispatch, Inv, TypeOK, allocator
<1>2. CursorOK'
  BY DEF BeginDispatch, Inv, CursorOK
<1>3. EntriesOK'
  BY DEF BeginDispatch, Inv, EntriesOK, DestRenamed
<1> QED BY <1>1, <1>2, <1>3 DEF Inv

(* A dispatched instruction joins the end of the ROB, not renamed. *)
LEMMA DispatchFacts ==
  ASSUME Inv, NEW instr \in Instruction, NEW loads \in 0 .. instr.loads, Dispatch(instr, loads)
  PROVE  /\ stage = "dispatch" /\ Len(ROB) < ROB_SIZE /\ budget > 0
         /\ ROB' \in Seq(Entry) /\ Len(ROB') = Len(ROB) + 1
         /\ DOMAIN ROB' = 1 .. Len(ROB) + 1
         /\ \A i \in DOMAIN ROB : ROB'[i] = ROB[i]
         /\ ~ROB'[Len(ROB) + 1].scheduled /\ ~ROB'[Len(ROB) + 1].executed
         /\ ~ROB'[Len(ROB) + 1].completed
         /\ ROB'[Len(ROB) + 1].instr = instr
         /\ ROB'[Len(ROB) + 1].src = instr.src /\ ROB'[Len(ROB) + 1].dst = instr.dst
         /\ ROB'[Len(ROB) + 1].wait = Latency(SCHEDULING_LATENCY)
<1> DEFINE e == [instr |-> instr, src |-> instr.src, dst |-> instr.dst,
                 scheduled |-> FALSE, executed |-> FALSE, completed |-> FALSE,
                 loads |-> loads, stores |-> instr.stores,
                 wait |-> Latency(SCHEDULING_LATENCY)]
<1>1. /\ instr.src \in Seq(ArchReg \ {0}) /\ instr.dst \in Seq(ArchReg \ {0})
      /\ instr.loads \in Nat /\ instr.stores \in Nat
  BY RenameAssumption
<1>2. instr.src \in Seq(ArchReg) /\ instr.dst \in Seq(ArchReg)
  BY <1>1
<1>3. Latency(SCHEDULING_LATENCY) \in Nat /\ loads \in Nat
  <2>1. SCHEDULING_LATENCY \in Nat
    BY RenameAssumption
  <2>2. Latency(SCHEDULING_LATENCY) \in Nat
    BY <2>1, LatencyType
  <2>3. loads \in Nat
    BY <1>1
  <2> QED BY <2>2, <2>3
<1>4. /\ e \in Entry /\ ~e.scheduled /\ ~e.executed /\ ~e.completed
      /\ e.instr = instr /\ e.src = instr.src /\ e.dst = instr.dst
      /\ e.wait = Latency(SCHEDULING_LATENCY)
  BY <1>1, <1>2, <1>3 DEF Entry
<1>5. ROB' = Append(ROB, e) /\ stage = "dispatch" /\ Len(ROB) < ROB_SIZE /\ budget > 0
  BY DEF Dispatch, CanDispatch
<1> HIDE DEF e
<1> QED BY <1>4, <1>5 DEF Inv, TypeOK

LEMMA DispatchInv ==
  ASSUME Inv, NEW instr \in Instruction, NEW loads \in 0 .. instr.loads, Dispatch(instr, loads)
  PROVE  Inv'
<1>1. TypeOK'
  <2>1. Len(ROB') <= ROB_SIZE
    BY DispatchFacts, RenameAssumption DEF Inv, TypeOK
  <2>2. /\ ROB' \in Seq(Entry) /\ budget > 0 /\ budget' = budget - 1
        /\ UNCHANGED <<frontend_RAT, backend_RAT, free_registers, physical_register_file>>
        /\ UNCHANGED <<warmup, stage, scan, operand>>
    BY DispatchFacts DEF Dispatch, allocator
  <2>3. budget' \in Nat
    BY <2>2 DEF Inv, TypeOK
  <2> QED BY <2>1, <2>2, <2>3 DEF Inv, TypeOK
<1>2. CursorOK'
  BY DispatchFacts DEF Dispatch, Inv, CursorOK
<1>3. EntriesOK'
  <2> SUFFICES ASSUME NEW i \in DOMAIN ROB'
               PROVE  /\ ROB'[i].executed => ROB'[i].scheduled
                      /\ ROB'[i].completed => ROB'[i].executed
                      /\ \A k \in DOMAIN ROB'[i].dst : DestRenamed(i, k)' => ROB'[i].dst[k] \in PhysReg
    BY DEF EntriesOK
  <2>1. i \in DOMAIN ROB \/ i = Len(ROB) + 1
    BY DispatchFacts DEF Inv, TypeOK
  <2>2. stage' = "dispatch"
    BY DEF Dispatch
  <2>3. CASE i \in DOMAIN ROB
    BY <2>2, <2>3, DispatchFacts DEF Inv, EntriesOK, DestRenamed
  <2>4. CASE i = Len(ROB) + 1
    BY <2>2, <2>4, DispatchFacts DEF DestRenamed
  <2> QED BY <2>1, <2>3, <2>4
<1> QED BY <1>1, <1>2, <1>3 DEF Inv

LEMMA NextCycleFacts ==
  ASSUME Inv, NextCycle
  PROVE  /\ stage = "dispatch" /\ stage' = "retire" /\ scan = 1 /\ operand = 1
         /\ ROB' \in Seq(Entry) /\ Len(ROB') = Len(ROB) /\ DOMAIN ROB' = DOMAIN ROB
         /\ \A i \in DOMAIN ROB :
              /\ ROB'[i].src = ROB[i].src /\ ROB'[i].dst = ROB[i].dst
              /\ ROB'[i].executed = ROB[i].executed /\ ROB'[i].completed = ROB[i].completed
              /\ ROB'[i].scheduled = ROB[i].scheduled
              /\ ROB'[i].instr = ROB[i].instr
              /\ ROB'[i].wait = IF ROB[i].wait = 0 THEN 0 ELSE ROB[i].wait - 1
<1>1. ROB' = [i \in DOMAIN ROB |-> [ROB[i] EXCEPT !.wait = IF @ = 0 THEN 0 ELSE @ - 1]]
  BY DEF NextCycle
<1>2. ASSUME NEW i \in DOMAIN ROB
      PROVE  /\ ROB'[i] \in Entry
             /\ ROB'[i].src = ROB[i].src /\ ROB'[i].dst = ROB[i].dst
             /\ ROB'[i].executed = ROB[i].executed /\ ROB'[i].completed = ROB[i].completed
             /\ ROB'[i].scheduled = ROB[i].scheduled
             /\ ROB'[i].instr = ROB[i].instr
             /\ ROB'[i].wait = IF ROB[i].wait = 0 THEN 0 ELSE ROB[i].wait - 1
  <2> DEFINE e == ROB[i]
             w == IF e.wait = 0 THEN 0 ELSE e.wait - 1
  <2>1. e \in Entry
    BY EntryTypes DEF Inv
  <2>2. w \in Nat
    BY <2>1 DEF Entry
  <2>3. ROB'[i] = [e EXCEPT !.wait = w]
    BY <1>1
  <2> HIDE DEF w
  <2>4. /\ ROB'[i] \in Entry /\ ROB'[i].wait = w
        /\ ROB'[i].src = ROB[i].src /\ ROB'[i].dst = ROB[i].dst
        /\ ROB'[i].executed = ROB[i].executed /\ ROB'[i].completed = ROB[i].completed
        /\ ROB'[i].scheduled = ROB[i].scheduled /\ ROB'[i].instr = ROB[i].instr
    BY <2>1, <2>2, <2>3 DEF Entry
  <2> QED BY <2>4 DEF w
<1>3. ROB' \in Seq(Entry) /\ Len(ROB') = Len(ROB) /\ DOMAIN ROB' = DOMAIN ROB
  BY <1>1, <1>2, RobRewrite DEF Inv, TypeOK
<1> QED BY <1>2, <1>3 DEF NextCycle, Inv, CursorOK

LEMMA NextCycleInv ==
  ASSUME Inv, NextCycle
  PROVE  Inv'
<1>1. TypeOK'
  BY NextCycleFacts DEF NextCycle, Inv, TypeOK, allocator
<1>2. CursorOK'
  BY NextCycleFacts DEF NextCycle, Inv, TypeOK, CursorOK
<1>3. EntriesOK'
  BY NextCycleFacts DEF Inv, EntriesOK, DestRenamed
<1> QED BY <1>1, <1>2, <1>3 DEF Inv

LEMMA NextInv == ASSUME Inv, RegInv, Next PROVE Inv'
<1>1. ASSUME Operate PROVE Inv'
  BY <1>1, RetireDestInv, RetireNextInv, RetireEraseInv, CompleteInflightInv, ExecuteInv,
     ScheduleStopsInv, ScheduleSkipsInv, BeginSchedulingInv, RenameSourceInv, RenameDestInv,
     FinishSchedulingInv, BeginDispatchInv, DispatchInv, NextCycleInv
     DEF Operate
<1>2. ASSUME MemorySystem PROVE Inv'
  <2>1. PICK n \in 1 .. ROB_SIZE : FinishLoad(n) \/ FinishStore(n)
    BY <1>2 DEF MemorySystem
  <2>2. n \in Nat
    BY <2>1, RenameAssumption
  <2> QED BY <2>1, <2>2, MemoryInv
<1> QED BY <1>1, <1>2 DEF Next

--------------------------------------------------------------------------------
(* RegInv: no register is lost or used twice *)

LEMMA InitRegInv == Init => RegInv
<1> SUFFICES ASSUME Init PROVE RegInv
  OBVIOUS
<1>1. /\ free_registers = [i \in 1 .. REGISTER_FILE_SIZE |-> i - 1]
      /\ backend_RAT = [r \in ArchReg |-> NoReg] /\ ROB = <<>>
      /\ REGISTER_FILE_SIZE \in Nat \ {0}
  BY RenameAssumption DEF Init
<1>2. FreeOnce
  BY <1>1 DEF FreeOnce
<1>3. \A p \in PhysReg : IsFree(p)
  <2> SUFFICES ASSUME NEW p \in PhysReg PROVE IsFree(p)
    OBVIOUS
  <2>1. p + 1 \in DOMAIN free_registers /\ free_registers[p + 1] = p
    BY <1>1 DEF PhysReg
  <2> QED BY <2>1 DEF IsFree
<1>4. \A p \in PhysReg : ~IsCommitted(p) /\ ~IsInFlight(p)
  BY <1>1, PhysIsArch DEF IsCommitted, IsInFlight
<1>5. CommittedOnce /\ InFlightOnce
  BY <1>1 DEF CommittedOnce, InFlightOnce
<1>6. MappingOK
  BY <1>1, <1>3 DEF MappingOK
<1> QED BY <1>2, <1>3, <1>4, <1>5, <1>6 DEF RegInv, RegistersConserved, OneUse, NoneLost

(* Steps that leave the tables alone and the same registers in flight. *)
LEMMA SameUse ==
  ASSUME RegInv, UNCHANGED <<frontend_RAT, backend_RAT, free_registers>>,
         \A p \in PhysReg :
           physical_register_file'[p].arch_reg_index = physical_register_file[p].arch_reg_index,
         InFlightOnce', \A p \in PhysReg : IsInFlight(p)' <=> IsInFlight(p)
  PROVE  RegInv'
<1>1. \A p \in PhysReg : (IsFree(p)' <=> IsFree(p)) /\ (IsCommitted(p)' <=> IsCommitted(p))
  BY DEF IsFree, IsCommitted
<1>2. FreeOnce' /\ CommittedOnce'
  BY DEF RegInv, RegistersConserved, FreeOnce, CommittedOnce
<1>3. OneUse' /\ NoneLost'
  BY <1>1 DEF RegInv, RegistersConserved, OneUse, NoneLost
<1>4. MappingOK'
  BY <1>1 DEF RegInv, MappingOK
<1> QED BY <1>2, <1>3, <1>4 DEF RegInv, RegistersConserved

LEMMA SameInFlight ==
  ASSUME RegInv, DOMAIN ROB' = DOMAIN ROB,
         \A i \in DOMAIN ROB : ROB'[i].dst = ROB[i].dst,
         \A i \in DOMAIN ROB : \A k \in DOMAIN ROB[i].dst : InFlight(i, k)' <=> InFlight(i, k)
  PROVE  InFlightOnce' /\ \A p \in PhysReg : IsInFlight(p)' <=> IsInFlight(p)
<1>1. InFlightOnce'
  BY DEF RegInv, RegistersConserved, InFlightOnce
<1>2. \A p \in PhysReg : IsInFlight(p)' <=> IsInFlight(p)
  BY DEF IsInFlight
<1> QED BY <1>1, <1>2

(* Steps between which no entry is retired, renamed or moved. *)
LEMMA QuietStep ==
  ASSUME Inv, RegInv, UNCHANGED <<frontend_RAT, backend_RAT, free_registers>>,
         \A p \in PhysReg :
           physical_register_file'[p].arch_reg_index = physical_register_file[p].arch_reg_index,
         DOMAIN ROB' = DOMAIN ROB, \A i \in DOMAIN ROB : ROB'[i].dst = ROB[i].dst,
         \A i \in DOMAIN ROB : \A k \in DOMAIN ROB[i].dst :
           /\ DestRenamed(i, k)' <=> DestRenamed(i, k)
           /\ Committed(i, k)' <=> Committed(i, k)
  PROVE  RegInv'
<1>1. \A i \in DOMAIN ROB : \A k \in DOMAIN ROB[i].dst : InFlight(i, k)' <=> InFlight(i, k)
  BY DEF InFlight
<1> QED BY <1>1, SameInFlight, SameUse

LEMMA RetireNextRegInv ==
  ASSUME Inv, RegInv, RetireNext
  PROVE  RegInv'
<1>1. ASSUME NEW i \in DOMAIN ROB, NEW k \in DOMAIN ROB[i].dst
      PROVE  Committed(i, k)' <=> Committed(i, k)
  <2>1. /\ stage = "retire" /\ stage' = "retire" /\ scan \in Nat /\ operand \in Nat
        /\ scan' = scan + 1 /\ operand' = 1 /\ operand > Len(ROB[scan].dst)
    BY DEF RetireNext, Retiring, Inv, TypeOK
  <2>2. i \in Nat /\ k \in Nat \ {0} /\ k <= Len(ROB[i].dst) /\ Len(ROB[i].dst) \in Nat
    BY EntryTypes DEF Inv
  <2>3. CASE i = scan
    <3> DEFINE n == Len(ROB[i].dst)
    <3> HIDE DEF n
    <3>1. k <= n /\ n < operand /\ n \in Nat
      BY <2>1, <2>2, <2>3 DEF n
    <3>2. k < operand
      BY <2>1, <2>2, <3>1
    <3> QED BY <2>1, <2>3, <3>2 DEF Committed
  <2>4. CASE i # scan
    BY <2>1, <2>2, <2>4 DEF Committed
  <2> QED BY <2>3, <2>4
<1>2. ASSUME NEW i \in DOMAIN ROB, NEW k \in DOMAIN ROB[i].dst
      PROVE  DestRenamed(i, k)' <=> DestRenamed(i, k)
  BY DEF RetireNext, Retiring, DestRenamed
<1> QED BY <1>1, <1>2, QuietStep DEF RetireNext, allocator

LEMMA CompleteInflightRegInv ==
  ASSUME Inv, RegInv, CompleteInflight
  PROVE  RegInv'
<1>1. ROB' = [i \in DOMAIN ROB |->
                IF i \in Completing THEN [ROB[i] EXCEPT !.completed = TRUE] ELSE ROB[i]]
  BY DEF CompleteInflight
<1>2. ASSUME NEW i \in DOMAIN ROB
      PROVE  /\ ROB'[i].src = ROB[i].src /\ ROB'[i].dst = ROB[i].dst
             /\ ROB'[i].scheduled = ROB[i].scheduled
  BY <1>1, EntryTypes DEF Inv, Entry
<1>3. \A p \in PhysReg :
        physical_register_file'[p].arch_reg_index = physical_register_file[p].arch_reg_index
  <2> SUFFICES ASSUME NEW p \in PhysReg
               PROVE  physical_register_file'[p].arch_reg_index
                        = physical_register_file[p].arch_reg_index
    OBVIOUS
  <2> DEFINE Done(q) == \E i \in Completing : \E k \in DOMAIN ROB[i].dst : ROB[i].dst[k] = q
  <2>1. physical_register_file'[p] = IF Done(p)
                                     THEN [physical_register_file[p] EXCEPT !.valid = TRUE]
                                     ELSE physical_register_file[p]
    BY DEF CompleteInflight
  <2> HIDE DEF Done
  <2>2. physical_register_file[p] \in PhysicalRegister
    BY DEF Inv, TypeOK
  <2> QED BY <2>1, <2>2 DEF PhysicalRegister
<1>4. DOMAIN ROB' = DOMAIN ROB
  BY <1>1
<1>5. stage = "complete" /\ stage' = "execute"
      /\ UNCHANGED <<frontend_RAT, backend_RAT, free_registers>>
  BY DEF CompleteInflight
<1>6. ASSUME NEW i \in DOMAIN ROB, NEW k \in DOMAIN ROB[i].dst
      PROVE  /\ DestRenamed(i, k)' <=> DestRenamed(i, k)
             /\ Committed(i, k)' <=> Committed(i, k)
  BY <1>2, <1>5 DEF DestRenamed, Committed
<1> QED BY <1>2, <1>3, <1>4, <1>5, <1>6, QuietStep

LEMMA ExecuteRegInv ==
  ASSUME Inv, RegInv, Execute
  PROVE  RegInv'
<1>1. ROB' = [i \in DOMAIN ROB |->
                IF i \in Executing
                THEN [ROB[i] EXCEPT !.executed = TRUE, !.wait = Latency(EXEC_LATENCY)]
                ELSE ROB[i]]
  BY DEF Execute
<1>2. ASSUME NEW i \in DOMAIN ROB
      PROVE  ROB'[i].dst = ROB[i].dst /\ ROB'[i].scheduled = ROB[i].scheduled
  BY <1>1, EntryTypes DEF Inv, Entry
<1>3. DOMAIN ROB' = DOMAIN ROB
  BY <1>1
<1>4. stage = "execute" /\ stage' = "schedule" /\ UNCHANGED allocator
  BY DEF Execute
<1>5. ASSUME NEW i \in DOMAIN ROB, NEW k \in DOMAIN ROB[i].dst
      PROVE  /\ DestRenamed(i, k)' <=> DestRenamed(i, k)
             /\ Committed(i, k)' <=> Committed(i, k)
  BY <1>2, <1>4 DEF DestRenamed, Committed
<1> QED BY <1>2, <1>3, <1>4, <1>5, QuietStep DEF allocator

LEMMA ScheduleRegInv ==
  ASSUME Inv, RegInv, ScheduleStops \/ ScheduleEnds \/ ScheduleSkips \/ BeginScheduling
  PROVE  RegInv'
<1>1. /\ stage = "schedule" /\ stage' \in {"schedule", "rename", "memory"}
      /\ stage' = "rename" => operand' = 1
      /\ UNCHANGED <<ROB, allocator>>
  BY DEF ScheduleStops, ScheduleEnds, ScheduleSkips, BeginScheduling, Scheduling
<1>2. ASSUME NEW i \in DOMAIN ROB, NEW k \in DOMAIN ROB[i].dst
      PROVE  /\ DestRenamed(i, k)' <=> DestRenamed(i, k)
             /\ Committed(i, k)' <=> Committed(i, k)
  <2>1. Len(ROB[i].src) \in Nat /\ k \in Nat \ {0}
    BY EntryTypes DEF Inv
  <2> QED BY <1>1, <2>1 DEF DestRenamed, Committed
<1> QED BY <1>1, <1>2, QuietStep DEF allocator

LEMMA FinishSchedulingRegInv ==
  ASSUME Inv, RegInv, FinishScheduling
  PROVE  RegInv'
<1>1. ASSUME NEW i \in DOMAIN ROB, NEW k \in DOMAIN ROB[i].dst
      PROVE  /\ DestRenamed(i, k)' <=> DestRenamed(i, k)
             /\ Committed(i, k)' <=> Committed(i, k)
  BY FinishSchedulingFacts DEF DestRenamed, Committed
<1> QED BY <1>1, FinishSchedulingFacts, QuietStep DEF FinishScheduling, allocator

LEMMA MemoryRegInv ==
  ASSUME Inv, RegInv, NEW n \in Nat, FinishLoad(n) \/ FinishStore(n)
  PROVE  RegInv'
<1>1. ASSUME NEW i \in DOMAIN ROB, NEW k \in DOMAIN ROB[i].dst
      PROVE  /\ DestRenamed(i, k)' <=> DestRenamed(i, k)
             /\ Committed(i, k)' <=> Committed(i, k)
  BY MemoryFacts DEF DestRenamed, Committed
<1> QED BY <1>1, MemoryFacts, QuietStep

LEMMA BeginDispatchRegInv ==
  ASSUME Inv, RegInv, BeginDispatch
  PROVE  RegInv'
<1>1. ASSUME NEW i \in DOMAIN ROB, NEW k \in DOMAIN ROB[i].dst
      PROVE  /\ DestRenamed(i, k)' <=> DestRenamed(i, k)
             /\ Committed(i, k)' <=> Committed(i, k)
  BY DEF BeginDispatch, DestRenamed, Committed
<1> QED BY <1>1, QuietStep DEF BeginDispatch, allocator

LEMMA NextCycleRegInv ==
  ASSUME Inv, RegInv, NextCycle
  PROVE  RegInv'
<1>1. scan' = scan /\ operand' = operand /\ UNCHANGED allocator
  BY DEF NextCycle
<1>2. ASSUME NEW i \in DOMAIN ROB, NEW k \in DOMAIN ROB[i].dst
      PROVE  /\ DestRenamed(i, k)' <=> DestRenamed(i, k)
             /\ Committed(i, k)' <=> Committed(i, k)
  <2>1. i \in Nat \ {0} /\ k \in Nat \ {0}
    BY EntryTypes DEF Inv
  <2> QED BY <1>1, <2>1, NextCycleFacts DEF DestRenamed, Committed
<1> QED BY <1>1, <1>2, NextCycleFacts, QuietStep DEF allocator

LEMMA DispatchRegInv ==
  ASSUME Inv, RegInv, NEW instr \in Instruction, NEW loads \in 0 .. instr.loads,
         Dispatch(instr, loads)
  PROVE  RegInv'
<1>1. /\ stage = "dispatch" /\ UNCHANGED <<stage, scan, operand, allocator>>
      /\ Len(ROB) \in Nat /\ DOMAIN ROB = 1 .. Len(ROB)
  BY DEF Dispatch, Inv, TypeOK
<1>2. ASSUME NEW i \in DOMAIN ROB
      PROVE  i \in DOMAIN ROB' /\ ROB'[i] = ROB[i] /\ \A k : InFlight(i, k)' <=> InFlight(i, k)
  BY <1>1, DispatchFacts DEF InFlight, DestRenamed, Committed
<1>3. ASSUME NEW i \in DOMAIN ROB', NEW k, InFlight(i, k)'
      PROVE  i \in DOMAIN ROB
  <2>1. i \in DOMAIN ROB \/ i = Len(ROB) + 1
    BY <1>1, DispatchFacts
  <2>2. i # Len(ROB) + 1
    BY <1>1, <1>3, DispatchFacts DEF InFlight, DestRenamed
  <2> QED BY <2>1, <2>2
<1>4. InFlightOnce'
  <2> SUFFICES ASSUME NEW i \in DOMAIN ROB', NEW j \in DOMAIN ROB',
                      NEW k \in DOMAIN ROB'[i].dst, NEW m \in DOMAIN ROB'[j].dst,
                      InFlight(i, k)', InFlight(j, m)', ROB'[i].dst[k] = ROB'[j].dst[m]
               PROVE  i = j /\ k = m
    BY DEF InFlightOnce
  <2>1. i \in DOMAIN ROB /\ j \in DOMAIN ROB
    BY <1>3
  <2>2. InFlight(i, k) /\ InFlight(j, m) /\ ROB[i].dst[k] = ROB[j].dst[m]
        /\ k \in DOMAIN ROB[i].dst /\ m \in DOMAIN ROB[j].dst
    BY <1>2, <2>1
  <2> QED BY <2>1, <2>2 DEF RegInv, RegistersConserved, InFlightOnce
<1>5. ASSUME NEW p \in PhysReg
      PROVE  IsInFlight(p)' <=> IsInFlight(p)
  <2>1. ASSUME IsInFlight(p)' PROVE IsInFlight(p)
    <3>0. PICK i \in DOMAIN ROB' : \E k \in DOMAIN ROB'[i].dst : InFlight(i, k)' /\ ROB'[i].dst[k] = p
      BY <2>1 DEF IsInFlight
    <3>1. PICK k \in DOMAIN ROB'[i].dst : InFlight(i, k)' /\ ROB'[i].dst[k] = p
      BY <3>0
    <3>2. i \in DOMAIN ROB
      BY <1>3, <3>1
    <3>3. k \in DOMAIN ROB[i].dst /\ InFlight(i, k) /\ ROB[i].dst[k] = p
      BY <1>2, <3>1, <3>2
    <3> QED BY <3>2, <3>3 DEF IsInFlight
  <2>2. ASSUME IsInFlight(p) PROVE IsInFlight(p)'
    <3>0. PICK i \in DOMAIN ROB : \E k \in DOMAIN ROB[i].dst : InFlight(i, k) /\ ROB[i].dst[k] = p
      BY <2>2 DEF IsInFlight
    <3>1. PICK k \in DOMAIN ROB[i].dst : InFlight(i, k) /\ ROB[i].dst[k] = p
      BY <3>0
    <3>2. i \in DOMAIN ROB' /\ k \in DOMAIN ROB'[i].dst /\ InFlight(i, k)' /\ ROB'[i].dst[k] = p
      BY <1>2, <3>1
    <3> QED BY <3>2 DEF IsInFlight
  <2> QED BY <2>1, <2>2
<1> QED BY <1>1, <1>4, <1>5, SameUse DEF allocator

(* Erasing the committed entries moves the others, with what they hold. *)
LEMMA RetireEraseRegInv ==
  ASSUME Inv, RegInv, RetireErase
  PROVE  RegInv'
<1> DEFINE Old(i) == i + scan - 1
<1>1. /\ stage = "retire" /\ stage' = "complete" /\ UNCHANGED allocator
      /\ scan \in Nat \ {0} /\ operand = 1 /\ Len(ROB) \in Nat
      /\ DOMAIN ROB' = 1 .. Len(ROB) - scan + 1 /\ DOMAIN ROB = 1 .. Len(ROB)
  BY Erased DEF RetireErase, Inv, TypeOK
<1>2. ASSUME NEW i \in DOMAIN ROB'
      PROVE  /\ Old(i) \in DOMAIN ROB /\ ROB'[i] = ROB[Old(i)]
             /\ \A k : InFlight(i, k)' <=> InFlight(Old(i), k)
  <2>1. Old(i) \in DOMAIN ROB /\ ROB'[i] = ROB[Old(i)] /\ Old(i) \in Nat /\ Old(i) >= scan
    BY <1>1, Erased
  <2>2. ASSUME NEW k \in DOMAIN ROB[Old(i)].dst
        PROVE  ~Committed(Old(i), k) /\ ~Committed(i, k)'
    <3>1. k \in Nat \ {0}
      BY <2>1, EntryTypes DEF Inv
    <3> QED BY <1>1, <2>1, <3>1 DEF Committed
  <2>3. ASSUME NEW k PROVE DestRenamed(i, k)' <=> DestRenamed(Old(i), k)
    BY <1>1, <2>1 DEF DestRenamed
  <2> HIDE DEF Old
  <2> QED BY <2>1, <2>2, <2>3 DEF InFlight
<1>3. ASSUME NEW i \in DOMAIN ROB, NEW k, InFlight(i, k)
      PROVE  i - scan + 1 \in DOMAIN ROB' /\ Old(i - scan + 1) = i
  BY <1>1, <1>3 DEF InFlight, Committed
<1>4. \A i, j \in DOMAIN ROB' : Old(i) = Old(j) => i = j
  BY <1>1
<1> HIDE DEF Old
<1>5. InFlightOnce'
  <2> SUFFICES ASSUME NEW i \in DOMAIN ROB', NEW j \in DOMAIN ROB',
                      NEW k \in DOMAIN ROB'[i].dst, NEW m \in DOMAIN ROB'[j].dst,
                      InFlight(i, k)', InFlight(j, m)', ROB'[i].dst[k] = ROB'[j].dst[m]
               PROVE  i = j /\ k = m
    BY DEF InFlightOnce
  <2>1. /\ Old(i) \in DOMAIN ROB /\ k \in DOMAIN ROB[Old(i)].dst /\ InFlight(Old(i), k)
        /\ Old(j) \in DOMAIN ROB /\ m \in DOMAIN ROB[Old(j)].dst /\ InFlight(Old(j), m)
        /\ ROB[Old(i)].dst[k] = ROB[Old(j)].dst[m]
    BY <1>2
  <2>2. Old(i) = Old(j) /\ k = m
    BY <2>1 DEF RegInv, RegistersConserved, InFlightOnce
  <2> QED BY <1>4, <2>2
<1>6. ASSUME NEW p \in PhysReg
      PROVE  IsInFlight(p)' <=> IsInFlight(p)
  <2>1. ASSUME IsInFlight(p)' PROVE IsInFlight(p)
    <3>0. PICK i \in DOMAIN ROB' : \E k \in DOMAIN ROB'[i].dst : InFlight(i, k)' /\ ROB'[i].dst[k] = p
      BY <2>1 DEF IsInFlight
    <3>1. PICK k \in DOMAIN ROB'[i].dst : InFlight(i, k)' /\ ROB'[i].dst[k] = p
      BY <3>0
    <3>2. /\ Old(i) \in DOMAIN ROB /\ k \in DOMAIN ROB[Old(i)].dst
          /\ InFlight(Old(i), k) /\ ROB[Old(i)].dst[k] = p
      BY <1>2, <3>1
    <3> QED BY <3>2 DEF IsInFlight
  <2>2. ASSUME IsInFlight(p) PROVE IsInFlight(p)'
    <3>0. PICK i \in DOMAIN ROB : \E k \in DOMAIN ROB[i].dst : InFlight(i, k) /\ ROB[i].dst[k] = p
      BY <2>2 DEF IsInFlight
    <3>1. PICK k \in DOMAIN ROB[i].dst : InFlight(i, k) /\ ROB[i].dst[k] = p
      BY <3>0
    <3>2. PICK n \in DOMAIN ROB' : Old(n) = i
      BY <1>3, <3>1
    <3>3. k \in DOMAIN ROB'[n].dst /\ InFlight(n, k)' /\ ROB'[n].dst[k] = p
      BY <1>2, <3>1, <3>2
    <3> QED BY <3>2, <3>3 DEF IsInFlight
  <2> QED BY <2>1, <2>2
<1> QED BY <1>1, <1>5, <1>6, SameUse DEF allocator

(* A destination retires: its register passes from in flight to committed,   *)
(* and the one it supersedes from committed to free.                         *)
LEMMA RetireDestRegInv ==
  ASSUME Inv, RegInv, RetireDest
  PROVE  RegInv'
<1> DEFINE p    == ROB[scan].dst[operand]
           arch == physical_register_file[p].arch_reg_index
           old  == backend_RAT[arch]
           Freed(q) == old # NoReg /\ q = old
<1>1. /\ scan \in DOMAIN ROB /\ operand \in DOMAIN ROB[scan].dst
      /\ p \in PhysReg /\ InFlight(scan, operand) /\ ~IsFree(p) /\ ~IsCommitted(p)
      /\ arch \in ArchReg /\ frontend_RAT[arch] # NoReg
      /\ old \in PhysReg \cup {NoReg} /\ old # p
      /\ old # NoReg => IsCommitted(old) /\ ~IsFree(old)
  BY SMTT(30), RetireDestFacts
<1>2. /\ backend_RAT' = [backend_RAT EXCEPT ![arch] = p]
      /\ UNCHANGED <<ROB, frontend_RAT, stage, scan>>
      /\ operand' = operand + 1 /\ stage = "retire" /\ operand \in Nat /\ scan \in Nat
  BY DEF RetireDest, Retiring, Inv, TypeOK
<1>3. /\ old = NoReg => /\ free_registers' = free_registers
                        /\ physical_register_file' = [q \in PhysReg |-> physical_register_file[q]]
      /\ old # NoReg => /\ free_registers' = Append(free_registers, old)
                        /\ physical_register_file' =
                             [q \in PhysReg |-> IF q = old THEN Cleared
                                                ELSE physical_register_file[q]]
  <2>1. free_registers' = IF Recycled(p, old) = {} THEN free_registers
                          ELSE Append(free_registers, old)
    BY DEF RetireDest, Recycled
  <2>2. physical_register_file' =
          [q \in PhysReg |-> IF q \in Recycled(p, old) THEN Cleared
                             ELSE physical_register_file[q]]
    BY DEF RetireDest
  <2> HIDE DEF p, arch, old
  <2>3. CASE old = NoReg
    BY <2>1, <2>2, <2>3 DEF Recycled
  <2>4. CASE old # NoReg
    BY <2>1, <2>2, <2>4 DEF Recycled
  <2> QED BY SMTT(30), <2>3, <2>4
<1> HIDE DEF p, arch, old
<1>4. FreeOnce' /\ \A q \in PhysReg : IsFree(q)' <=> IsFree(q) \/ Freed(q)
  <2>1. FreeOnce
    BY DEF RegInv, RegistersConserved
  <2>2. CASE old = NoReg
    BY <1>3, <2>1, <2>2 DEF FreeOnce, IsFree
  <2>3. CASE old # NoReg
    <3>1. old \in PhysReg /\ ~IsFree(old) /\ free_registers' = Append(free_registers, old)
      BY <1>1, <1>3, <2>3
    <3> QED BY <2>1, <2>3, <3>1, GiveFree DEF Inv
  <2> QED BY <2>2, <2>3
<1>5. \A q \in PhysReg : ~Freed(q) =>
        physical_register_file'[q].arch_reg_index = physical_register_file[q].arch_reg_index
  BY <1>3
<1>6. \A i \in DOMAIN ROB : \A k \in DOMAIN ROB[i].dst :
        InFlight(i, k)' <=> InFlight(i, k) /\ ~(i = scan /\ k = operand)
  <2> SUFFICES ASSUME NEW i \in DOMAIN ROB, NEW k \in DOMAIN ROB[i].dst
               PROVE  InFlight(i, k)' <=> InFlight(i, k) /\ ~(i = scan /\ k = operand)
    OBVIOUS
  <2>1. i \in Nat /\ k \in Nat
    BY EntryTypes DEF Inv
  <2> QED BY <1>2, <2>1 DEF InFlight, DestRenamed, Committed
<1>7. InFlightOnce'
  BY <1>2, <1>6 DEF RegInv, RegistersConserved, InFlightOnce
<1>8. \A q \in PhysReg : IsInFlight(q)' <=> IsInFlight(q) /\ q # p
  <2> SUFFICES ASSUME NEW q \in PhysReg PROVE IsInFlight(q)' <=> IsInFlight(q) /\ q # p
    OBVIOUS
  <2>1. ASSUME NEW i \in DOMAIN ROB, NEW k \in DOMAIN ROB[i].dst, InFlight(i, k)
        PROVE  ROB[i].dst[k] = p <=> i = scan /\ k = operand
    BY <1>1, <2>1 DEF RegInv, RegistersConserved, InFlightOnce, p
  <2> QED BY <1>2, <1>6, <2>1 DEF IsInFlight
<1>9. \A q \in PhysReg : IsCommitted(q)' <=> (IsCommitted(q) /\ ~Freed(q)) \/ q = p
  <2> SUFFICES ASSUME NEW q \in PhysReg
               PROVE  IsCommitted(q)' <=> (IsCommitted(q) /\ ~Freed(q)) \/ q = p
    OBVIOUS
  <2>1. backend_RAT \in [ArchReg -> PhysReg \cup {NoReg}]
    BY DEF Inv, TypeOK
  <2>2. \A r \in ArchReg : backend_RAT'[r] = IF r = arch THEN p ELSE backend_RAT[r]
    BY <1>2, <2>1
  <2>3. \A r \in ArchReg : Freed(q) /\ backend_RAT[r] = q => r = arch
    BY <1>1 DEF old, RegInv, RegistersConserved, CommittedOnce
  <2>4. backend_RAT[arch] = q => Freed(q)
    BY PhysIsArch DEF old
  <2> HIDE DEF Freed
  <2> QED BY <1>1, <2>2, <2>3, <2>4 DEF IsCommitted
<1>10. CommittedOnce'
  <2> SUFFICES ASSUME NEW q \in ArchReg, NEW r \in ArchReg,
                      backend_RAT'[q] = backend_RAT'[r], backend_RAT'[q] # NoReg
               PROVE  q = r
    BY DEF CommittedOnce
  <2>1. \A s \in ArchReg : backend_RAT'[s] = IF s = arch THEN p ELSE backend_RAT[s]
    BY <1>2 DEF Inv, TypeOK
  <2>2. \A s \in ArchReg : backend_RAT[s] # p
    BY <1>1 DEF IsCommitted
  <2> QED BY <2>1, <2>2 DEF RegInv, RegistersConserved, CommittedOnce
<1>11. OneUse' /\ NoneLost'
  <2>1. \A q \in PhysReg : Freed(q) => IsCommitted(q) /\ q # p
    BY <1>1
  <2>2. IsInFlight(p)
    BY <1>1 DEF IsInFlight, p
  <2> HIDE DEF Freed
  <2>3. OneUse'
    BY <1>1, <1>4, <1>8, <1>9, <2>1, <2>2 DEF RegInv, RegistersConserved, OneUse
  <2>4. NoneLost'
    BY <1>1, <1>4, <1>8, <1>9, <2>1, <2>2 DEF RegInv, RegistersConserved, NoneLost
  <2> QED BY <2>3, <2>4
<1>12. MappingOK'
  <2>1. ASSUME NEW q \in PhysReg, ~IsFree(q)'
        PROVE  /\ physical_register_file'[q].arch_reg_index \in ArchReg
               /\ frontend_RAT'[physical_register_file'[q].arch_reg_index] # NoReg
    BY <1>2, <1>4, <1>5, <2>1 DEF RegInv, MappingOK
  <2>2. ASSUME NEW r \in ArchReg, backend_RAT'[r] # NoReg
        PROVE  frontend_RAT'[r] # NoReg
    BY <1>1, <1>2, <2>2 DEF RegInv, MappingOK, Inv, TypeOK
  <2> QED BY <2>1, <2>2 DEF MappingOK
<1> QED BY SMTT(30), <1>4, <1>7, <1>10, <1>11, <1>12 DEF RegInv, RegistersConserved

(* A source that was never written gets a register, committed at once.       *)
LEMMA RenameSourceRegInv ==
  ASSUME Inv, RegInv, RenameSource
  PROVE  RegInv'
<1> DEFINE r == ROB[scan].src[operand]
           p == Head(free_registers)
<1>1. /\ stage = "rename" /\ stage' = "rename" /\ scan' = scan /\ operand' = operand + 1
      /\ operand \in Nat \ {0} /\ operand <= Len(ROB[scan].src) /\ scan \in DOMAIN ROB
      /\ operand \in DOMAIN ROB[scan].src /\ r \in ArchReg
  <2>1. /\ stage = "rename" /\ stage' = "rename" /\ scan' = scan /\ operand' = operand + 1
        /\ operand \in Nat \ {0} /\ operand <= Len(ROB[scan].src) /\ scan \in DOMAIN ROB
    BY DEF RenameSource, Inv, TypeOK, CursorOK
  <2>2. Len(ROB[scan].src) \in Nat /\ ROB[scan].src \in Seq(ArchReg)
    BY <2>1, EntryTypes DEF Inv
  <2> QED BY <2>1, <2>2
<1>2. /\ DOMAIN ROB' = DOMAIN ROB
      /\ \A i \in DOMAIN ROB : /\ ROB'[i].dst = ROB[i].dst
                               /\ ROB'[i].scheduled = ROB[i].scheduled
                               /\ Len(ROB'[i].src) = Len(ROB[i].src)
  BY RenameSourceFacts
<1>3. \A i \in DOMAIN ROB : \A k \in DOMAIN ROB[i].dst :
        /\ DestRenamed(i, k)' <=> DestRenamed(i, k)
        /\ Committed(i, k)' <=> Committed(i, k)
  <2> SUFFICES ASSUME NEW i \in DOMAIN ROB, NEW k \in DOMAIN ROB[i].dst
               PROVE  /\ DestRenamed(i, k)' <=> DestRenamed(i, k)
                      /\ Committed(i, k)' <=> Committed(i, k)
    OBVIOUS
  <2>1. k \in Nat \ {0} /\ Len(ROB[i].src) \in Nat
    BY EntryTypes DEF Inv
  <2>2. i = scan => ~(Len(ROB[i].src) + k < operand) /\ ~(Len(ROB[i].src) + k < operand + 1)
    BY <1>1, <2>1
  <2> QED BY <1>1, <1>2, <2>2 DEF DestRenamed, Committed
<1>4. CASE IsAllocated(r)
  <2>1. UNCHANGED allocator
    BY <1>4 DEF RenameSource
  <2> QED BY <1>2, <1>3, <2>1, QuietStep DEF allocator
<1>5. CASE ~IsAllocated(r)
  <2>1. /\ free_registers # <<>> /\ free_registers' = Tail(free_registers)
        /\ frontend_RAT' = [frontend_RAT EXCEPT ![r] = p]
        /\ backend_RAT' = [backend_RAT EXCEPT ![r] = p]
        /\ physical_register_file' = [physical_register_file EXCEPT ![p] =
              [arch_reg_index |-> r, valid |-> TRUE, busy |-> TRUE]]
    BY <1>5 DEF RenameSource
  <2>2. /\ p \in PhysReg /\ IsFree(p) /\ FreeOnce'
        /\ \A q \in PhysReg : IsFree(q)' <=> IsFree(q) /\ q # p
    BY <2>1, TakeFree DEF Inv, RegInv, RegistersConserved
  <2>3. frontend_RAT[r] = NoReg /\ backend_RAT[r] = NoReg
    BY <1>1, <1>5 DEF IsAllocated, RegInv, MappingOK
  <2>4. ~IsCommitted(p) /\ ~IsInFlight(p)
    BY <2>2 DEF RegInv, RegistersConserved, OneUse
  <2>5. /\ InFlightOnce'
        /\ \A q \in PhysReg : IsInFlight(q)' <=> IsInFlight(q)
    <3>1. \A i \in DOMAIN ROB : \A k \in DOMAIN ROB[i].dst : InFlight(i, k)' <=> InFlight(i, k)
      BY <1>2, <1>3 DEF InFlight
    <3> QED BY <1>2, <3>1, SameInFlight
  <2> HIDE DEF r, p
  <2>6. /\ \A s \in ArchReg : backend_RAT'[s] = IF s = r THEN p ELSE backend_RAT[s]
        /\ \A s \in ArchReg : frontend_RAT'[s] = IF s = r THEN p ELSE frontend_RAT[s]
    BY <2>1 DEF Inv, TypeOK
  <2>7. \A q \in PhysReg : IsCommitted(q)' <=> IsCommitted(q) \/ q = p
    BY <1>1, <2>3, <2>6, PhysIsArch DEF IsCommitted
  <2>8. CommittedOnce'
    <3>1. \A s \in ArchReg : backend_RAT[s] # p
      BY <2>4 DEF IsCommitted
    <3> QED BY <2>6, <3>1 DEF RegInv, RegistersConserved, CommittedOnce
  <2>9. OneUse'
    BY <2>2, <2>4, <2>5, <2>7 DEF RegInv, RegistersConserved, OneUse
  <2>10. NoneLost'
    BY <2>2, <2>4, <2>5, <2>7 DEF RegInv, RegistersConserved, NoneLost
  <2>11. MappingOK'
    <3>1. p # NoReg
      BY <2>2, PhysIsArch
    <3>2. physical_register_file'[p].arch_reg_index = r
          /\ \A q \in PhysReg : q # p => physical_register_file'[q] = physical_register_file[q]
      BY <2>1, <2>2 DEF Inv, TypeOK
    <3>3. ASSUME NEW q \in PhysReg, ~IsFree(q)'
          PROVE  /\ physical_register_file'[q].arch_reg_index \in ArchReg
                 /\ frontend_RAT'[physical_register_file'[q].arch_reg_index] # NoReg
      <4>1. CASE q = p
        BY <1>1, <2>6, <3>1, <3>2, <4>1
      <4>2. CASE q # p
        BY <2>2, <2>6, <3>1, <3>2, <3>3, <4>2 DEF RegInv, MappingOK
      <4> QED BY <4>1, <4>2
    <3>4. ASSUME NEW s \in ArchReg, backend_RAT'[s] # NoReg
          PROVE  frontend_RAT'[s] # NoReg
      BY <2>6, <3>1, <3>4 DEF RegInv, MappingOK
    <3> QED BY <3>3, <3>4 DEF MappingOK
  <2> QED BY <2>2, <2>5, <2>8, <2>9, <2>10, <2>11 DEF RegInv, RegistersConserved
<1> QED BY <1>4, <1>5

(* A destination gets the head of the free list: it is in flight from now.   *)
LEMMA RenameDestRegInv ==
  ASSUME Inv, RegInv, RenameDest
  PROVE  RegInv'
<1> DEFINE d == operand - Len(ROB[scan].src)
           r == ROB[scan].dst[d]
           p == Head(free_registers)
<1>1. /\ stage = "rename" /\ scan \in DOMAIN ROB /\ d \in DOMAIN ROB[scan].dst
      /\ ~ROB[scan].scheduled /\ r \in ArchReg /\ p \in PhysReg /\ IsFree(p)
      /\ FreeOnce' /\ \A q \in PhysReg : IsFree(q)' <=> IsFree(q) /\ q # p
      /\ frontend_RAT' = [frontend_RAT EXCEPT ![r] = p]
      /\ physical_register_file' = [physical_register_file EXCEPT ![p] = NewDest(r)]
      /\ UNCHANGED <<backend_RAT, stage, scan>> /\ operand' = operand + 1
  BY RenameDestFacts
<1>2. /\ DOMAIN ROB' = DOMAIN ROB
      /\ ROB'[scan].dst[d] = p
      /\ \A i \in DOMAIN ROB : /\ DOMAIN ROB'[i].dst = DOMAIN ROB[i].dst
                               /\ ROB'[i].scheduled = ROB[i].scheduled
                               /\ ROB'[i].src = ROB[i].src
      /\ \A i \in DOMAIN ROB : \A k \in DOMAIN ROB[i].dst :
           ~(i = scan /\ k = d) => ROB'[i].dst[k] = ROB[i].dst[k]
  BY RenameDestFacts
<1>3. Len(ROB[scan].src) \in Nat /\ operand \in Nat /\ d \in Nat \ {0}
  BY SMTT(30), <1>1, EntryTypes DEF Inv, TypeOK
<1>4. ASSUME NEW i \in DOMAIN ROB, NEW k \in DOMAIN ROB[i].dst
      PROVE  InFlight(i, k)' <=> InFlight(i, k) \/ (i = scan /\ k = d)
  <2>1. k \in Nat
    BY EntryTypes DEF Inv
  <2>2. ~Committed(i, k) /\ ~Committed(i, k)'
    BY <1>1 DEF Committed
  <2>3. i = scan => (Len(ROB[i].src) + k < operand + 1 <=>
                       Len(ROB[i].src) + k < operand \/ k = d)
    BY <1>3, <2>1
  <2>4. DestRenamed(i, k)' <=> DestRenamed(i, k) \/ (i = scan /\ k = d)
    BY <1>1, <1>2, <2>3 DEF DestRenamed
  <2> HIDE DEF d
  <2> QED BY <1>2, <2>2, <2>4 DEF InFlight
<1>5. ~InFlight(scan, d)
  <2>1. ~(Len(ROB[scan].src) + d < operand)
    BY <1>3
  <2> QED BY <1>1, <2>1 DEF InFlight, DestRenamed
<1>6. ~IsCommitted(p) /\ ~IsInFlight(p)
  BY <1>1 DEF RegInv, RegistersConserved, OneUse
<1>7. ASSUME NEW i \in DOMAIN ROB, NEW k \in DOMAIN ROB[i].dst, InFlight(i, k)
      PROVE  ROB'[i].dst[k] = ROB[i].dst[k] /\ ROB[i].dst[k] # p
  BY <1>2, <1>5, <1>6, <1>7 DEF IsInFlight
<1>8. PICK n : n = d
  OBVIOUS
<1>9. PICK s : s = p
  OBVIOUS
<1>10. PICK z : z = scan
  OBVIOUS
<1> DEFINE Fresh(i, k) == i = z /\ k = n
<1>11. /\ n \in DOMAIN ROB[z].dst /\ z \in DOMAIN ROB /\ ROB'[z].dst[n] = s /\ s \in PhysReg
       /\ \A i \in DOMAIN ROB : \A k \in DOMAIN ROB[i].dst :
            /\ InFlight(i, k)' <=> InFlight(i, k) \/ Fresh(i, k)
            /\ InFlight(i, k) => ROB'[i].dst[k] = ROB[i].dst[k] /\ ROB[i].dst[k] # s
  BY <1>1, <1>2, <1>4, <1>7, <1>8, <1>9, <1>10
<1>12. InFlightOnce'
  <2> SUFFICES ASSUME NEW i \in DOMAIN ROB, NEW j \in DOMAIN ROB,
                      NEW k \in DOMAIN ROB[i].dst, NEW m \in DOMAIN ROB[j].dst,
                      InFlight(i, k)', InFlight(j, m)', ROB'[i].dst[k] = ROB'[j].dst[m]
               PROVE  i = j /\ k = m
    BY <1>2 DEF InFlightOnce
  <2>1. CASE Fresh(i, k)
    BY <1>11, <2>1
  <2>2. CASE Fresh(j, m)
    BY <1>11, <2>2
  <2>3. CASE ~Fresh(i, k) /\ ~Fresh(j, m)
    BY <1>11, <2>3 DEF RegInv, RegistersConserved, InFlightOnce
  <2> QED BY <2>1, <2>2, <2>3
<1>13. ASSUME NEW q \in PhysReg
       PROVE  IsInFlight(q)' <=> IsInFlight(q) \/ q = s
  <2>1. IsInFlight(q)' <=>
          \E i \in DOMAIN ROB : \E k \in DOMAIN ROB[i].dst : InFlight(i, k)' /\ ROB'[i].dst[k] = q
    BY <1>2 DEF IsInFlight
  <2>2. IsInFlight(q) <=>
          \E i \in DOMAIN ROB : \E k \in DOMAIN ROB[i].dst : InFlight(i, k) /\ ROB[i].dst[k] = q
    BY DEF IsInFlight
  <2> QED BY <1>11, <2>1, <2>2
<1>14. CommittedOnce' /\ \A q \in PhysReg : IsCommitted(q)' <=> IsCommitted(q)
  BY <1>1 DEF RegInv, RegistersConserved, CommittedOnce, IsCommitted
<1>15. OneUse'
  BY <1>1, <1>6, <1>9, <1>13, <1>14 DEF RegInv, RegistersConserved, OneUse
<1>16. NoneLost'
  BY <1>1, <1>9, <1>13, <1>14 DEF RegInv, RegistersConserved, NoneLost
<1>17. MappingOK'
  <2>1. PICK a \in ArchReg : a = r
    BY <1>1
  <2>2. /\ s # NoReg
        /\ \A b \in ArchReg : frontend_RAT'[b] = IF b = a THEN s ELSE frontend_RAT[b]
        /\ physical_register_file'[s].arch_reg_index = a
        /\ \A q \in PhysReg : q # s => physical_register_file'[q] = physical_register_file[q]
    <3>1. /\ frontend_RAT' = [frontend_RAT EXCEPT ![a] = s]
          /\ physical_register_file' = [physical_register_file EXCEPT ![s] = NewDest(a)]
          /\ s \in PhysReg
      BY <1>1, <1>9, <2>1
    <3> QED BY <3>1, PhysIsArch DEF Inv, TypeOK, NewDest
  <2>3. \A q \in PhysReg : IsFree(q)' <=> IsFree(q) /\ q # s
    BY <1>1, <1>9
  <2>4. ASSUME NEW q \in PhysReg, ~IsFree(q)'
        PROVE  /\ physical_register_file'[q].arch_reg_index \in ArchReg
               /\ frontend_RAT'[physical_register_file'[q].arch_reg_index] # NoReg
    <3>1. CASE q = s
      BY <2>2, <3>1
    <3>2. CASE q # s
      BY <2>2, <2>3, <2>4, <3>2 DEF RegInv, MappingOK
    <3> QED BY <3>1, <3>2
  <2>5. ASSUME NEW b \in ArchReg, backend_RAT'[b] # NoReg
        PROVE  frontend_RAT'[b] # NoReg
    BY <1>1, <2>2, <2>5 DEF RegInv, MappingOK
  <2> QED BY <2>4, <2>5 DEF MappingOK
<1> QED BY <1>1, <1>12, <1>14, <1>15, <1>16, <1>17 DEF RegInv, RegistersConserved

LEMMA NextRegInv == ASSUME Inv, RegInv, Next PROVE RegInv'
<1>1. ASSUME Operate PROVE RegInv'
  BY <1>1, RetireDestRegInv, RetireNextRegInv, RetireEraseRegInv, CompleteInflightRegInv,
     ExecuteRegInv, ScheduleRegInv, RenameSourceRegInv, RenameDestRegInv,
     FinishSchedulingRegInv, BeginDispatchRegInv, DispatchRegInv, NextCycleRegInv
     DEF Operate
<1>2. ASSUME MemorySystem PROVE RegInv'
  <2>1. PICK n \in 1 .. ROB_SIZE : FinishLoad(n) \/ FinishStore(n)
    BY <1>2 DEF MemorySystem
  <2>2. n \in Nat
    BY <2>1, RenameAssumption
  <2> QED BY <2>1, <2>2, MemoryRegInv
<1> QED BY <1>1, <1>2 DEF Next

--------------------------------------------------------------------------------
(* Inv and RegInv hold together: a type of the allocator needs the one, and  *)
(* what retires is known to be in flight by the other.                       *)
LEMMA Invariant == Spec => [](Inv /\ RegInv)
<1>1. Init => Inv /\ RegInv
  BY InitInv, InitRegInv
<1>2. Inv /\ RegInv /\ [Next]_vars => (Inv /\ RegInv)'
  <2> SUFFICES ASSUME Inv, RegInv, [Next]_vars
               PROVE  (Inv /\ RegInv)'
    OBVIOUS
  <2>1. CASE Next
    BY <2>1, NextInv, NextRegInv
  <2>2. CASE UNCHANGED vars
    <3>1. UNCHANGED <<ROB, frontend_RAT, backend_RAT, free_registers, physical_register_file,
                      warmup, stage, scan, operand, budget>>
      BY <2>2 DEF vars, allocator
    <3>2. Inv'
      BY <3>1 DEF Inv, TypeOK, CursorOK, EntriesOK, DestRenamed, Retiring
    <3>3. RegInv'
      <4>1. ASSUME NEW i \in DOMAIN ROB, NEW k \in DOMAIN ROB[i].dst
            PROVE  /\ DestRenamed(i, k)' <=> DestRenamed(i, k)
                   /\ Committed(i, k)' <=> Committed(i, k)
        BY <3>1 DEF DestRenamed, Committed
      <4> QED BY <3>1, <4>1, QuietStep
    <3> QED BY <3>2, <3>3
  <2> QED BY <2>1, <2>2
<1> QED BY <1>1, <1>2, PTL DEF Spec

(* Types of the back end, for every size of the ROB, of the register file    *)
(* and of the program: what retire_rob, complete, execute, schedule and      *)
(* dispatch do never leaves the ROB longer than ROB_SIZE or puts anything    *)
(* but a physical register into the RATs and the free list.                  *)
THEOREM TypeCorrect == Spec => []TypeOK
<1>1. Inv /\ RegInv => TypeOK
  BY DEF Inv
<1> QED BY <1>1, Invariant, PTL

(* The register allocator neither loses a physical register nor gives one    *)
(* two uses, for every program, every size and every order in which          *)
(* instructions finish: each register is free once, committed to one         *)
(* architectural register, or the destination of one instruction in flight.  *)
THEOREM RegistersAreConserved == Spec => []RegistersConserved
<1>1. Inv /\ RegInv => RegistersConserved
  BY DEF RegInv
<1> QED BY <1>1, Invariant, PTL

--------------------------------------------------------------------------------
(* Program order *)

(* Destination k of entry i writes r; it has been renamed. *)
Writes(i, k, r) == i \in DOMAIN ROB /\ k \in DOMAIN ROB[i].dst /\ ROB[i].instr.dst[k] = r
Renamed(i, k) == i \in DOMAIN ROB /\ k \in DOMAIN ROB[i].dst /\ DestRenamed(i, k)
Before(i, k, j, m) == i < j \/ (i = j /\ k < m)    \* in program order

LastRenamed(j, m, r) ==
  /\ Renamed(j, m) /\ Writes(j, m, r)
  /\ \A h \in DOMAIN ROB : \A n \in DOMAIN ROB[h].dst :
       Renamed(h, n) /\ Writes(h, n, r) => ~Before(j, m, h, n)
NoneRenamed(r) ==
  \A j \in DOMAIN ROB : \A m \in DOMAIN ROB[j].dst : ~(Renamed(j, m) /\ Writes(j, m, r))
LastCommitted(j, m, r) ==
  /\ Committed(j, m) /\ Writes(j, m, r)
  /\ \A h \in DOMAIN ROB : \A n \in DOMAIN ROB[h].dst :
       Committed(h, n) /\ Writes(h, n, r) => ~Before(j, m, h, n)

(* An operand that is not renamed yet is the one of the program. *)
OperandsOK ==
  \A i \in DOMAIN ROB :
    /\ Len(ROB[i].src) = Len(ROB[i].instr.src) /\ Len(ROB[i].dst) = Len(ROB[i].instr.dst)
    /\ \A k \in DOMAIN ROB[i].src :
         /\ SourceRenamed(i, k) => ROB[i].src[k] \in PhysReg
         /\ ~SourceRenamed(i, k) => ROB[i].src[k] = ROB[i].instr.src[k]
    /\ \A k \in DOMAIN ROB[i].dst :
         ~DestRenamed(i, k) => ROB[i].dst[k] = ROB[i].instr.dst[k]

(* Instructions are scheduled in the order of the ROB: those that wait were  *)
(* dispatched with the same latency, so an older one never waits longer.     *)
ScheduleOK ==
  /\ \A i, j \in DOMAIN ROB : i < j =>
       /\ ROB[j].scheduled => ROB[i].scheduled
       /\ ~ROB[i].scheduled => ROB[i].wait <= ROB[j].wait
  /\ \A i \in DOMAIN ROB : ~ROB[i].scheduled => ROB[i].wait <= Latency(SCHEDULING_LATENCY)
  /\ stage = "schedule" =>
       \A i \in DOMAIN ROB : i < scan => ROB[i].scheduled \/ ROB[i].wait > 0
  /\ stage = "rename" => \A i \in DOMAIN ROB : ROB[i].scheduled <=> i < scan

(* The register of a destination in flight knows whose value it holds, and   *)
(* is valid only when that value is there.                                   *)
ArchOK ==
  \A i \in DOMAIN ROB : \A k \in DOMAIN ROB[i].dst :
    InFlight(i, k) =>
      physical_register_file[ROB[i].dst[k]].arch_reg_index = ROB[i].instr.dst[k]
ValidOK ==
  \A i \in DOMAIN ROB : \A k \in DOMAIN ROB[i].dst :
    InFlight(i, k) /\ physical_register_file[ROB[i].dst[k]].valid => ROB[i].completed

(* The frontend RAT maps to the last write renamed, and to the committed     *)
(* value when there is none; the backend RAT to the last write committed.    *)
FrontOK ==
  \A r \in ArchReg :
    /\ \A j \in DOMAIN ROB : \A m \in DOMAIN ROB[j].dst :
         LastRenamed(j, m, r) => frontend_RAT[r] = ROB[j].dst[m]
    /\ NoneRenamed(r) => frontend_RAT[r] = backend_RAT[r]
BackOK ==
  \A r \in ArchReg : \A j \in DOMAIN ROB : \A m \in DOMAIN ROB[j].dst :
    LastCommitted(j, m, r) => backend_RAT[r] = ROB[j].dst[m]

(* ReadsLastWrite for source k of entry i, which the program calls r. *)
ReadOK(i, k, r) ==
  /\ \A j \in DOMAIN ROB : \A m \in DOMAIN ROB[j].dst :
       LastWrite(i, r, j, m) => ROB[i].src[k] = ROB[j].dst[m]
  /\ NoWrite(i, r) => ROB[i].src[k] = backend_RAT[r]

TableInv == OperandsOK /\ ArchOK /\ FrontOK /\ BackOK /\ ReadsLastWrite
OrderInv == TableInv /\ ScheduleOK /\ ValidOK /\ ExecutesAfterWriters

--------------------------------------------------------------------------------
(* Lemmas about numbers and writes *)

LEMMA Least == ASSUME NEW S \in SUBSET Nat, S # {} PROVE \E m \in S : \A n \in S : m <= n
<1>1. PICK R : R = OpToRel(<, Nat)
  BY Zenon
<1>2. IsWellFoundedOn(R, Nat)
  BY <1>1, NatLessThanWellFounded, Zenon
<1>3. PICK m \in S : \A n \in S : ~(<<n, m>> \in R)
  BY <1>2, WFMin
<1>4. R = {p \in Nat \X Nat : p[1] < p[2]}
  BY <1>1, Zenon DEF OpToRel
<1>5. \A n \in S : <<n, m>> \notin R => m <= n
  BY <1>4
<1> QED BY <1>3, <1>5

LEMMA Greatest ==
  ASSUME NEW n \in Nat, NEW S \in SUBSET (1 .. n), S # {}
  PROVE  \E m \in S : \A i \in S : i <= m
<1> DEFINE T == {x \in 0 .. n : n - x \in S}
<1>1. ASSUME NEW i \in S PROVE n - i \in T /\ i \in 1 .. n
  <2>1. i \in 1 .. n
    OBVIOUS
  <2>2. n - i \in 0 .. n /\ n - (n - i) = i
    BY <2>1
  <2> QED BY <2>1, <2>2
<1>2. T # {} /\ T \in SUBSET Nat
  <2>1. PICK i \in S : TRUE
    OBVIOUS
  <2>2. n - i \in T
    BY <1>1
  <2>3. \A x \in T : x \in Nat
    OBVIOUS
  <2> HIDE DEF T
  <2> QED BY <2>2, <2>3
<1>3. PICK t \in T : \A u \in T : t <= u
  BY <1>2, Least
<1>4. n - t \in S /\ t \in Nat
  OBVIOUS
<1> HIDE DEF T
<1>5. ASSUME NEW i \in S PROVE i <= n - t
  BY <1>1, <1>3, <1>4
<1> QED BY <1>4, <1>5

LEMMA SourceTypes ==
  ASSUME TypeOK, OperandsOK, NEW i \in DOMAIN ROB
  PROVE  /\ ROB[i].instr.src \in Seq(ArchReg) /\ ROB[i].instr.dst \in Seq(ArchReg)
         /\ \A k \in DOMAIN ROB[i].src : ROB[i].instr.src[k] \in ArchReg
         /\ \A k \in DOMAIN ROB[i].dst : ROB[i].instr.dst[k] \in ArchReg
<1>1. ROB[i].instr \in Instruction
  BY EntryTypes DEF Entry
<1>2. ROB[i].instr.src \in Seq(ArchReg \ {0}) /\ ROB[i].instr.dst \in Seq(ArchReg \ {0})
  BY <1>1, RenameAssumption
<1>3. ROB[i].instr.src \in Seq(ArchReg) /\ ROB[i].instr.dst \in Seq(ArchReg)
  BY <1>2
<1>4. /\ Len(ROB[i].src) = Len(ROB[i].instr.src) /\ Len(ROB[i].dst) = Len(ROB[i].instr.dst)
      /\ DOMAIN ROB[i].src = 1 .. Len(ROB[i].src) /\ DOMAIN ROB[i].dst = 1 .. Len(ROB[i].dst)
  BY EntryTypes DEF OperandsOK
<1>5. DOMAIN ROB[i].instr.src = DOMAIN ROB[i].src /\ DOMAIN ROB[i].instr.dst = DOMAIN ROB[i].dst
  BY <1>3, <1>4
<1> QED BY <1>3, <1>5

(* Where the destinations of an instruction stay, so do the last writes. *)
LEMMA SameWrites ==
  ASSUME TypeOK, DOMAIN ROB' = DOMAIN ROB,
         \A i \in DOMAIN ROB : /\ ROB'[i].instr = ROB[i].instr
                               /\ DOMAIN ROB'[i].dst = DOMAIN ROB[i].dst
  PROVE  /\ \A i, j \in DOMAIN ROB : \A r, m : LastWrite(i, r, j, m)' <=> LastWrite(i, r, j, m)
         /\ \A i \in DOMAIN ROB : \A r : NoWrite(i, r)' <=> NoWrite(i, r)
         /\ \A i, k, r : Writes(i, k, r)' <=> Writes(i, k, r)
<1>1. DOMAIN ROB = 1 .. Len(ROB) /\ Len(ROB) \in Nat
  BY DEF TypeOK
<1>2. \A i, j \in DOMAIN ROB : j + 1 .. i - 1 \subseteq DOMAIN ROB /\ 1 .. i - 1 \subseteq DOMAIN ROB
  BY <1>1
<1>3. ASSUME NEW i \in DOMAIN ROB, NEW j \in DOMAIN ROB, NEW r, NEW m
      PROVE  LastWrite(i, r, j, m)' <=> LastWrite(i, r, j, m)
  BY <1>2 DEF LastWrite
<1>4. ASSUME NEW i \in DOMAIN ROB, NEW r
      PROVE  NoWrite(i, r)' <=> NoWrite(i, r)
  BY <1>2 DEF NoWrite
<1> QED BY <1>3, <1>4 DEF Writes

(* Of the writes of r before entry i there is a last one, or there is none. *)
LEMMA LastWriteExists ==
  ASSUME TypeOK, NEW i \in 1 .. Len(ROB) + 1, NEW r, ~NoWrite(i, r)
  PROVE  \E j \in DOMAIN ROB : \E m \in DOMAIN ROB[j].dst : LastWrite(i, r, j, m)
<1> DEFINE S == {j \in 1 .. i - 1 : \E m \in DOMAIN ROB[j].dst : ROB[j].instr.dst[m] = r}
<1>1. DOMAIN ROB = 1 .. Len(ROB) /\ Len(ROB) \in Nat /\ i - 1 \in Nat
  BY DEF TypeOK
<1>2. S # {} /\ S \in SUBSET (1 .. i - 1)
  BY DEF NoWrite
<1>3. PICK j \in S : \A h \in S : h <= j
  BY <1>1, <1>2, Greatest
<1>4. j \in DOMAIN ROB /\ j < i /\ j \in Nat
  BY <1>1
<1> DEFINE T == {m \in 1 .. Len(ROB[j].dst) : ROB[j].instr.dst[m] = r}
<1>5. DOMAIN ROB[j].dst = 1 .. Len(ROB[j].dst) /\ Len(ROB[j].dst) \in Nat
  BY <1>4, EntryTypes
<1>6. PICK m \in T : \A n \in T : n <= m
  <2>1. T # {} /\ T \in SUBSET (1 .. Len(ROB[j].dst))
    BY <1>3, <1>5
  <2> QED BY <1>5, <2>1, Greatest
<1>7. \A n \in DOMAIN ROB[j].dst : n > m => ROB[j].instr.dst[n] # r
  BY <1>5, <1>6
<1>8. ASSUME NEW h \in j + 1 .. i - 1, NEW n \in DOMAIN ROB[h].dst
      PROVE  ROB[h].instr.dst[n] # r
  <2>1. h \in 1 .. i - 1 /\ ~(h <= j)
    BY <1>1, <1>4
  <2> QED BY <1>3, <2>1
<1> QED BY <1>4, <1>5, <1>6, <1>7, <1>8 DEF LastWrite

LEMMA ReadsAreReadOK ==
  ASSUME ReadsLastWrite, NEW i \in DOMAIN ROB, NEW k \in DOMAIN ROB[i].src,
         SourceRenamed(i, k), ~Committed(i, 1)
  PROVE  ReadOK(i, k, ROB[i].instr.src[k])
BY DEF ReadsLastWrite, ReadOK

--------------------------------------------------------------------------------
(* Steps that rename, commit and move nothing *)

(* What the tables say of the ROB is the same before and after. *)
LEMMA QuietTables ==
  ASSUME Inv, TableInv, UNCHANGED <<frontend_RAT, backend_RAT>>,
         \A p \in PhysReg :
           physical_register_file'[p].arch_reg_index = physical_register_file[p].arch_reg_index,
         DOMAIN ROB' = DOMAIN ROB,
         \A i \in DOMAIN ROB : /\ ROB'[i].instr = ROB[i].instr
                               /\ ROB'[i].src = ROB[i].src /\ ROB'[i].dst = ROB[i].dst,
         \A i \in DOMAIN ROB : \A k \in DOMAIN ROB[i].src : SourceRenamed(i, k)' <=> SourceRenamed(i, k),
         \A i \in DOMAIN ROB : \A k \in DOMAIN ROB[i].dst :
           /\ DestRenamed(i, k)' <=> DestRenamed(i, k)
           /\ Committed(i, k)' <=> Committed(i, k),
         \A i \in DOMAIN ROB : Committed(i, 1) => Committed(i, 1)'
  PROVE  TableInv'
<1> USE DEF TableInv
<1>1. OperandsOK'
  BY DEF OperandsOK
<1>2. ArchOK'
  <2> SUFFICES ASSUME NEW i \in DOMAIN ROB, NEW k \in DOMAIN ROB[i].dst, InFlight(i, k)'
               PROVE  physical_register_file'[ROB[i].dst[k]].arch_reg_index = ROB[i].instr.dst[k]
    BY DEF ArchOK
  <2>1. InFlight(i, k)
    BY DEF InFlight
  <2>2. ROB[i].dst[k] \in PhysReg
    BY <2>1 DEF InFlight, Inv, EntriesOK
  <2> QED BY <2>1, <2>2 DEF ArchOK
<1>3. \A i, k, r : Writes(i, k, r)' <=> Writes(i, k, r)
  BY DEF Writes
<1>4. \A i, k : Renamed(i, k)' <=> Renamed(i, k)
  BY DEF Renamed
<1>5. \A i, k, r : LastRenamed(i, k, r)' <=> LastRenamed(i, k, r)
  BY <1>3, <1>4 DEF LastRenamed
<1>6. \A r : NoneRenamed(r)' <=> NoneRenamed(r)
  BY <1>3, <1>4 DEF NoneRenamed
<1>7. FrontOK'
  BY <1>5, <1>6 DEF FrontOK
<1>8. ASSUME NEW i \in DOMAIN ROB, NEW k \in DOMAIN ROB[i].dst, NEW r
      PROVE  LastCommitted(i, k, r)' <=> LastCommitted(i, k, r)
  BY <1>3 DEF LastCommitted
<1>9. BackOK'
  BY <1>8 DEF BackOK
<1>10. ReadsLastWrite'
  <2> SUFFICES ASSUME NEW i \in DOMAIN ROB, NEW k \in DOMAIN ROB[i].src,
                      SourceRenamed(i, k)', ~Committed(i, 1)'
               PROVE  ReadOK(i, k, ROB[i].instr.src[k])'
    BY DEF ReadsLastWrite, ReadOK
  <2>1. ReadOK(i, k, ROB[i].instr.src[k])
    BY ReadsAreReadOK
  <2>2. TypeOK
    BY DEF Inv
  <2> QED BY <2>1, <2>2, SameWrites DEF ReadOK
<1> QED BY <1>1, <1>2, <1>7, <1>9, <1>10

(* No entry starts to execute, completes or is scheduled either, and no      *)
(* register becomes valid.                                                   *)
LEMMA QuietProgress ==
  ASSUME Inv, OrderInv,
         \A p \in PhysReg : physical_register_file'[p].valid => physical_register_file[p].valid,
         DOMAIN ROB' = DOMAIN ROB,
         \A i \in DOMAIN ROB : /\ ROB'[i].instr = ROB[i].instr
                               /\ ROB'[i].src = ROB[i].src /\ ROB'[i].dst = ROB[i].dst
                               /\ ROB'[i].executed = ROB[i].executed
                               /\ ROB'[i].completed = ROB[i].completed,
         \A i \in DOMAIN ROB : \A k \in DOMAIN ROB[i].dst : InFlight(i, k)' => InFlight(i, k)
  PROVE  ValidOK' /\ ExecutesAfterWriters'
<1>1. ValidOK'
  <2> SUFFICES ASSUME NEW i \in DOMAIN ROB, NEW k \in DOMAIN ROB[i].dst, InFlight(i, k)',
                      physical_register_file'[ROB[i].dst[k]].valid
               PROVE  ROB[i].completed
    BY DEF ValidOK
  <2>1. InFlight(i, k) /\ ROB[i].dst[k] \in PhysReg
    BY DEF InFlight, Inv, EntriesOK
  <2> QED BY <2>1 DEF OrderInv, ValidOK
<1>2. TypeOK
  BY DEF Inv
<1>3. ExecutesAfterWriters'
  <2> SUFFICES ASSUME NEW i \in DOMAIN ROB, NEW j \in DOMAIN ROB, NEW k \in DOMAIN ROB[i].src,
                      NEW m \in DOMAIN ROB[j].dst, ROB[i].executed,
                      LastWrite(i, ROB[i].instr.src[k], j, m)'
               PROVE  ROB[j].completed
    BY DEF ExecutesAfterWriters
  <2>1. LastWrite(i, ROB[i].instr.src[k], j, m)
    BY <1>2, SameWrites
  <2> QED BY <2>1 DEF OrderInv, ExecutesAfterWriters
<1> QED BY <1>1, <1>3

LEMMA InitOrder == Init => OrderInv
<1> SUFFICES ASSUME Init PROVE OrderInv
  OBVIOUS
<1>1. DOMAIN ROB = {} /\ stage = "retire" /\ frontend_RAT = backend_RAT
  BY DEF Init
<1>2. TableInv
  BY <1>1 DEF TableInv, OperandsOK, ArchOK, FrontOK, BackOK, ReadsLastWrite
<1> QED BY <1>1, <1>2 DEF OrderInv, ScheduleOK, ValidOK, ExecutesAfterWriters

LEMMA RetireNextOrder ==
  ASSUME Inv, RegInv, OrderInv, RetireNext
  PROVE  OrderInv'
<1>1. /\ stage = "retire" /\ stage' = "retire" /\ scan \in Nat \ {0} /\ operand \in Nat \ {0}
      /\ scan' = scan + 1 /\ operand' = 1 /\ operand > Len(ROB[scan].dst)
      /\ UNCHANGED <<ROB, allocator, warmup>>
  BY DEF RetireNext, Retiring, Inv, TypeOK
<1>2. ASSUME NEW i \in DOMAIN ROB, NEW k \in DOMAIN ROB[i].dst
      PROVE  Committed(i, k)' <=> Committed(i, k)
  <2>1. i \in Nat /\ k \in Nat \ {0} /\ k <= Len(ROB[i].dst) /\ Len(ROB[i].dst) \in Nat
    BY EntryTypes DEF Inv
  <2>2. CASE i = scan
    <3> DEFINE n == Len(ROB[i].dst)
    <3> HIDE DEF n
    <3>1. k <= n /\ n < operand /\ n \in Nat
      BY <1>1, <2>1, <2>2 DEF n
    <3>2. k < operand
      BY <1>1, <2>1, <3>1
    <3> QED BY <1>1, <2>2, <3>2 DEF Committed
  <2>3. CASE i # scan
    BY <1>1, <2>1, <2>3 DEF Committed
  <2> QED BY <2>2, <2>3
<1>3. ASSUME NEW i \in DOMAIN ROB
      PROVE  /\ \A k : DestRenamed(i, k)' <=> DestRenamed(i, k)
             /\ \A k : SourceRenamed(i, k)' <=> SourceRenamed(i, k)
             /\ Committed(i, 1) => Committed(i, 1)'
  <2>1. i \in Nat
    BY EntryTypes DEF Inv
  <2> QED BY <1>1, <2>1 DEF DestRenamed, SourceRenamed, Committed
<1>4. TableInv'
  BY <1>1, <1>2, <1>3, QuietTables DEF allocator, OrderInv
<1>5. \A i \in DOMAIN ROB : \A k \in DOMAIN ROB[i].dst : InFlight(i, k)' => InFlight(i, k)
  BY <1>1, <1>2, <1>3 DEF InFlight
<1>6. ValidOK' /\ ExecutesAfterWriters'
  BY <1>1, <1>5, QuietProgress DEF allocator
<1>7. ScheduleOK'
  BY <1>1 DEF OrderInv, ScheduleOK, Latency
<1> QED BY <1>4, <1>6, <1>7 DEF OrderInv

(* do_completion makes valid what the completed instructions wrote. *)
LEMMA CompleteInflightOrder ==
  ASSUME Inv, RegInv, OrderInv, CompleteInflight
  PROVE  OrderInv'
<1>1. ROB' = [i \in DOMAIN ROB |->
                IF i \in Completing THEN [ROB[i] EXCEPT !.completed = TRUE] ELSE ROB[i]]
  BY DEF CompleteInflight
<1>2. DOMAIN ROB' = DOMAIN ROB
  BY <1>1
<1>3. ASSUME NEW i \in DOMAIN ROB
      PROVE  /\ ROB'[i].instr = ROB[i].instr
             /\ ROB'[i].src = ROB[i].src /\ ROB'[i].dst = ROB[i].dst
             /\ ROB'[i].scheduled = ROB[i].scheduled /\ ROB'[i].executed = ROB[i].executed
             /\ ROB'[i].wait = ROB[i].wait
             /\ ROB[i].completed => ROB'[i].completed
             /\ i \in Completing => ROB'[i].completed
  BY <1>1, EntryTypes DEF Inv, Entry
<1>4. /\ stage = "complete" /\ stage' = "execute"
      /\ UNCHANGED <<frontend_RAT, backend_RAT, warmup, scan, operand>>
  BY DEF CompleteInflight
<1> DEFINE Done(p) == \E i \in Completing : \E k \in DOMAIN ROB[i].dst : ROB[i].dst[k] = p
<1>5. ASSUME NEW p \in PhysReg
      PROVE  /\ physical_register_file'[p].arch_reg_index = physical_register_file[p].arch_reg_index
             /\ physical_register_file'[p].valid => physical_register_file[p].valid \/ Done(p)
  <2>1. physical_register_file'[p] = IF Done(p)
                                     THEN [physical_register_file[p] EXCEPT !.valid = TRUE]
                                     ELSE physical_register_file[p]
    BY DEF CompleteInflight
  <2> HIDE DEF Done
  <2>2. physical_register_file[p] \in PhysicalRegister
    BY DEF Inv, TypeOK
  <2> QED BY <2>1, <2>2 DEF PhysicalRegister
<1>6. ASSUME NEW i \in DOMAIN ROB
      PROVE  /\ \A k : DestRenamed(i, k)' <=> DestRenamed(i, k)
             /\ \A k : SourceRenamed(i, k)' <=> SourceRenamed(i, k)
             /\ \A k : ~Committed(i, k) /\ ~Committed(i, k)'
             /\ \A k : InFlight(i, k)' <=> InFlight(i, k)
  BY <1>2, <1>3, <1>4 DEF DestRenamed, SourceRenamed, Committed, InFlight
<1>7. TableInv'
  BY <1>2, <1>3, <1>4, <1>5, <1>6, QuietTables DEF OrderInv
<1>8. ScheduleOK'
  <2>1. Latency(SCHEDULING_LATENCY)' = Latency(SCHEDULING_LATENCY)
    BY <1>4 DEF Latency
  <2> QED BY <1>2, <1>3, <1>4, <2>1 DEF OrderInv, ScheduleOK
<1>9. ValidOK'
  <2> SUFFICES ASSUME NEW i \in DOMAIN ROB, NEW k \in DOMAIN ROB[i].dst, InFlight(i, k),
                      physical_register_file'[ROB[i].dst[k]].valid
               PROVE  ROB'[i].completed
    BY <1>2, <1>3, <1>6 DEF ValidOK
  <2>1. ROB[i].dst[k] \in PhysReg
    BY DEF InFlight, Inv, EntriesOK
  <2>2. CASE physical_register_file[ROB[i].dst[k]].valid
    BY <1>3, <2>2 DEF OrderInv, ValidOK
  <2>3. CASE Done(ROB[i].dst[k])
    <3>1. PICK j \in Completing : \E m \in DOMAIN ROB[j].dst : ROB[j].dst[m] = ROB[i].dst[k]
      BY <2>3
    <3>2. PICK m \in DOMAIN ROB[j].dst : ROB[j].dst[m] = ROB[i].dst[k]
      BY <3>1
    <3>3. j \in DOMAIN ROB /\ ROB[j].executed
      BY FirstOfSubset DEF Completing
    <3>4. InFlight(j, m)
      BY <1>6, <3>3, <3>2 DEF InFlight, DestRenamed, Inv, EntriesOK
    <3>5. i = j
      BY <3>2, <3>3, <3>4 DEF RegInv, RegistersConserved, InFlightOnce
    <3> QED BY <1>3, <3>5
  <2> HIDE DEF Done
  <2> QED BY <1>5, <2>1, <2>2, <2>3
<1>10. ExecutesAfterWriters'
  <2> SUFFICES ASSUME NEW i \in DOMAIN ROB, NEW j \in DOMAIN ROB, NEW k \in DOMAIN ROB[i].src,
                      NEW m \in DOMAIN ROB[j].dst, ROB[i].executed,
                      LastWrite(i, ROB[i].instr.src[k], j, m)'
               PROVE  ROB'[j].completed
    BY <1>2, <1>3 DEF ExecutesAfterWriters
  <2>1. TypeOK
    BY DEF Inv
  <2>2. LastWrite(i, ROB[i].instr.src[k], j, m)
    BY <1>2, <1>3, <2>1, SameWrites
  <2> QED BY <1>3, <2>2 DEF OrderInv, ExecutesAfterWriters
<1> QED BY <1>7, <1>8, <1>9, <1>10 DEF OrderInv

(* A source that is valid was written by an instruction that has completed. *)
LEMMA ExecuteOrder ==
  ASSUME Inv, RegInv, OrderInv, Execute
  PROVE  OrderInv'
<1>1. ROB' = [i \in DOMAIN ROB |->
                IF i \in Executing
                THEN [ROB[i] EXCEPT !.executed = TRUE, !.wait = Latency(EXEC_LATENCY)]
                ELSE ROB[i]]
  BY DEF Execute
<1>2. DOMAIN ROB' = DOMAIN ROB
  BY <1>1
<1>3. ASSUME NEW i \in DOMAIN ROB
      PROVE  /\ ROB'[i].instr = ROB[i].instr
             /\ ROB'[i].src = ROB[i].src /\ ROB'[i].dst = ROB[i].dst
             /\ ROB'[i].scheduled = ROB[i].scheduled /\ ROB'[i].completed = ROB[i].completed
             /\ i \notin Executing => ROB'[i].wait = ROB[i].wait /\ ROB'[i].executed = ROB[i].executed
             /\ i \in Executing => ROB[i].scheduled /\ SourcesValid(ROB[i])
  <2>1. i \in Executing => ROB[i].scheduled /\ SourcesValid(ROB[i])
    BY FirstOfSubset DEF Executing
  <2> QED BY <1>1, <2>1, EntryTypes DEF Inv, Entry
<1>4. /\ stage = "execute" /\ stage' = "schedule" /\ scan' = 1
      /\ UNCHANGED <<frontend_RAT, backend_RAT, physical_register_file, warmup, operand>>
  BY DEF Execute, allocator, Inv, CursorOK
<1>5. ASSUME NEW i \in DOMAIN ROB
      PROVE  /\ \A k : DestRenamed(i, k)' <=> DestRenamed(i, k)
             /\ \A k : SourceRenamed(i, k)' <=> SourceRenamed(i, k)
             /\ \A k : ~Committed(i, k) /\ ~Committed(i, k)'
             /\ \A k : InFlight(i, k)' <=> InFlight(i, k)
  BY <1>2, <1>3, <1>4 DEF DestRenamed, SourceRenamed, Committed, InFlight
<1>6. TableInv'
  BY <1>2, <1>3, <1>4, <1>5, QuietTables DEF OrderInv
<1>7. ScheduleOK'
  <2>1. Latency(SCHEDULING_LATENCY)' = Latency(SCHEDULING_LATENCY)
    BY <1>4 DEF Latency
  <2>2. \A i \in DOMAIN ROB : i \in Nat \ {0} /\ ~(i < 1)
    BY EntryTypes DEF Inv
  <2>3. \A i \in DOMAIN ROB : ~ROB[i].scheduled => ROB'[i].wait = ROB[i].wait
    BY <1>3
  <2>4. \A i \in DOMAIN ROB : ~ROB'[i].scheduled => ROB'[i].wait <= Latency(SCHEDULING_LATENCY)
    BY <1>3, <2>3 DEF OrderInv, ScheduleOK
  <2>5. ASSUME NEW i \in DOMAIN ROB, NEW j \in DOMAIN ROB, i < j
        PROVE  /\ ROB'[j].scheduled => ROB'[i].scheduled
               /\ ~ROB'[i].scheduled => ROB'[i].wait <= ROB'[j].wait
    <3>1. ROB[j].scheduled => ROB[i].scheduled
      BY <2>5 DEF OrderInv, ScheduleOK
    <3>2. ~ROB[i].scheduled => ROB[i].wait <= ROB[j].wait
      BY <2>5 DEF OrderInv, ScheduleOK
    <3> QED BY <1>3, <2>3, <3>1, <3>2
  <2> QED BY <1>2, <1>4, <2>1, <2>2, <2>4, <2>5 DEF ScheduleOK
<1>8. ValidOK'
  BY <1>2, <1>3, <1>4, <1>5 DEF OrderInv, ValidOK
<1>9. ExecutesAfterWriters'
  <2> SUFFICES ASSUME NEW i \in DOMAIN ROB, NEW j \in DOMAIN ROB, NEW k \in DOMAIN ROB[i].src,
                      NEW m \in DOMAIN ROB[j].dst, ROB'[i].executed,
                      LastWrite(i, ROB[i].instr.src[k], j, m)'
               PROVE  ROB[j].completed
    BY <1>2, <1>3 DEF ExecutesAfterWriters
  <2>0. TypeOK
    BY DEF Inv
  <2>1. LastWrite(i, ROB[i].instr.src[k], j, m)
    BY <1>2, <1>3, <2>0, SameWrites
  <2>2. CASE i \notin Executing
    BY <1>3, <2>1, <2>2 DEF OrderInv, ExecutesAfterWriters
  <2>3. CASE i \in Executing
    <3>1. ROB[i].scheduled /\ physical_register_file[ROB[i].src[k]].valid
      BY <1>3, <2>3 DEF SourcesValid
    <3>2. ROB[i].src[k] = ROB[j].dst[m]
      BY <1>5, <2>1, <3>1 DEF OrderInv, TableInv, ReadsLastWrite, SourceRenamed
    <3>3. InFlight(j, m)
      <4>1. ROB[j].scheduled
        BY <2>1, <3>1 DEF LastWrite, OrderInv, ScheduleOK
      <4> QED BY <1>5, <4>1 DEF InFlight, DestRenamed
    <3> QED BY <3>1, <3>2, <3>3 DEF OrderInv, ValidOK
  <2> QED BY <2>2, <2>3
<1> QED BY <1>6, <1>7, <1>8, <1>9 DEF OrderInv

LEMMA ScheduleOrder ==
  ASSUME Inv, RegInv, OrderInv, ScheduleStops \/ ScheduleEnds \/ ScheduleSkips \/ BeginScheduling
  PROVE  OrderInv'
<1>1. /\ stage = "schedule" /\ stage' \in {"schedule", "rename", "memory"}
      /\ stage' = "rename" => operand' = 1 /\ scan' = scan
      /\ UNCHANGED <<ROB, allocator, warmup>>
  BY DEF ScheduleStops, ScheduleEnds, ScheduleSkips, BeginScheduling, Scheduling
<1>2. ASSUME NEW i \in DOMAIN ROB
      PROVE  /\ \A k \in DOMAIN ROB[i].dst : DestRenamed(i, k)' <=> DestRenamed(i, k)
             /\ \A k \in DOMAIN ROB[i].src : SourceRenamed(i, k)' <=> SourceRenamed(i, k)
             /\ \A k : ~Committed(i, k) /\ ~Committed(i, k)'
             /\ \A k \in DOMAIN ROB[i].dst : InFlight(i, k)' <=> InFlight(i, k)
  <2>1. Len(ROB[i].src) \in Nat
    BY EntryTypes DEF Inv
  <2>2. \A k \in DOMAIN ROB[i].src \cup DOMAIN ROB[i].dst :
          ~(k < 1) /\ ~(Len(ROB[i].src) + k < 1)
    BY EntryTypes DEF Inv
  <2>3. \A k \in DOMAIN ROB[i].dst : DestRenamed(i, k)' <=> DestRenamed(i, k)
    BY <1>1, <2>2 DEF DestRenamed
  <2>4. \A k \in DOMAIN ROB[i].src : SourceRenamed(i, k)' <=> SourceRenamed(i, k)
    BY <1>1, <2>2 DEF SourceRenamed
  <2>5. \A k : ~Committed(i, k) /\ ~Committed(i, k)'
    BY <1>1 DEF Committed
  <2> QED BY <1>1, <2>3, <2>4, <2>5 DEF InFlight
<1>3. TableInv'
  BY <1>1, <1>2, QuietTables DEF OrderInv, allocator
<1>4. ValidOK' /\ ExecutesAfterWriters'
  BY <1>1, <1>2, QuietProgress DEF allocator
<1>5. ScheduleOK'
  <2>1. Latency(SCHEDULING_LATENCY)' = Latency(SCHEDULING_LATENCY)
    BY <1>1 DEF Latency
  <2>2. \A i \in DOMAIN ROB : i \in Nat /\ scan \in Nat
    BY EntryTypes DEF Inv, TypeOK
  <2>3. stage' = "schedule" =>
          \A i \in DOMAIN ROB : i < scan' => ROB[i].scheduled \/ ROB[i].wait > 0
    <3> SUFFICES ASSUME ScheduleSkips, NEW i \in DOMAIN ROB, i < scan + 1
                 PROVE  ROB[i].scheduled \/ ROB[i].wait > 0
      BY <1>1 DEF ScheduleStops, ScheduleEnds, ScheduleSkips, BeginScheduling
    <3>1. i < scan \/ i = scan
      BY <2>2
    <3> QED BY <1>1, <3>1 DEF ScheduleSkips, OrderInv, ScheduleOK
  <2>4. stage' = "rename" => \A i \in DOMAIN ROB : ROB[i].scheduled <=> i < scan'
    <3> SUFFICES ASSUME BeginScheduling, NEW i \in DOMAIN ROB
                 PROVE  ROB[i].scheduled <=> i < scan
      BY <1>1 DEF ScheduleStops, ScheduleEnds, ScheduleSkips, BeginScheduling
    <3>1. ~ROB[scan].scheduled /\ ROB[scan].wait = 0 /\ scan \in DOMAIN ROB
      BY DEF BeginScheduling, Scheduling, Inv, TypeOK
    <3>2. CASE i < scan
      <4>1. ROB[i].scheduled \/ ROB[i].wait > 0
        BY <1>1, <3>2 DEF OrderInv, ScheduleOK
      <4>2. ~ROB[i].scheduled => ROB[i].wait <= ROB[scan].wait
        BY <3>1, <3>2 DEF OrderInv, ScheduleOK
      <4>3. ROB[i].wait \in Nat
        BY EntryTypes DEF Inv, Entry
      <4>4. ROB[i].scheduled
        BY <3>1, <4>1, <4>2, <4>3
      <4> QED BY <3>2, <4>4
    <3>3. CASE scan < i
      BY <2>2, <3>1, <3>3 DEF OrderInv, ScheduleOK
    <3>4. i < scan \/ scan < i \/ (i = scan /\ ~(i < scan))
      BY <2>2
    <3> QED BY <3>1, <3>2, <3>3, <3>4
  <2> QED BY <1>1, <2>1, <2>3, <2>4 DEF OrderInv, ScheduleOK
<1> QED BY <1>3, <1>4, <1>5 DEF OrderInv

LEMMA FinishSchedulingOrder ==
  ASSUME Inv, RegInv, OrderInv, FinishScheduling
  PROVE  OrderInv'
<1>1. /\ UNCHANGED <<allocator, warmup>> /\ scan' = scan + 1 /\ operand' = 1
      /\ stage = "rename" /\ stage' = "schedule" /\ scan \in DOMAIN ROB /\ scan \in Nat
      /\ operand = Len(ROB[scan].src) + Len(ROB[scan].dst) + 1
  BY FinishSchedulingFacts DEF FinishScheduling, Inv, TypeOK
<1>2. ASSUME NEW i \in DOMAIN ROB
      PROVE  /\ \A k \in DOMAIN ROB[i].dst : DestRenamed(i, k)' <=> DestRenamed(i, k)
             /\ \A k \in DOMAIN ROB[i].src : SourceRenamed(i, k)' <=> SourceRenamed(i, k)
             /\ \A k : ~Committed(i, k) /\ ~Committed(i, k)'
  <2>1. \A k \in DOMAIN ROB[scan].src : k < operand
    <3> DEFINE a == Len(ROB[scan].src)
               b == Len(ROB[scan].dst)
    <3>1. a \in Nat /\ b \in Nat /\ operand = a + b + 1 /\ DOMAIN ROB[scan].src = 1 .. a
      BY <1>1, EntryTypes DEF Inv
    <3> HIDE DEF a, b
    <3> QED BY <3>1
  <2>2. \A k \in DOMAIN ROB[i].src : SourceRenamed(i, k)' <=> SourceRenamed(i, k)
    BY <1>1, <2>1, FinishSchedulingFacts DEF SourceRenamed
  <2>3. \A k \in DOMAIN ROB[i].dst : DestRenamed(i, k)' <=> DestRenamed(i, k)
    BY <1>1, FinishSchedulingFacts DEF DestRenamed
  <2> QED BY <1>1, <2>2, <2>3 DEF Committed
<1>3. /\ DOMAIN ROB' = DOMAIN ROB
      /\ \A i \in DOMAIN ROB :
           /\ ROB'[i].instr = ROB[i].instr /\ ROB'[i].wait = ROB[i].wait
           /\ ROB'[i].src = ROB[i].src /\ ROB'[i].dst = ROB[i].dst
           /\ ROB'[i].executed = ROB[i].executed /\ ROB'[i].completed = ROB[i].completed
           /\ ROB'[i].scheduled = (ROB[i].scheduled \/ i = scan)
  BY FinishSchedulingFacts
<1>4. TableInv'
  BY <1>1, <1>2, <1>3, QuietTables DEF OrderInv, allocator
<1>5. \A i \in DOMAIN ROB : \A k \in DOMAIN ROB[i].dst : InFlight(i, k)' => InFlight(i, k)
  BY <1>2, <1>3 DEF InFlight
<1>6. ValidOK' /\ ExecutesAfterWriters'
  BY <1>1, <1>3, <1>5, QuietProgress DEF allocator
<1>7. ScheduleOK'
  <2>1. Latency(SCHEDULING_LATENCY)' = Latency(SCHEDULING_LATENCY)
    BY <1>1 DEF Latency
  <2>2. \A i \in DOMAIN ROB : i \in Nat
    BY EntryTypes DEF Inv
  <2>3. \A i \in DOMAIN ROB : ROB[i].scheduled <=> i < scan
    BY <1>1 DEF OrderInv, ScheduleOK
  <2>4. ASSUME NEW i \in DOMAIN ROB PROVE ROB'[i].scheduled <=> i < scan + 1
    <3>1. i < scan + 1 <=> i < scan \/ i = scan
      BY <1>1, <2>2
    <3>2. ROB'[i].scheduled = (ROB[i].scheduled \/ i = scan)
      BY <1>3
    <3> QED BY <2>3, <3>1, <3>2
  <2>5. ASSUME NEW i \in DOMAIN ROB, NEW j \in DOMAIN ROB, i < j
        PROVE  /\ ROB'[j].scheduled => ROB'[i].scheduled
               /\ ~ROB'[i].scheduled => ROB'[i].wait <= ROB'[j].wait
    <3>1. ROB'[j].scheduled => ROB'[i].scheduled
      BY <1>1, <2>2, <2>4, <2>5
    <3>2. ~ROB[i].scheduled => ROB[i].wait <= ROB[j].wait
      BY <2>5 DEF OrderInv, ScheduleOK
    <3> QED BY <1>3, <3>1, <3>2
  <2>6. \A i \in DOMAIN ROB : ~ROB'[i].scheduled => ROB'[i].wait <= Latency(SCHEDULING_LATENCY)
    BY <1>3 DEF OrderInv, ScheduleOK
  <2> QED BY <1>1, <1>3, <2>1, <2>4, <2>5, <2>6 DEF ScheduleOK
<1> QED BY <1>4, <1>6, <1>7 DEF OrderInv

LEMMA MemoryOrder ==
  ASSUME Inv, RegInv, OrderInv, NEW n \in Nat, FinishLoad(n) \/ FinishStore(n)
  PROVE  OrderInv'
<1>1. /\ stage = "memory" /\ DOMAIN ROB' = DOMAIN ROB
      /\ UNCHANGED <<frontend_RAT, backend_RAT, physical_register_file, warmup, stage, scan, operand>>
      /\ \A i \in DOMAIN ROB :
           /\ ROB'[i].src = ROB[i].src /\ ROB'[i].dst = ROB[i].dst
           /\ ROB'[i].executed = ROB[i].executed /\ ROB'[i].completed = ROB[i].completed
           /\ ROB'[i].scheduled = ROB[i].scheduled
           /\ ROB'[i].instr = ROB[i].instr /\ ROB'[i].wait = ROB[i].wait
  BY MemoryFacts
<1>2. ASSUME NEW i \in DOMAIN ROB
      PROVE  /\ \A k : DestRenamed(i, k)' <=> DestRenamed(i, k)
             /\ \A k : SourceRenamed(i, k)' <=> SourceRenamed(i, k)
             /\ \A k : ~Committed(i, k) /\ ~Committed(i, k)'
  BY <1>1 DEF DestRenamed, SourceRenamed, Committed
<1>3. TableInv'
  BY <1>1, <1>2, QuietTables DEF OrderInv
<1>4. \A i \in DOMAIN ROB : \A k \in DOMAIN ROB[i].dst : InFlight(i, k)' => InFlight(i, k)
  BY <1>1, <1>2 DEF InFlight
<1>5. ValidOK' /\ ExecutesAfterWriters'
  BY <1>1, <1>4, QuietProgress
<1>6. ScheduleOK'
  BY <1>1 DEF OrderInv, ScheduleOK, Latency
<1> QED BY <1>3, <1>5, <1>6 DEF OrderInv

LEMMA BeginDispatchOrder ==
  ASSUME Inv, RegInv, OrderInv, BeginDispatch
  PROVE  OrderInv'
<1>1. /\ stage = "memory" /\ stage' = "dispatch"
      /\ UNCHANGED <<ROB, allocator, warmup, scan, operand>>
  BY DEF BeginDispatch
<1>2. ASSUME NEW i \in DOMAIN ROB
      PROVE  /\ \A k : DestRenamed(i, k)' <=> DestRenamed(i, k)
             /\ \A k : SourceRenamed(i, k)' <=> SourceRenamed(i, k)
             /\ \A k : ~Committed(i, k) /\ ~Committed(i, k)'
  BY <1>1 DEF DestRenamed, SourceRenamed, Committed
<1>3. TableInv'
  BY <1>1, <1>2, QuietTables DEF OrderInv, allocator
<1>4. \A i \in DOMAIN ROB : \A k \in DOMAIN ROB[i].dst : InFlight(i, k)' => InFlight(i, k)
  BY <1>1, <1>2 DEF InFlight
<1>5. ValidOK' /\ ExecutesAfterWriters'
  BY <1>1, <1>4, QuietProgress DEF allocator
<1>6. ScheduleOK'
  BY <1>1 DEF OrderInv, ScheduleOK, Latency
<1> QED BY <1>3, <1>5, <1>6 DEF OrderInv

(* Every wait gets shorter by one at most; the end of the warmup raises the  *)
(* bound on it.                                                              *)
LEMMA NextCycleOrder ==
  ASSUME Inv, RegInv, OrderInv, NextCycle
  PROVE  OrderInv'
<1>1. /\ stage = "dispatch" /\ stage' = "retire" /\ scan = 1 /\ operand = 1
      /\ DOMAIN ROB' = DOMAIN ROB /\ UNCHANGED <<allocator, scan, operand>>
      /\ warmup' \in {warmup, FALSE}
      /\ \A i \in DOMAIN ROB :
           /\ ROB'[i].src = ROB[i].src /\ ROB'[i].dst = ROB[i].dst
           /\ ROB'[i].executed = ROB[i].executed /\ ROB'[i].completed = ROB[i].completed
           /\ ROB'[i].scheduled = ROB[i].scheduled
           /\ ROB'[i].instr = ROB[i].instr
           /\ ROB'[i].wait = IF ROB[i].wait = 0 THEN 0 ELSE ROB[i].wait - 1
  BY NextCycleFacts DEF NextCycle
<1>2. ASSUME NEW i \in DOMAIN ROB
      PROVE  /\ \A k : DestRenamed(i, k)' <=> DestRenamed(i, k)
             /\ \A k : SourceRenamed(i, k)' <=> SourceRenamed(i, k)
             /\ \A k \in DOMAIN ROB[i].dst : ~Committed(i, k) /\ ~Committed(i, k)'
             /\ ~Committed(i, 1)
  <2>1. i \in Nat \ {0} /\ \A k \in DOMAIN ROB[i].dst : k \in Nat \ {0}
    BY EntryTypes DEF Inv
  <2> QED BY <1>1, <2>1 DEF DestRenamed, SourceRenamed, Committed
<1>3. TableInv'
  BY <1>1, <1>2, QuietTables DEF OrderInv, allocator
<1>4. \A i \in DOMAIN ROB : \A k \in DOMAIN ROB[i].dst : InFlight(i, k)' => InFlight(i, k)
  BY <1>1, <1>2 DEF InFlight
<1>5. ValidOK' /\ ExecutesAfterWriters'
  BY <1>1, <1>4, QuietProgress DEF allocator
<1>6. ScheduleOK'
  <2>1. \A i \in DOMAIN ROB : ROB[i].wait \in Nat
    BY EntryTypes DEF Inv, Entry
  <2>2. /\ Latency(SCHEDULING_LATENCY) \in Nat /\ Latency(SCHEDULING_LATENCY)' \in Nat
        /\ Latency(SCHEDULING_LATENCY) <= Latency(SCHEDULING_LATENCY)'
    <3> DEFINE L == SCHEDULING_LATENCY
    <3>1. L \in Nat
      BY RenameAssumption
    <3>2. Latency(L)' = Latency(L) \/ Latency(L)' = L
      <4>1. CASE warmup' = warmup
        BY <4>1 DEF Latency
      <4>2. CASE warmup' = FALSE
        BY <4>2 DEF Latency
      <4> QED BY <1>1, <4>1, <4>2
    <3>3. Latency(L) = 0 \/ Latency(L) = L
      BY DEF Latency
    <3> HIDE DEF L
    <3>4. Latency(L) \in Nat /\ Latency(L)' \in Nat /\ Latency(L) <= Latency(L)'
      BY <3>1, <3>2, <3>3
    <3> QED BY <3>4 DEF L
  <2>3. ASSUME NEW i \in DOMAIN ROB, ~ROB[i].scheduled
        PROVE  ROB'[i].wait <= Latency(SCHEDULING_LATENCY)'
    <3>1. ROB[i].wait <= Latency(SCHEDULING_LATENCY)
      BY <2>3 DEF OrderInv, ScheduleOK
    <3>2. ROB'[i].wait \in Nat /\ ROB'[i].wait <= ROB[i].wait
      BY <1>1, <2>1
    <3> QED BY <2>1, <2>2, <3>1, <3>2
  <2>4. ASSUME NEW i \in DOMAIN ROB, NEW j \in DOMAIN ROB, i < j
        PROVE  /\ ROB'[j].scheduled => ROB'[i].scheduled
               /\ ~ROB'[i].scheduled => ROB'[i].wait <= ROB'[j].wait
    <3>1. /\ ROB[j].scheduled => ROB[i].scheduled
          /\ ~ROB[i].scheduled => ROB[i].wait <= ROB[j].wait
      BY <2>4 DEF OrderInv, ScheduleOK
    <3>2. ROB[i].wait <= ROB[j].wait => ROB'[i].wait <= ROB'[j].wait
      BY <1>1, <2>1
    <3> QED BY <1>1, <3>1, <3>2
  <2> QED BY <1>1, <2>3, <2>4 DEF ScheduleOK
<1> QED BY <1>3, <1>5, <1>6 DEF OrderInv

--------------------------------------------------------------------------------
(* Retiring: the write committed becomes what the backend RAT maps to *)

LEMMA RetireDestOrder ==
  ASSUME Inv, RegInv, OrderInv, RetireDest
  PROVE  OrderInv'
<1> DEFINE P == ROB[scan].dst[operand]
           A == physical_register_file[P].arch_reg_index
           O == backend_RAT[A]
<1>1. /\ scan \in DOMAIN ROB /\ operand \in DOMAIN ROB[scan].dst
      /\ P \in PhysReg /\ InFlight(scan, operand) /\ A \in ArchReg
      /\ O # NoReg => IsCommitted(O)
  BY RetireDestFacts
<1>2. A = ROB[scan].instr.dst[operand]
  BY <1>1 DEF OrderInv, TableInv, ArchOK
<1>3. PICK p, r, old : p = P /\ r = A /\ old = O
  OBVIOUS
<1>4. /\ UNCHANGED <<ROB, frontend_RAT, warmup, stage, scan>>
      /\ operand' = operand + 1 /\ stage = "retire"
      /\ backend_RAT' = [backend_RAT EXCEPT ![r] = p]
      /\ \A q \in PhysReg : q = old \/ physical_register_file'[q] = physical_register_file[q]
  <2>1. /\ UNCHANGED <<ROB, frontend_RAT, warmup, stage, scan>>
        /\ operand' = operand + 1 /\ stage = "retire"
        /\ backend_RAT' = [backend_RAT EXCEPT ![A] = P]
        /\ physical_register_file' = [q \in PhysReg |->
             IF q \in Recycled(P, O) THEN Cleared ELSE physical_register_file[q]]
    BY DEF RetireDest, Retiring
  <2>2. \A q \in Recycled(P, O) : q = O
    BY DEF Recycled
  <2> HIDE DEF P, A, O
  <2> QED BY <1>3, <2>1, <2>2
<1>5. /\ p \in PhysReg /\ r \in ArchReg /\ p = ROB[scan].dst[operand]
      /\ InFlight(scan, operand) /\ Writes(scan, operand, r)
      /\ old # NoReg => IsCommitted(old)
      /\ \A q \in ArchReg : backend_RAT'[q] = IF q = r THEN p ELSE backend_RAT[q]
  <2>1. \A q \in ArchReg : backend_RAT'[q] = IF q = r THEN p ELSE backend_RAT[q]
    BY <1>4 DEF Inv, TypeOK
  <2> QED BY <1>1, <1>2, <1>3, <2>1 DEF Writes
<1> HIDE DEF P, A, O
<1>6. ASSUME NEW i \in DOMAIN ROB, NEW k \in DOMAIN ROB[i].dst
      PROVE  /\ Committed(i, k)' <=> Committed(i, k) \/ (i = scan /\ k = operand)
             /\ Committed(i, k)' => ~Before(scan, operand, i, k)
             /\ InFlight(i, k)' => InFlight(i, k)
  <2>1. i \in Nat /\ k \in Nat /\ scan \in Nat /\ operand \in Nat
    BY EntryTypes DEF Inv, TypeOK
  <2>2. Committed(i, k)' <=> Committed(i, k) \/ (i = scan /\ k = operand)
    BY <1>4, <2>1 DEF Committed
  <2>3. Committed(i, k)' => ~Before(scan, operand, i, k)
    BY <1>4, <2>1 DEF Committed, Before
  <2>4. DestRenamed(i, k)' <=> DestRenamed(i, k)
    BY <1>4 DEF DestRenamed
  <2> QED BY <1>4, <2>2, <2>3, <2>4 DEF InFlight
<1>7. ASSUME NEW i \in DOMAIN ROB, NEW k \in DOMAIN ROB[i].dst, InFlight(i, k)'
      PROVE  /\ InFlight(i, k) /\ ROB[i].dst[k] \in PhysReg
             /\ physical_register_file'[ROB[i].dst[k]] = physical_register_file[ROB[i].dst[k]]
  <2>1. InFlight(i, k) /\ ROB[i].dst[k] \in PhysReg
    BY <1>6, <1>7 DEF InFlight, Inv, EntriesOK
  <2>2. IsInFlight(ROB[i].dst[k])
    BY <2>1 DEF IsInFlight
  <2>3. ROB[i].dst[k] # old
    BY <1>5, <2>1, <2>2, PhysIsArch DEF RegInv, RegistersConserved, OneUse
  <2> QED BY <1>4, <2>1, <2>3
<1>8. OperandsOK' /\ ArchOK' /\ ValidOK'
  <2>1. OperandsOK'
    BY <1>4 DEF OrderInv, TableInv, OperandsOK, DestRenamed, SourceRenamed
  <2>2. ArchOK'
    BY <1>4, <1>7 DEF OrderInv, TableInv, ArchOK
  <2>3. ValidOK'
    BY <1>4, <1>7 DEF OrderInv, ValidOK
  <2> QED BY <2>1, <2>2, <2>3
<1>9. \A i, k : /\ \A q : Writes(i, k, q)' <=> Writes(i, k, q)
                /\ Renamed(i, k)' <=> Renamed(i, k)
  BY <1>4 DEF Writes, Renamed, DestRenamed
<1>10. FrontOK'
  <2>1. \A j, m, q : LastRenamed(j, m, q)' <=> LastRenamed(j, m, q)
    BY <1>4, <1>9 DEF LastRenamed
  <2>2. \A q : NoneRenamed(q)' => NoneRenamed(q) /\ q # r
    BY <1>4, <1>5, <1>9 DEF NoneRenamed, InFlight, Renamed
  <2> QED BY <1>4, <1>5, <2>1, <2>2 DEF OrderInv, TableInv, FrontOK
<1>11. BackOK'
  <2> SUFFICES ASSUME NEW q \in ArchReg, NEW j \in DOMAIN ROB, NEW m \in DOMAIN ROB[j].dst,
                      LastCommitted(j, m, q)'
               PROVE  backend_RAT'[q] = ROB[j].dst[m]
    BY <1>4 DEF BackOK
  <2>1. CASE q = r
    <3>1. PICK s \in DOMAIN ROB : \E o \in DOMAIN ROB[s].dst : s = scan /\ o = operand
      BY <1>1
    <3>2. PICK o \in DOMAIN ROB[s].dst : s = scan /\ o = operand
      BY <3>1
    <3>3. Committed(s, o)' /\ Writes(s, o, q)'
      BY <1>5, <1>6, <1>9, <2>1, <3>2
    <3>4. ~Before(j, m, s, o) /\ Committed(j, m)'
      BY <1>4, <3>3 DEF LastCommitted
    <3>5. ~Before(s, o, j, m)
      BY <1>6, <3>2, <3>4
    <3>6. j = s /\ m = o
      <4>1. j \in Nat /\ m \in Nat /\ s \in Nat /\ o \in Nat
        BY EntryTypes DEF Inv
      <4> QED BY <3>4, <3>5, <4>1 DEF Before
    <3> QED BY <1>5, <2>1, <3>2, <3>6
  <2>2. CASE q # r
    <3>1. ~(j = scan /\ m = operand)
      BY <1>5, <1>9, <2>2 DEF LastCommitted, Writes
    <3>2. LastCommitted(j, m, q)
      BY <1>4, <1>6, <1>9, <3>1 DEF LastCommitted
    <3> QED BY <1>5, <2>2, <3>2 DEF OrderInv, TableInv, BackOK
  <2> QED BY <2>1, <2>2
<1>12. ReadsLastWrite'
  <2> SUFFICES ASSUME NEW i \in DOMAIN ROB, NEW k \in DOMAIN ROB[i].src,
                      SourceRenamed(i, k)', ~Committed(i, 1)'
               PROVE  ReadOK(i, k, ROB[i].instr.src[k])'
    BY <1>4 DEF ReadsLastWrite, ReadOK
  <2>1. i \in Nat /\ scan \in Nat \ {0} /\ operand \in Nat \ {0} /\ TypeOK
    BY EntryTypes DEF Inv, TypeOK
  <2>2. scan < i /\ ~Committed(i, 1)
    BY <1>4, <2>1 DEF Committed
  <2>3. ReadOK(i, k, ROB[i].instr.src[k])
    BY <1>4, <2>2, ReadsAreReadOK DEF SourceRenamed, OrderInv, TableInv
  <2>4. \A q : NoWrite(i, q) => q # r
    BY <1>1, <1>5, <2>1, <2>2 DEF NoWrite, Writes
  <2>5. ROB[i].instr.src[k] \in ArchReg
    BY <2>1, SourceTypes DEF OrderInv, TableInv
  <2> QED BY <1>4, <1>5, <2>1, <2>3, <2>4, <2>5, SameWrites DEF ReadOK
<1>13. ScheduleOK'
  BY <1>4 DEF OrderInv, ScheduleOK, Latency
<1>14. ExecutesAfterWriters'
  BY <1>4 DEF OrderInv, ExecutesAfterWriters, LastWrite
<1> QED BY <1>8, <1>10, <1>11, <1>12, <1>13, <1>14 DEF OrderInv, TableInv

(* What the erased entries wrote last is what both tables map to. *)
LEMMA LastErased ==
  ASSUME Inv, OrderInv, stage = "retire", operand = 1, NEW r \in ArchReg,
         NEW j \in DOMAIN ROB, NEW m \in DOMAIN ROB[j].dst, NEW i \in DOMAIN ROB \cup {Len(ROB) + 1},
         LastWrite(i, r, j, m), j < scan, scan <= i
  PROVE  backend_RAT[r] = ROB[j].dst[m]
<1>1. /\ DOMAIN ROB = 1 .. Len(ROB) /\ Len(ROB) \in Nat /\ scan \in Nat /\ i \in Nat
      /\ \A h \in DOMAIN ROB : \A n \in DOMAIN ROB[h].dst : n \in Nat \ {0}
  BY EntryTypes DEF Inv, TypeOK
<1>2. \A h \in DOMAIN ROB : \A n \in DOMAIN ROB[h].dst : Committed(h, n) <=> h < scan
  BY <1>1 DEF Committed
<1>3. ASSUME NEW h \in DOMAIN ROB, NEW n \in DOMAIN ROB[h].dst, Committed(h, n), Writes(h, n, r)
      PROVE  ~Before(j, m, h, n)
  <2>1. h < scan
    BY <1>2, <1>3
  <2>2. ~(j < h)
    <3> SUFFICES ASSUME j < h PROVE FALSE
      OBVIOUS
    <3>1. h \in j + 1 .. i - 1
      BY <1>1, <2>1
    <3> QED BY <1>3, <3>1 DEF LastWrite, Writes
  <2>3. j = h => ~(m < n)
    BY <1>1, <1>3 DEF LastWrite, Writes
  <2> QED BY <2>2, <2>3 DEF Before
<1>4. LastCommitted(j, m, r)
  BY <1>2, <1>3 DEF LastCommitted, LastWrite, Writes
<1> QED BY <1>4 DEF OrderInv, TableInv, BackOK

(* The entries that stay keep what they read, also from an erased writer. *)
LEMMA RetireEraseOrder ==
  ASSUME Inv, RegInv, OrderInv, RetireErase
  PROVE  OrderInv'
<1> DEFINE Old(i) == i + scan - 1
<1>1. /\ stage = "retire" /\ stage' = "complete" /\ UNCHANGED <<allocator, warmup>>
      /\ scan \in Nat \ {0} /\ operand = 1 /\ Len(ROB) \in Nat /\ scan <= Len(ROB) + 1
      /\ DOMAIN ROB' = 1 .. Len(ROB) - scan + 1 /\ DOMAIN ROB = 1 .. Len(ROB)
  BY Erased DEF RetireErase, Inv, TypeOK
<1>2. ASSUME NEW i \in DOMAIN ROB'
      PROVE  /\ Old(i) \in DOMAIN ROB /\ ROB'[i] = ROB[Old(i)] /\ scan <= Old(i)
             /\ \A k : DestRenamed(i, k)' <=> DestRenamed(Old(i), k)
             /\ \A k : SourceRenamed(i, k)' <=> SourceRenamed(Old(i), k)
             /\ \A k : ~Committed(i, k)'
             /\ ~Committed(Old(i), 1)
             /\ \A k \in DOMAIN ROB[Old(i)].dst : ~Committed(Old(i), k)
             /\ \A k : InFlight(i, k)' <=> InFlight(Old(i), k)
  <2>1. Old(i) \in DOMAIN ROB /\ ROB'[i] = ROB[Old(i)] /\ Old(i) \in Nat /\ Old(i) >= scan
    BY <1>1, Erased
  <2>2. \A k : ~Committed(i, k)'
    BY <1>1 DEF Committed
  <2>3. ASSUME NEW k \in DOMAIN ROB[Old(i)].dst \cup {1}
        PROVE  ~Committed(Old(i), k)
    <3>1. k \in Nat \ {0}
      BY <2>1, EntryTypes DEF Inv
    <3> QED BY <1>1, <2>1, <3>1 DEF Committed
  <2>4. ASSUME NEW k
        PROVE  /\ DestRenamed(i, k)' <=> DestRenamed(Old(i), k)
               /\ SourceRenamed(i, k)' <=> SourceRenamed(Old(i), k)
    BY <1>1, <2>1 DEF DestRenamed, SourceRenamed
  <2>5. Old(i) >= scan => scan <= Old(i)
    BY <1>1, <2>1
  <2> HIDE DEF Old
  <2> QED BY <2>1, <2>2, <2>3, <2>4, <2>5 DEF InFlight
<1>3. ASSUME NEW i \in DOMAIN ROB, scan <= i
      PROVE  i - scan + 1 \in DOMAIN ROB' /\ Old(i - scan + 1) = i
  BY <1>1, <1>3
<1>4. \A i, j \in DOMAIN ROB' : i < j <=> Old(i) < Old(j)
  BY <1>1
<1> HIDE DEF Old
<1>5. OperandsOK' /\ ArchOK' /\ ValidOK' /\ BackOK'
  <2>1. OperandsOK'
    BY <1>2 DEF OrderInv, TableInv, OperandsOK
  <2>2. ArchOK'
    BY <1>1, <1>2 DEF OrderInv, TableInv, ArchOK, allocator
  <2>3. ValidOK'
    BY <1>1, <1>2 DEF OrderInv, ValidOK, allocator
  <2>4. BackOK'
    BY <1>2 DEF BackOK, LastCommitted
  <2> QED BY <2>1, <2>2, <2>3, <2>4
<1>6. ScheduleOK'
  <2>1. Latency(SCHEDULING_LATENCY)' = Latency(SCHEDULING_LATENCY)
    BY <1>1 DEF Latency
  <2> QED BY <1>1, <1>2, <1>4, <2>1 DEF OrderInv, ScheduleOK
<1>7. ASSUME NEW i \in DOMAIN ROB', NEW j \in DOMAIN ROB', NEW r, NEW m,
             LastWrite(i, r, j, m)'
      PROVE  LastWrite(Old(i), r, Old(j), m)
  <2>1. Old(j) < Old(i) /\ m \in DOMAIN ROB[Old(j)].dst /\ ROB[Old(j)].instr.dst[m] = r
    BY <1>2, <1>4, <1>7 DEF LastWrite
  <2>2. \A n \in DOMAIN ROB[Old(j)].dst : n > m => ROB[Old(j)].instr.dst[n] # r
    BY <1>2, <1>7 DEF LastWrite
  <2>3. ASSUME NEW h \in Old(j) + 1 .. Old(i) - 1, NEW n \in DOMAIN ROB[h].dst
        PROVE  ROB[h].instr.dst[n] # r
    <3>1. /\ h \in DOMAIN ROB /\ scan <= h /\ Old(j) < h /\ h < Old(i)
          /\ Old(i) \in Nat /\ Old(j) \in Nat
      BY <1>1, <1>2
    <3>2. PICK g \in DOMAIN ROB' : Old(g) = h
      BY <1>3, <3>1
    <3>3. j < g /\ g < i /\ j \in Nat /\ i \in Nat /\ g \in Nat
      BY <1>1, <1>4, <3>1, <3>2
    <3>4. g \in j + 1 .. i - 1
      BY <3>3
    <3> QED BY <1>2, <1>7, <3>2, <3>4 DEF LastWrite
  <2> QED BY <2>1, <2>2, <2>3 DEF LastWrite
<1>8. FrontOK'
  <2>1. ASSUME NEW r \in ArchReg, NEW j \in DOMAIN ROB', NEW m \in DOMAIN ROB'[j].dst,
               LastRenamed(j, m, r)'
        PROVE  LastRenamed(Old(j), m, r)
    <3>1. Renamed(Old(j), m) /\ Writes(Old(j), m, r)
      BY <1>2, <2>1 DEF LastRenamed, Renamed, Writes
    <3>2. ASSUME NEW h \in DOMAIN ROB, NEW n \in DOMAIN ROB[h].dst, Renamed(h, n), Writes(h, n, r),
                 Before(Old(j), m, h, n)
          PROVE  FALSE
      <4>1. scan <= h
        BY <1>1, <1>2, <3>2 DEF Before
      <4>2. PICK g \in DOMAIN ROB' : Old(g) = h
        BY <1>3, <4>1
      <4>3. Renamed(g, n)' /\ Writes(g, n, r)'
        BY <1>2, <3>2, <4>2 DEF Renamed, Writes
      <4>4. Before(j, m, g, n)
        <5>1. Old(j) = Old(g) => j = g
          BY <1>1, <1>2, <1>4
        <5> QED BY <1>4, <3>2, <4>2, <5>1 DEF Before
      <4> QED BY <1>2, <2>1, <4>2, <4>3, <4>4 DEF LastRenamed, Before
    <3> QED BY <3>1, <3>2 DEF LastRenamed
  <2>2. ASSUME NEW r \in ArchReg, NoneRenamed(r)'
        PROVE  frontend_RAT[r] = backend_RAT[r]
    <3>1. ASSUME NEW h \in DOMAIN ROB, NEW n \in DOMAIN ROB[h].dst, Renamed(h, n), Writes(h, n, r)
          PROVE  h < scan
      <4> SUFFICES ASSUME scan <= h PROVE FALSE
        BY <1>1
      <4>1. PICK g \in DOMAIN ROB' : Old(g) = h
        BY <1>3
      <4>2. Renamed(g, n)' /\ Writes(g, n, r)' /\ n \in DOMAIN ROB'[g].dst
        BY <1>2, <3>1, <4>1 DEF Renamed, Writes
      <4> QED BY <2>2, <4>2 DEF NoneRenamed
    <3>2. CASE NoWrite(scan, r)
      <4>1. NoneRenamed(r)
        <5> SUFFICES ASSUME NEW h \in DOMAIN ROB, NEW n \in DOMAIN ROB[h].dst,
                            Renamed(h, n), Writes(h, n, r)
                     PROVE  FALSE
          BY DEF NoneRenamed
        <5>1. h \in 1 .. scan - 1
          BY <1>1, <3>1
        <5> QED BY <3>2, <5>1 DEF NoWrite, Writes
      <4> QED BY <4>1 DEF OrderInv, TableInv, FrontOK
    <3>3. CASE ~NoWrite(scan, r)
      <4>1. TypeOK /\ scan \in 1 .. Len(ROB) + 1
        BY <1>1 DEF Inv
      <4>2. PICK j \in DOMAIN ROB : \E m \in DOMAIN ROB[j].dst : LastWrite(scan, r, j, m)
        BY <3>3, <4>1, LastWriteExists
      <4>3. PICK m \in DOMAIN ROB[j].dst : LastWrite(scan, r, j, m)
        BY <4>2
      <4>4. j < scan /\ Writes(j, m, r)
        BY <4>3 DEF LastWrite, Writes
      <4>5. backend_RAT[r] = ROB[j].dst[m]
        <5>1. scan \in DOMAIN ROB \cup {Len(ROB) + 1} /\ scan <= scan
          BY <1>1
        <5> QED BY <1>1, <4>3, <4>4, <5>1, LastErased
      <4>6. Renamed(j, m)
        BY <1>1, <4>1, <4>4 DEF Renamed, DestRenamed, Inv, CursorOK, EntriesOK
      <4>7. ASSUME NEW h \in DOMAIN ROB, NEW n \in DOMAIN ROB[h].dst, Renamed(h, n), Writes(h, n, r)
            PROVE  ~Before(j, m, h, n)
        <5>1. h < scan
          BY <3>1, <4>7
        <5>2. ~(j < h)
          <6> SUFFICES ASSUME j < h PROVE FALSE
            OBVIOUS
          <6>1. h \in j + 1 .. scan - 1
            BY <1>1, <5>1
          <6> QED BY <4>3, <4>7, <6>1 DEF LastWrite, Writes
        <5>3. j = h => ~(m < n)
          BY <4>3, <4>7, EntryTypes DEF LastWrite, Writes, Inv
        <5> QED BY <5>2, <5>3 DEF Before
      <4>8. LastRenamed(j, m, r)
        BY <4>4, <4>6, <4>7 DEF LastRenamed
      <4> QED BY <4>5, <4>8 DEF OrderInv, TableInv, FrontOK
    <3> QED BY <3>2, <3>3
  <2> QED BY <1>1, <1>2, <2>1, <2>2 DEF FrontOK, OrderInv, TableInv, allocator
<1>9. ReadsLastWrite'
  <2> SUFFICES ASSUME NEW i \in DOMAIN ROB', NEW k \in DOMAIN ROB'[i].src, SourceRenamed(i, k)'
               PROVE  ReadOK(i, k, ROB[i].instr.src[k])'
    BY DEF ReadsLastWrite, ReadOK
  <2>1. PICK r : r = ROB[Old(i)].instr.src[k]
    OBVIOUS
  <2>2. /\ Old(i) \in DOMAIN ROB /\ k \in DOMAIN ROB[Old(i)].src /\ scan <= Old(i)
        /\ ROB'[i].instr.src[k] = r /\ ROB'[i].src[k] = ROB[Old(i)].src[k]
    BY <1>2, <2>1
  <2>3. ReadOK(Old(i), k, r)
    BY <1>2, <2>1, <2>2, ReadsAreReadOK DEF OrderInv, TableInv
  <2>4. r \in ArchReg
    BY <2>1, <2>2, SourceTypes DEF Inv, OrderInv, TableInv
  <2>5. ASSUME NEW j \in DOMAIN ROB', NEW m \in DOMAIN ROB'[j].dst, LastWrite(i, r, j, m)'
        PROVE  ROB'[i].src[k] = ROB'[j].dst[m]
    <3>1. LastWrite(Old(i), r, Old(j), m)
      BY <1>7, <2>5
    <3> QED BY <1>2, <2>2, <2>3, <2>5, <3>1 DEF ReadOK
  <2>6. ASSUME NoWrite(i, r)'
        PROVE  ROB'[i].src[k] = backend_RAT[r]
    <3>1. CASE NoWrite(Old(i), r)
      BY <2>2, <2>3, <3>1 DEF ReadOK
    <3>2. CASE ~NoWrite(Old(i), r)
      <4>1. TypeOK /\ Old(i) \in 1 .. Len(ROB) + 1
        BY <1>1, <2>2 DEF Inv
      <4>2. PICK j \in DOMAIN ROB : \E m \in DOMAIN ROB[j].dst : LastWrite(Old(i), r, j, m)
        BY <3>2, <4>1, LastWriteExists
      <4>3. PICK m \in DOMAIN ROB[j].dst : LastWrite(Old(i), r, j, m)
        BY <4>2
      <4>4. j < Old(i) /\ ROB[j].instr.dst[m] = r
        BY <4>3 DEF LastWrite
      <4>5. j < scan
        <5> SUFFICES ASSUME scan <= j PROVE FALSE
          BY <1>1
        <5>1. PICK g \in DOMAIN ROB' : Old(g) = j
          BY <1>3
        <5>2. g \in 1 .. i - 1
          BY <1>1, <1>4, <4>4, <5>1
        <5> QED BY <1>2, <2>6, <4>4, <5>1, <5>2 DEF NoWrite
      <4>6. backend_RAT[r] = ROB[j].dst[m]
        BY <1>1, <2>2, <2>4, <4>3, <4>5, LastErased
      <4> QED BY <2>2, <2>3, <4>3, <4>6 DEF ReadOK
    <3> QED BY <3>1, <3>2
  <2>7. backend_RAT' = backend_RAT
    BY <1>1 DEF allocator
  <2>8. ReadOK(i, k, r)'
    BY <2>5, <2>6, <2>7 DEF ReadOK
  <2> QED BY <2>2, <2>8
<1>10. ExecutesAfterWriters'
  <2> SUFFICES ASSUME NEW i \in DOMAIN ROB', NEW j \in DOMAIN ROB', NEW k \in DOMAIN ROB'[i].src,
                      NEW m \in DOMAIN ROB'[j].dst, ROB'[i].executed,
                      LastWrite(i, ROB[i].instr.src[k], j, m)'
               PROVE  ROB'[j].completed
    BY DEF ExecutesAfterWriters
  <2>1. PICK r : r = ROB'[i].instr.src[k]
    OBVIOUS
  <2>2. LastWrite(Old(i), r, Old(j), m)
    BY <1>7, <2>1
  <2> QED BY <1>2, <2>1, <2>2 DEF OrderInv, ExecutesAfterWriters
<1> QED BY <1>5, <1>6, <1>8, <1>9, <1>10 DEF OrderInv, TableInv

--------------------------------------------------------------------------------
(* Renaming: the frontend RAT maps to the last write renamed, and nothing    *)
(* behind the cursor is renamed yet                                          *)

(* While an entry is renamed, the writes renamed are those of older entries  *)
(* and its own first destinations.                                           *)
LEMMA RenamedAtCursor ==
  ASSUME Inv, OrderInv, stage = "rename", NEW i \in DOMAIN ROB, NEW k
  PROVE  /\ DestRenamed(i, k) <=> i < scan \/ (i = scan /\ Len(ROB[i].src) + k < operand)
         /\ SourceRenamed(i, k) <=> i < scan \/ (i = scan /\ k < operand)
         /\ ~Committed(i, k)
<1>1. ROB[i].scheduled <=> i < scan
  BY DEF OrderInv, ScheduleOK
<1> QED BY <1>1 DEF DestRenamed, SourceRenamed, Committed

(* As long as its sources are renamed, the frontend RAT gives what they read. *)
LEMMA FrontIsLastWrite ==
  ASSUME Inv, OrderInv, stage = "rename", scan \in DOMAIN ROB, operand <= Len(ROB[scan].src),
         NEW r \in ArchReg
  PROVE  /\ \A j \in DOMAIN ROB : \A m \in DOMAIN ROB[j].dst :
              LastWrite(scan, r, j, m) => frontend_RAT[r] = ROB[j].dst[m]
         /\ NoWrite(scan, r) => frontend_RAT[r] = backend_RAT[r]
         /\ NoWrite(scan, r) <=> NoneRenamed(r)
<1>1. /\ DOMAIN ROB = 1 .. Len(ROB) /\ Len(ROB) \in Nat /\ scan \in Nat /\ operand \in Nat
      /\ Len(ROB[scan].src) \in Nat
      /\ \A h \in DOMAIN ROB : \A n \in DOMAIN ROB[h].dst : n \in Nat \ {0}
  BY EntryTypes DEF Inv, TypeOK
<1>2. ASSUME NEW h \in DOMAIN ROB, NEW n \in DOMAIN ROB[h].dst
      PROVE  Renamed(h, n) <=> h < scan
  <2>1. h = scan => ~(Len(ROB[h].src) + n < operand)
    BY <1>1
  <2> QED BY <2>1, RenamedAtCursor DEF Renamed
<1>3. ASSUME NEW j \in DOMAIN ROB, NEW m \in DOMAIN ROB[j].dst, LastWrite(scan, r, j, m)
      PROVE  LastRenamed(j, m, r)
  <2>1. j < scan /\ Writes(j, m, r)
    BY <1>3 DEF LastWrite, Writes
  <2>2. ASSUME NEW h \in DOMAIN ROB, NEW n \in DOMAIN ROB[h].dst, Renamed(h, n), Writes(h, n, r)
        PROVE  ~Before(j, m, h, n)
    <3>1. h < scan
      BY <1>2, <2>2
    <3>2. ~(j < h)
      <4> SUFFICES ASSUME j < h PROVE FALSE
        OBVIOUS
      <4>1. h \in j + 1 .. scan - 1
        BY <1>1, <3>1
      <4> QED BY <1>3, <2>2, <4>1 DEF LastWrite, Writes
    <3>3. j = h => ~(m < n)
      BY <1>1, <1>3, <2>2 DEF LastWrite, Writes
    <3> QED BY <3>2, <3>3 DEF Before
  <2> QED BY <1>2, <2>1, <2>2 DEF LastRenamed
<1>4. NoWrite(scan, r) <=> NoneRenamed(r)
  <2>1. ASSUME NoWrite(scan, r), NEW h \in DOMAIN ROB, NEW n \in DOMAIN ROB[h].dst,
               Renamed(h, n), Writes(h, n, r)
        PROVE  FALSE
    <3>1. h \in 1 .. scan - 1
      BY <1>1, <1>2, <2>1
    <3> QED BY <2>1, <3>1 DEF NoWrite, Writes
  <2>2. ASSUME NoneRenamed(r), NEW h \in 1 .. scan - 1, NEW n \in DOMAIN ROB[h].dst
        PROVE  ROB[h].instr.dst[n] # r
    <3>1. h \in DOMAIN ROB /\ h < scan
      BY <1>1
    <3> QED BY <1>2, <2>2, <3>1 DEF NoneRenamed, Writes
  <2> QED BY <2>1, <2>2 DEF NoWrite, NoneRenamed
<1> QED BY <1>3, <1>4 DEF OrderInv, TableInv, FrontOK

LEMMA RenameSourceOrder ==
  ASSUME Inv, RegInv, OrderInv, RenameSource
  PROVE  OrderInv'
<1> DEFINE R == ROB[scan].src[operand]
           P == IF IsAllocated(R) THEN frontend_RAT[R] ELSE Head(free_registers)
<1>1. PICK r, p, s, o : r = R /\ p = P /\ s = scan /\ o = operand
  OBVIOUS
<1>2. /\ stage = "rename" /\ s \in DOMAIN ROB /\ o \in DOMAIN ROB[s].src
      /\ ~ROB[s].scheduled /\ r \in ArchReg /\ p \in PhysReg /\ r = ROB[s].src[o]
      /\ s = scan /\ o = operand /\ operand' = operand + 1
      /\ UNCHANGED <<warmup, stage, scan>>
      /\ frontend_RAT[r] # NoReg => p = frontend_RAT[r] /\ UNCHANGED allocator
  BY <1>1, RenameSourceFacts DEF IsAllocated
<1>3. /\ DOMAIN ROB' = DOMAIN ROB
      /\ \A i \in DOMAIN ROB :
           /\ ROB'[i].instr = ROB[i].instr /\ ROB'[i].dst = ROB[i].dst
           /\ ROB'[i].wait = ROB[i].wait /\ ROB'[i].scheduled = ROB[i].scheduled
           /\ ROB'[i].executed = ROB[i].executed /\ ROB'[i].completed = ROB[i].completed
           /\ Len(ROB'[i].src) = Len(ROB[i].src) /\ DOMAIN ROB'[i].src = DOMAIN ROB[i].src
           /\ \A k \in DOMAIN ROB[i].src : ~(i = s /\ k = o) => ROB'[i].src[k] = ROB[i].src[k]
      /\ ROB'[s].src[o] = p
  BY <1>1, RenameSourceFacts
<1>4. ASSUME frontend_RAT[r] = NoReg
      PROVE  /\ backend_RAT[r] = NoReg /\ ~IsCommitted(p) /\ ~IsInFlight(p)
             /\ \A q \in ArchReg : frontend_RAT'[q] = IF q = r THEN p ELSE frontend_RAT[q]
             /\ \A q \in ArchReg : backend_RAT'[q] = IF q = r THEN p ELSE backend_RAT[q]
             /\ \A q \in PhysReg : q # p => physical_register_file'[q] = physical_register_file[q]
  <2>1. /\ free_registers # <<>> /\ free_registers' = Tail(free_registers)
        /\ frontend_RAT' = [frontend_RAT EXCEPT ![r] = p]
        /\ backend_RAT' = [backend_RAT EXCEPT ![r] = p]
        /\ physical_register_file' = [physical_register_file EXCEPT ![p] =
              [arch_reg_index |-> r, valid |-> TRUE, busy |-> TRUE]]
        /\ p = Head(free_registers)
    BY <1>1, <1>4, RenameSourceFacts DEF IsAllocated
  <2>2. IsFree(p)
    BY <2>1, TakeFree DEF Inv, RegInv, RegistersConserved
  <2>3. ~IsCommitted(p) /\ ~IsInFlight(p)
    BY <1>2, <2>2 DEF RegInv, RegistersConserved, OneUse
  <2>4. backend_RAT[r] = NoReg
    BY <1>2, <1>4 DEF RegInv, MappingOK
  <2> QED BY <1>2, <2>1, <2>3, <2>4 DEF Inv, TypeOK
<1> HIDE DEF R, P
<1>5. /\ Len(ROB[s].src) \in Nat /\ o \in Nat \ {0} /\ s \in Nat /\ o <= Len(ROB[s].src)
      /\ \A i \in DOMAIN ROB : i \in Nat
      /\ \A i \in DOMAIN ROB : \A k \in DOMAIN ROB[i].src \cup DOMAIN ROB[i].dst : k \in Nat \ {0}
  BY <1>2, EntryTypes DEF Inv, TypeOK
<1>6. ASSUME NEW i \in DOMAIN ROB
      PROVE  /\ \A k \in DOMAIN ROB[i].dst : DestRenamed(i, k)' <=> DestRenamed(i, k)
             /\ \A k \in DOMAIN ROB[i].src :
                  SourceRenamed(i, k)' <=> SourceRenamed(i, k) \/ (i = s /\ k = o)
             /\ \A k : ~Committed(i, k) /\ ~Committed(i, k)'
             /\ \A k \in DOMAIN ROB[i].dst : InFlight(i, k)' <=> InFlight(i, k)
  <2>1. ASSUME NEW k \in DOMAIN ROB[i].dst
        PROVE  DestRenamed(i, k)' <=> DestRenamed(i, k)
    <3>1. i = s => ~(Len(ROB[i].src) + k < o) /\ ~(Len(ROB[i].src) + k < o + 1)
      BY <1>5
    <3> QED BY <1>2, <1>3, <3>1 DEF DestRenamed
  <2>2. ASSUME NEW k \in DOMAIN ROB[i].src
        PROVE  SourceRenamed(i, k)' <=> SourceRenamed(i, k) \/ (i = s /\ k = o)
    <3>1. k < o + 1 <=> k < o \/ k = o
      BY <1>5
    <3> QED BY <1>2, <1>3, <3>1 DEF SourceRenamed
  <2>3. \A k : ~Committed(i, k) /\ ~Committed(i, k)'
    BY <1>2 DEF Committed
  <2> QED BY <1>3, <2>1, <2>2, <2>3 DEF InFlight
<1>7. ~SourceRenamed(s, o) /\ r = ROB[s].instr.src[o]
  <2>1. ~SourceRenamed(s, o)
    BY <1>2, <1>5 DEF SourceRenamed
  <2> QED BY <1>2, <2>1 DEF OrderInv, TableInv, OperandsOK
<1>8. /\ \A j \in DOMAIN ROB : \A m \in DOMAIN ROB[j].dst :
           LastWrite(s, r, j, m) => frontend_RAT[r] = ROB[j].dst[m]
      /\ NoWrite(s, r) => frontend_RAT[r] = backend_RAT[r]
      /\ NoWrite(s, r) <=> NoneRenamed(r)
  BY <1>2, <1>5, FrontIsLastWrite
<1>9. ASSUME NEW i \in DOMAIN ROB, NEW k \in DOMAIN ROB[i].dst, InFlight(i, k)
      PROVE  /\ ROB[i].dst[k] \in PhysReg
             /\ physical_register_file'[ROB[i].dst[k]] = physical_register_file[ROB[i].dst[k]]
  <2>1. ROB[i].dst[k] \in PhysReg /\ IsInFlight(ROB[i].dst[k])
    BY <1>9 DEF InFlight, IsInFlight, Inv, EntriesOK
  <2>2. CASE frontend_RAT[r] = NoReg
    BY <1>4, <2>1, <2>2
  <2>3. CASE frontend_RAT[r] # NoReg
    BY <1>2, <2>1, <2>3 DEF allocator
  <2> QED BY <2>1, <2>2, <2>3
(* A register that was renamed stays mapped: nothing renamed writes r. *)
<1>10. frontend_RAT[r] = NoReg => NoneRenamed(r)
  <2> SUFFICES ASSUME frontend_RAT[r] = NoReg, NEW j \in DOMAIN ROB, NEW m \in DOMAIN ROB[j].dst,
                      Renamed(j, m), Writes(j, m, r)
               PROVE  FALSE
    BY DEF NoneRenamed
  <2>1. InFlight(j, m)
    BY <1>6 DEF Renamed, InFlight
  <2>2. physical_register_file[ROB[j].dst[m]].arch_reg_index = r
    BY <2>1 DEF OrderInv, TableInv, ArchOK, Writes
  <2>3. ROB[j].dst[m] \in PhysReg /\ IsInFlight(ROB[j].dst[m])
    BY <2>1 DEF InFlight, IsInFlight, Inv, EntriesOK
  <2> QED BY <2>2, <2>3 DEF RegInv, RegistersConserved, OneUse, MappingOK
<1>11. OperandsOK'
  <2> SUFFICES ASSUME NEW i \in DOMAIN ROB
               PROVE  /\ Len(ROB'[i].src) = Len(ROB'[i].instr.src)
                      /\ Len(ROB'[i].dst) = Len(ROB'[i].instr.dst)
                      /\ \A k \in DOMAIN ROB'[i].src :
                           /\ SourceRenamed(i, k)' => ROB'[i].src[k] \in PhysReg
                           /\ ~SourceRenamed(i, k)' => ROB'[i].src[k] = ROB'[i].instr.src[k]
                      /\ \A k \in DOMAIN ROB'[i].dst :
                           ~DestRenamed(i, k)' => ROB'[i].dst[k] = ROB'[i].instr.dst[k]
    BY <1>3 DEF OperandsOK
  <2>1. ASSUME NEW k \in DOMAIN ROB[i].src
        PROVE  /\ SourceRenamed(i, k)' => ROB'[i].src[k] \in PhysReg
               /\ ~SourceRenamed(i, k)' => ROB'[i].src[k] = ROB'[i].instr.src[k]
    <3>1. CASE i = s /\ k = o
      BY <1>2, <1>3, <1>6, <3>1
    <3>2. CASE ~(i = s /\ k = o)
      BY <1>3, <1>6, <3>2 DEF OrderInv, TableInv, OperandsOK
    <3> QED BY <3>1, <3>2
  <2> QED BY <1>3, <1>6, <2>1 DEF OrderInv, TableInv, OperandsOK
<1>12. ArchOK' /\ ValidOK' /\ BackOK'
  <2>1. ArchOK'
    BY <1>3, <1>6, <1>9 DEF OrderInv, TableInv, ArchOK
  <2>2. ValidOK'
    BY <1>3, <1>6, <1>9 DEF OrderInv, ValidOK
  <2>3. BackOK'
    BY <1>3, <1>6 DEF BackOK, LastCommitted
  <2> QED BY <2>1, <2>2, <2>3
<1>13. FrontOK'
  <2>1. \A i, k : /\ \A q : Writes(i, k, q)' <=> Writes(i, k, q)
                  /\ Renamed(i, k)' <=> Renamed(i, k)
    BY <1>3, <1>6 DEF Writes, Renamed
  <2>2. \A j, m, q : LastRenamed(j, m, q)' <=> LastRenamed(j, m, q)
    BY <1>3, <2>1 DEF LastRenamed
  <2>3. \A q : NoneRenamed(q)' <=> NoneRenamed(q)
    BY <1>3, <2>1 DEF NoneRenamed
  <2>4. CASE frontend_RAT[r] # NoReg
    BY <1>2, <1>3, <2>2, <2>3, <2>4 DEF OrderInv, TableInv, FrontOK, allocator
  <2>5. CASE frontend_RAT[r] = NoReg
    <3>1. \A j \in DOMAIN ROB : \A m \in DOMAIN ROB[j].dst : ~LastRenamed(j, m, r)
      BY <1>10, <2>5 DEF NoneRenamed, LastRenamed
    <3> QED BY <1>3, <1>4, <2>2, <2>3, <2>5, <3>1 DEF OrderInv, TableInv, FrontOK
  <2> QED BY <2>4, <2>5
<1>14. ReadsLastWrite'
  <2> SUFFICES ASSUME NEW i \in DOMAIN ROB, NEW k \in DOMAIN ROB[i].src, SourceRenamed(i, k)'
               PROVE  ReadOK(i, k, ROB[i].instr.src[k])'
    BY <1>3 DEF ReadsLastWrite, ReadOK
  <2>1. PICK q : q = ROB[i].instr.src[k]
    OBVIOUS
  <2>2. TypeOK /\ q \in ArchReg /\ q = ROB'[i].instr.src[k]
    BY <1>3, <2>1, SourceTypes DEF OrderInv, TableInv, Inv
  <2>3. CASE i = s /\ k = o
    <3>1. q = r /\ ROB'[i].src[k] = p
      BY <1>3, <1>7, <2>1, <2>3
    <3>2. CASE frontend_RAT[r] # NoReg
      <4>1. p = frontend_RAT[r] /\ backend_RAT' = backend_RAT
        BY <1>2, <3>2 DEF allocator
      <4> QED BY <1>3, <1>8, <2>2, <2>3, <3>1, <4>1, SameWrites DEF ReadOK
    <3>3. CASE frontend_RAT[r] = NoReg
      <4>1. \A j \in DOMAIN ROB : \A m \in DOMAIN ROB[j].dst : ~LastWrite(s, r, j, m)
        <5> SUFFICES ASSUME NEW j \in DOMAIN ROB, NEW m \in DOMAIN ROB[j].dst, LastWrite(s, r, j, m)
                     PROVE  FALSE
          OBVIOUS
        <5>1. j \in 1 .. s - 1
          BY <1>5, EntryTypes DEF LastWrite, Inv
        <5>2. NoWrite(s, r)
          BY <1>8, <1>10, <3>3
        <5> QED BY <5>1, <5>2 DEF NoWrite, LastWrite
      <4>2. backend_RAT'[r] = p
        BY <1>2, <1>4, <3>3
      <4> QED BY <1>3, <2>2, <2>3, <3>1, <4>1, <4>2, SameWrites DEF ReadOK
    <3> QED BY <3>2, <3>3
  <2>4. CASE ~(i = s /\ k = o)
    <3>1. SourceRenamed(i, k) /\ ROB'[i].src[k] = ROB[i].src[k]
      BY <1>3, <1>6, <2>4
    <3>2. ReadOK(i, k, q)
      BY <1>6, <2>1, <3>1, ReadsAreReadOK DEF OrderInv, TableInv
    <3>3. ROB[i].src[k] \in PhysReg
      BY <3>1 DEF OrderInv, TableInv, OperandsOK
    <3>4. NoWrite(i, q) => backend_RAT'[q] = backend_RAT[q]
      <4>1. CASE frontend_RAT[r] # NoReg
        BY <1>2, <4>1 DEF allocator
      <4>2. CASE frontend_RAT[r] = NoReg
        <5>1. NoWrite(i, q) => q # r
          BY <1>4, <3>2, <3>3, <4>2, PhysIsArch DEF ReadOK
        <5> QED BY <1>4, <2>2, <4>2, <5>1
      <4> QED BY <4>1, <4>2
    <3> QED BY <1>3, <2>2, <3>1, <3>2, <3>4, SameWrites DEF ReadOK
  <2> QED BY <2>3, <2>4
<1>15. ScheduleOK'
  <2>1. Latency(SCHEDULING_LATENCY)' = Latency(SCHEDULING_LATENCY)
    BY <1>2 DEF Latency
  <2> QED BY <1>2, <1>3, <2>1 DEF OrderInv, ScheduleOK
<1>16. ExecutesAfterWriters'
  <2> SUFFICES ASSUME NEW i \in DOMAIN ROB, NEW j \in DOMAIN ROB, NEW k \in DOMAIN ROB[i].src,
                      NEW m \in DOMAIN ROB[j].dst, ROB[i].executed,
                      LastWrite(i, ROB[i].instr.src[k], j, m)'
               PROVE  ROB[j].completed
    BY <1>3 DEF ExecutesAfterWriters
  <2>1. TypeOK
    BY DEF Inv
  <2>2. LastWrite(i, ROB[i].instr.src[k], j, m)
    BY <1>3, <2>1, SameWrites
  <2> QED BY <2>2 DEF OrderInv, ExecutesAfterWriters
<1> QED BY <1>11, <1>12, <1>13, <1>14, <1>15, <1>16 DEF OrderInv, TableInv

(* The new destination is the last write renamed. *)
LEMMA RenameDestOrder ==
  ASSUME Inv, RegInv, OrderInv, RenameDest
  PROVE  OrderInv'
<1> DEFINE K == operand - Len(ROB[scan].src)
           R == ROB[scan].dst[K]
           P == Head(free_registers)
<1>1. PICK r, p, s, d : r = R /\ p = P /\ s = scan /\ d = K
  OBVIOUS
<1>2. /\ stage = "rename" /\ s = scan /\ s \in DOMAIN ROB /\ d \in DOMAIN ROB[s].dst
      /\ ~ROB[s].scheduled /\ r \in ArchReg /\ p \in PhysReg /\ IsFree(p)
      /\ r = ROB[s].dst[d] /\ d = operand - Len(ROB[s].src)
      /\ frontend_RAT' = [frontend_RAT EXCEPT ![r] = p]
      /\ physical_register_file' = [physical_register_file EXCEPT ![p] = NewDest(r)]
      /\ UNCHANGED <<backend_RAT, warmup, stage, scan>> /\ operand' = operand + 1
  BY <1>1, RenameDestFacts
<1>3. /\ DOMAIN ROB' = DOMAIN ROB
      /\ \A i \in DOMAIN ROB :
           /\ ROB'[i].instr = ROB[i].instr /\ ROB'[i].src = ROB[i].src
           /\ ROB'[i].wait = ROB[i].wait /\ ROB'[i].scheduled = ROB[i].scheduled
           /\ ROB'[i].executed = ROB[i].executed /\ ROB'[i].completed = ROB[i].completed
           /\ Len(ROB'[i].dst) = Len(ROB[i].dst) /\ DOMAIN ROB'[i].dst = DOMAIN ROB[i].dst
           /\ \A k \in DOMAIN ROB[i].dst : ~(i = s /\ k = d) => ROB'[i].dst[k] = ROB[i].dst[k]
      /\ ROB'[s].dst[d] = p
  BY <1>1, RenameDestFacts
<1> HIDE DEF K, R, P
<1>4. /\ ~IsInFlight(p)
      /\ \A q \in ArchReg : frontend_RAT'[q] = IF q = r THEN p ELSE frontend_RAT[q]
      /\ physical_register_file'[p].arch_reg_index = r /\ ~physical_register_file'[p].valid
      /\ \A q \in PhysReg : q # p => physical_register_file'[q] = physical_register_file[q]
  <2>1. ~IsInFlight(p)
    BY <1>2 DEF RegInv, RegistersConserved, OneUse
  <2> QED BY <1>2, <2>1 DEF Inv, TypeOK, NewDest
<1>5. /\ Len(ROB[s].src) \in Nat /\ operand \in Nat \ {0} /\ s \in Nat /\ d \in Nat \ {0}
      /\ \A i \in DOMAIN ROB : i \in Nat
      /\ \A i \in DOMAIN ROB : \A k \in DOMAIN ROB[i].dst : k \in Nat \ {0}
      /\ \A k \in DOMAIN ROB[s].src : k < operand
  <2>1. /\ Len(ROB[s].src) \in Nat /\ operand \in Nat \ {0} /\ s \in Nat /\ d \in Nat \ {0}
        /\ \A i \in DOMAIN ROB : i \in Nat
        /\ \A i \in DOMAIN ROB : \A k \in DOMAIN ROB[i].dst : k \in Nat \ {0}
        /\ DOMAIN ROB[s].src = 1 .. Len(ROB[s].src)
    BY <1>2, EntryTypes DEF Inv, TypeOK
  <2>2. \A k \in 1 .. Len(ROB[s].src) : k < operand
    <3> DEFINE a == Len(ROB[s].src)
    <3>1. a \in Nat /\ operand \in Nat /\ d = operand - a /\ d \in Nat \ {0}
      BY <1>2, <2>1
    <3> HIDE DEF a
    <3>2. \A k \in 1 .. a : k < operand
      BY <3>1
    <3> QED BY <3>2 DEF a
  <2> QED BY <2>1, <2>2
<1>6. ASSUME NEW i \in DOMAIN ROB
      PROVE  /\ \A k \in DOMAIN ROB[i].dst :
                  DestRenamed(i, k)' <=> DestRenamed(i, k) \/ (i = s /\ k = d)
             /\ \A k \in DOMAIN ROB[i].src : SourceRenamed(i, k)' <=> SourceRenamed(i, k)
             /\ \A k : ~Committed(i, k) /\ ~Committed(i, k)'
             /\ \A k \in DOMAIN ROB[i].dst : InFlight(i, k)' <=> InFlight(i, k) \/ (i = s /\ k = d)
  <2>1. ASSUME NEW k \in DOMAIN ROB[i].dst
        PROVE  DestRenamed(i, k)' <=> DestRenamed(i, k) \/ (i = s /\ k = d)
    <3>1. i = s => (Len(ROB[i].src) + k < operand + 1 <=>
                      Len(ROB[i].src) + k < operand \/ k = d)
      BY <1>2, <1>5
    <3> QED BY <1>2, <1>3, <3>1 DEF DestRenamed
  <2>2. ASSUME NEW k \in DOMAIN ROB[i].src
        PROVE  SourceRenamed(i, k)' <=> SourceRenamed(i, k)
    <3>1. i = s => k < operand /\ k < operand + 1
      BY <1>5, EntryTypes DEF Inv
    <3> QED BY <1>2, <1>3, <3>1 DEF SourceRenamed
  <2>3. \A k : ~Committed(i, k) /\ ~Committed(i, k)'
    BY <1>2 DEF Committed
  <2> QED BY <1>3, <2>1, <2>2, <2>3 DEF InFlight
<1>7. ~DestRenamed(s, d) /\ r = ROB[s].instr.dst[d]
  <2>1. ~(Len(ROB[s].src) + d < operand)
    BY <1>2, <1>5
  <2>2. ~DestRenamed(s, d)
    BY <1>2, <2>1 DEF DestRenamed
  <2> QED BY <1>2, <2>2 DEF OrderInv, TableInv, OperandsOK
<1>8. ASSUME NEW i \in DOMAIN ROB, NEW k \in DOMAIN ROB[i].dst, InFlight(i, k)
      PROVE  /\ ROB'[i].dst[k] = ROB[i].dst[k]
             /\ physical_register_file'[ROB[i].dst[k]] = physical_register_file[ROB[i].dst[k]]
  <2>1. ROB[i].dst[k] \in PhysReg /\ IsInFlight(ROB[i].dst[k])
    BY <1>8 DEF InFlight, IsInFlight, Inv, EntriesOK
  <2>2. ~(i = s /\ k = d)
    BY <1>7, <1>8 DEF InFlight
  <2> QED BY <1>3, <1>4, <2>1, <2>2
<1>9. OperandsOK'
  <2> SUFFICES ASSUME NEW i \in DOMAIN ROB
               PROVE  /\ Len(ROB'[i].src) = Len(ROB'[i].instr.src)
                      /\ Len(ROB'[i].dst) = Len(ROB'[i].instr.dst)
                      /\ \A k \in DOMAIN ROB'[i].src :
                           /\ SourceRenamed(i, k)' => ROB'[i].src[k] \in PhysReg
                           /\ ~SourceRenamed(i, k)' => ROB'[i].src[k] = ROB'[i].instr.src[k]
                      /\ \A k \in DOMAIN ROB'[i].dst :
                           ~DestRenamed(i, k)' => ROB'[i].dst[k] = ROB'[i].instr.dst[k]
    BY <1>3 DEF OperandsOK
  <2> QED BY <1>3, <1>6 DEF OrderInv, TableInv, OperandsOK
<1>10. ArchOK' /\ ValidOK'
  <2>1. ASSUME NEW i \in DOMAIN ROB, NEW k \in DOMAIN ROB[i].dst, InFlight(i, k)'
        PROVE  /\ physical_register_file'[ROB'[i].dst[k]].arch_reg_index = ROB'[i].instr.dst[k]
               /\ physical_register_file'[ROB'[i].dst[k]].valid => ROB'[i].completed
    <3>1. CASE i = s /\ k = d
      BY <1>3, <1>4, <1>7, <3>1
    <3>2. CASE InFlight(i, k)
      BY <1>3, <1>8, <3>2 DEF OrderInv, TableInv, ArchOK, ValidOK
    <3> QED BY <1>6, <2>1, <3>1, <3>2
  <2>2. ArchOK'
    BY <1>3, <2>1 DEF ArchOK
  <2>3. ValidOK'
    BY <1>3, <2>1 DEF ValidOK
  <2> QED BY <2>2, <2>3
<1>11. BackOK'
  BY <1>3, <1>6 DEF BackOK, LastCommitted
<1>12. FrontOK'
  <2>1. \A i, k : /\ \A q : Writes(i, k, q)' <=> Writes(i, k, q)
                  /\ Renamed(i, k)' <=> Renamed(i, k) \/ (i = s /\ k = d)
    BY <1>2, <1>3, <1>6 DEF Writes, Renamed
  <2>2. Writes(s, d, r) /\ Renamed(s, d)' /\ ~Renamed(s, d)
    BY <1>2, <1>7, <2>1 DEF Writes, Renamed
  <2>3. ASSUME NEW q \in ArchReg, q # r
        PROVE  /\ \A j, m : LastRenamed(j, m, q)' => LastRenamed(j, m, q) /\ ~(j = s /\ m = d)
               /\ NoneRenamed(q)' => NoneRenamed(q)
    <3>1. ~Writes(s, d, q)
      BY <2>2, <2>3 DEF Writes
    <3>2. \A j, m : LastRenamed(j, m, q)' => LastRenamed(j, m, q) /\ ~(j = s /\ m = d)
      BY <1>3, <2>1, <3>1 DEF LastRenamed, Before
    <3>3. NoneRenamed(q)' => NoneRenamed(q)
      BY <1>3, <2>1 DEF NoneRenamed
    <3> QED BY <3>2, <3>3
  <2>4. ASSUME NEW j \in DOMAIN ROB, NEW m \in DOMAIN ROB[j].dst, LastRenamed(j, m, r)'
        PROVE  j = s /\ m = d
    <3>1. Renamed(j, m)'
      BY <2>4 DEF LastRenamed
    <3>2. ~Before(j, m, s, d)
      BY <1>2, <1>3, <2>1, <2>2, <2>4 DEF LastRenamed, Before
    <3>3. j < s \/ j = s
      BY <1>2, <2>1, <3>1, RenamedAtCursor DEF Renamed
    <3>4. j = s => m < d \/ m = d
      <4> SUFFICES ASSUME j = s, m # d PROVE m < d
        OBVIOUS
      <4>1. Renamed(s, m)
        BY <2>1, <3>1
      <4>2. Len(ROB[s].src) + m < operand
        BY <1>2, <1>5, <4>1, RenamedAtCursor DEF Renamed
      <4> QED BY <1>2, <1>5, <4>2
    <3> QED BY <1>5, <3>2, <3>3, <3>4 DEF Before
  <2>5. ~NoneRenamed(r)'
    BY <1>2, <1>3, <2>1, <2>2 DEF NoneRenamed
  <2> SUFFICES ASSUME NEW q \in ArchReg
               PROVE  /\ \A j \in DOMAIN ROB : \A m \in DOMAIN ROB[j].dst :
                           LastRenamed(j, m, q)' => frontend_RAT'[q] = ROB'[j].dst[m]
                      /\ NoneRenamed(q)' => frontend_RAT'[q] = backend_RAT'[q]
    BY <1>3 DEF FrontOK
  <2>6. CASE q = r
    BY <1>3, <1>4, <2>4, <2>5, <2>6
  <2>7. CASE q # r
    BY <1>2, <1>3, <1>4, <2>3, <2>7 DEF OrderInv, TableInv, FrontOK
  <2> QED BY <2>6, <2>7
<1>13. ReadsLastWrite'
  <2> SUFFICES ASSUME NEW i \in DOMAIN ROB, NEW k \in DOMAIN ROB[i].src, SourceRenamed(i, k)'
               PROVE  ReadOK(i, k, ROB[i].instr.src[k])'
    BY <1>3 DEF ReadsLastWrite, ReadOK
  <2>1. PICK q : q = ROB[i].instr.src[k]
    OBVIOUS
  <2>2. TypeOK /\ q = ROB'[i].instr.src[k] /\ ROB'[i].src[k] = ROB[i].src[k]
    BY <1>3, <2>1 DEF Inv
  <2>3. SourceRenamed(i, k)
    BY <1>6
  <2>4. ReadOK(i, k, q)
    BY <1>6, <2>1, <2>3, ReadsAreReadOK DEF OrderInv, TableInv
  <2>5. ASSUME NEW j \in DOMAIN ROB, NEW m \in DOMAIN ROB[j].dst, LastWrite(i, q, j, m)
        PROVE  ROB'[j].dst[m] = ROB[j].dst[m]
    <3>1. j < i /\ (i < s \/ i = s)
      BY <1>2, <2>3, <2>5, RenamedAtCursor DEF LastWrite
    <3>2. j # s
      BY <1>5, <3>1
    <3> QED BY <1>3, <3>2
  <2>6. /\ \A j \in DOMAIN ROB : \A m : LastWrite(i, q, j, m)' <=> LastWrite(i, q, j, m)
        /\ NoWrite(i, q)' <=> NoWrite(i, q)
    BY <1>3, <2>2, SameWrites
  <2>7. ReadOK(i, k, q)'
    BY <1>2, <1>3, <2>2, <2>4, <2>5, <2>6 DEF ReadOK
  <2> QED BY <2>2, <2>7
<1>14. ScheduleOK'
  <2>1. Latency(SCHEDULING_LATENCY)' = Latency(SCHEDULING_LATENCY)
    BY <1>2 DEF Latency
  <2> QED BY <1>2, <1>3, <2>1 DEF OrderInv, ScheduleOK
<1>15. ExecutesAfterWriters'
  <2> SUFFICES ASSUME NEW i \in DOMAIN ROB, NEW j \in DOMAIN ROB, NEW k \in DOMAIN ROB[i].src,
                      NEW m \in DOMAIN ROB[j].dst, ROB[i].executed,
                      LastWrite(i, ROB[i].instr.src[k], j, m)'
               PROVE  ROB[j].completed
    BY <1>3 DEF ExecutesAfterWriters
  <2>1. TypeOK
    BY DEF Inv
  <2>2. LastWrite(i, ROB[i].instr.src[k], j, m)
    BY <1>3, <2>1, SameWrites
  <2> QED BY <2>2 DEF OrderInv, ExecutesAfterWriters
<1> QED BY <1>9, <1>10, <1>11, <1>12, <1>13, <1>14, <1>15 DEF OrderInv, TableInv

(* A dispatched instruction is younger than all and writes nothing yet. *)
LEMMA DispatchOrder ==
  ASSUME Inv, RegInv, OrderInv, NEW instr \in Instruction, NEW loads \in 0 .. instr.loads,
         Dispatch(instr, loads)
  PROVE  OrderInv'
<1>0. PICK n : n = Len(ROB) + 1
  OBVIOUS
<1>1. /\ stage = "dispatch" /\ UNCHANGED <<stage, scan, operand, warmup, allocator>>
      /\ n \in Nat /\ DOMAIN ROB = 1 .. n - 1 /\ DOMAIN ROB' = 1 .. n
      /\ \A i \in DOMAIN ROB : i \in DOMAIN ROB' /\ ROB'[i] = ROB[i] /\ i < n
      /\ \A i \in DOMAIN ROB' : i \in DOMAIN ROB \/ i = n
      /\ ~ROB'[n].scheduled /\ ~ROB'[n].executed /\ ROB'[n].wait = Latency(SCHEDULING_LATENCY)
      /\ ROB'[n].instr = instr /\ ROB'[n].src = instr.src /\ ROB'[n].dst = instr.dst
  BY <1>0, DispatchFacts DEF Dispatch, Inv, TypeOK
<1>2. ASSUME NEW i \in DOMAIN ROB
      PROVE  /\ \A k : DestRenamed(i, k)' <=> DestRenamed(i, k)
             /\ \A k : SourceRenamed(i, k)' <=> SourceRenamed(i, k)
             /\ \A k : InFlight(i, k)' <=> InFlight(i, k)
  BY <1>1 DEF DestRenamed, SourceRenamed, InFlight, Committed
<1>3. \A k : ~DestRenamed(n, k)' /\ ~SourceRenamed(n, k)' /\ ~InFlight(n, k)'
  BY <1>1 DEF DestRenamed, SourceRenamed, InFlight
<1>4. \A i, k : ~Committed(i, k) /\ ~Committed(i, k)'
  BY <1>1 DEF Committed
<1>5. OperandsOK'
  BY <1>1, <1>2, <1>3 DEF OrderInv, TableInv, OperandsOK
<1>6. ArchOK' /\ ValidOK' /\ BackOK'
  <2>1. ArchOK'
    BY <1>1, <1>2, <1>3 DEF OrderInv, TableInv, ArchOK, allocator
  <2>2. ValidOK'
    BY <1>1, <1>2, <1>3 DEF OrderInv, ValidOK, allocator
  <2>3. BackOK'
    BY <1>4 DEF BackOK, LastCommitted
  <2> QED BY <2>1, <2>2, <2>3
<1>7. FrontOK'
  <2>1. \A i, k : Renamed(i, k)' <=> Renamed(i, k)
    BY <1>1, <1>2, <1>3 DEF Renamed
  <2>2. \A i \in DOMAIN ROB : \A k, r : Writes(i, k, r)' <=> Writes(i, k, r)
    BY <1>1 DEF Writes
  <2>3. \A j, m, r : LastRenamed(j, m, r)' => LastRenamed(j, m, r)
    <3> SUFFICES ASSUME NEW j, NEW m, NEW r, LastRenamed(j, m, r)'
                 PROVE  LastRenamed(j, m, r)
      OBVIOUS
    <3>1. Renamed(j, m) /\ Writes(j, m, r)
      BY <2>1, <2>2 DEF LastRenamed, Renamed
    <3> QED BY <1>1, <2>1, <2>2, <3>1 DEF LastRenamed, Before
  <2>4. \A r : NoneRenamed(r)' => NoneRenamed(r)
    BY <1>1, <2>1, <2>2 DEF NoneRenamed
  <2>5. \A j, m, r : LastRenamed(j, m, r) => j \in DOMAIN ROB /\ m \in DOMAIN ROB[j].dst
    BY DEF LastRenamed, Renamed
  <2> QED BY <1>1, <2>3, <2>4, <2>5 DEF OrderInv, TableInv, FrontOK, allocator
<1>8. ASSUME NEW i \in DOMAIN ROB
      PROVE  /\ \A r, j, m : LastWrite(i, r, j, m)' => (j \in DOMAIN ROB' => j \in DOMAIN ROB)
             /\ \A j \in DOMAIN ROB : \A r, m : LastWrite(i, r, j, m)' <=> LastWrite(i, r, j, m)
             /\ \A r : NoWrite(i, r)' <=> NoWrite(i, r)
  <2>1. \A j \in DOMAIN ROB : /\ j + 1 .. i - 1 \subseteq DOMAIN ROB
                              /\ 1 .. i - 1 \subseteq DOMAIN ROB
    BY <1>1
  <2>2. \A r, j, m : LastWrite(i, r, j, m)' => (j \in DOMAIN ROB' => j \in DOMAIN ROB)
    <3>1. ~(n < i)
      BY <1>1
    <3> QED BY <1>1, <3>1 DEF LastWrite
  <2>3. \A j \in DOMAIN ROB : \A r, m : LastWrite(i, r, j, m)' <=> LastWrite(i, r, j, m)
    BY <1>1, <2>1 DEF LastWrite
  <2>4. \A r : NoWrite(i, r)' <=> NoWrite(i, r)
    BY <1>1, <2>1 DEF NoWrite
  <2> QED BY <2>2, <2>3, <2>4
<1>9. ReadsLastWrite'
  <2> SUFFICES ASSUME NEW i \in DOMAIN ROB', NEW k \in DOMAIN ROB'[i].src, SourceRenamed(i, k)'
               PROVE  ReadOK(i, k, ROB[i].instr.src[k])'
    BY DEF ReadsLastWrite, ReadOK
  <2>1. i \in DOMAIN ROB /\ SourceRenamed(i, k) /\ k \in DOMAIN ROB[i].src
    BY <1>1, <1>2, <1>3
  <2>2. PICK q : q = ROB[i].instr.src[k]
    OBVIOUS
  <2>3. ReadOK(i, k, q)
    BY <1>4, <2>1, <2>2, ReadsAreReadOK DEF OrderInv, TableInv
  <2>4. ReadOK(i, k, q)'
    BY <1>1, <1>8, <2>1, <2>3 DEF ReadOK, allocator
  <2>5. q = ROB'[i].instr.src[k]
    BY <1>1, <2>1, <2>2
  <2> QED BY <2>4, <2>5
<1>10. ScheduleOK'
  <2>1. Latency(SCHEDULING_LATENCY)' = Latency(SCHEDULING_LATENCY)
    BY <1>1 DEF Latency
  <2>2. Latency(SCHEDULING_LATENCY) \in Nat
    BY LatencyType, RenameAssumption
  <2>3. ~(n < n) /\ \A i \in DOMAIN ROB : ~(n < i)
    BY <1>1
  <2>4. Latency(SCHEDULING_LATENCY) <= Latency(SCHEDULING_LATENCY)
    BY <2>2
  <2> QED BY <1>1, <2>1, <2>3, <2>4 DEF OrderInv, ScheduleOK
<1>11. ExecutesAfterWriters'
  <2> SUFFICES ASSUME NEW i \in DOMAIN ROB', NEW j \in DOMAIN ROB', NEW k \in DOMAIN ROB'[i].src,
                      NEW m \in DOMAIN ROB'[j].dst, ROB'[i].executed,
                      LastWrite(i, ROB[i].instr.src[k], j, m)'
               PROVE  ROB'[j].completed
    BY DEF ExecutesAfterWriters
  <2>1. i \in DOMAIN ROB
    BY <1>1
  <2>2. PICK q : q = ROB'[i].instr.src[k]
    OBVIOUS
  <2>3. j \in DOMAIN ROB /\ LastWrite(i, q, j, m)
    BY <1>8, <2>1, <2>2
  <2> QED BY <1>1, <2>1, <2>2, <2>3 DEF OrderInv, ExecutesAfterWriters
<1> QED BY <1>5, <1>6, <1>7, <1>9, <1>10, <1>11 DEF OrderInv, TableInv

--------------------------------------------------------------------------------
LEMMA NextOrder == ASSUME Inv, RegInv, OrderInv, Next PROVE OrderInv'
<1>1. ASSUME Operate PROVE OrderInv'
  BY <1>1, RetireDestOrder, RetireNextOrder, RetireEraseOrder, CompleteInflightOrder,
     ExecuteOrder, ScheduleOrder, RenameSourceOrder, RenameDestOrder,
     FinishSchedulingOrder, BeginDispatchOrder, DispatchOrder, NextCycleOrder
     DEF Operate
<1>2. ASSUME MemorySystem PROVE OrderInv'
  <2>1. PICK n \in 1 .. ROB_SIZE : FinishLoad(n) \/ FinishStore(n)
    BY <1>2 DEF MemorySystem
  <2>2. n \in Nat
    BY <2>1, RenameAssumption
  <2> QED BY <2>1, <2>2, MemoryOrder
<1> QED BY <1>1, <1>2 DEF Next

LEMMA OrderInvariant == Spec => []OrderInv
<1>1. Inv /\ RegInv /\ OrderInv /\ [Next]_vars => OrderInv'
  <2> SUFFICES ASSUME Inv, RegInv, OrderInv, [Next]_vars PROVE OrderInv'
    OBVIOUS
  <2>1. CASE Next
    BY <2>1, NextOrder
  <2>2. CASE UNCHANGED vars
    <3>1. UNCHANGED <<ROB, frontend_RAT, backend_RAT, physical_register_file,
                      warmup, stage, scan, operand>>
      BY <2>2 DEF vars, allocator
    <3>2. \A i, k : /\ DestRenamed(i, k)' <=> DestRenamed(i, k)
                    /\ SourceRenamed(i, k)' <=> SourceRenamed(i, k)
                    /\ Committed(i, k)' <=> Committed(i, k)
                    /\ InFlight(i, k)' <=> InFlight(i, k)
      BY <3>1 DEF DestRenamed, SourceRenamed, Committed, InFlight
    <3>3. TableInv'
      BY <3>1, <3>2, QuietTables DEF OrderInv
    <3>4. ValidOK' /\ ExecutesAfterWriters'
      BY <3>1, <3>2, QuietProgress
    <3>5. ScheduleOK'
      BY <3>1 DEF OrderInv, ScheduleOK, Latency
    <3> QED BY <3>3, <3>4, <3>5 DEF OrderInv
  <2> QED BY <2>1, <2>2
<1> QED BY <1>1, InitOrder, Invariant, PTL DEF Spec

(* What rename_src_register finds in the frontend RAT is the register of the *)
(* last older writer, or the committed one, and it stays that until the      *)
(* reader retires: for every program, every size, and every order in which   *)
(* instructions are renamed, complete and retire.                            *)
THEOREM SourcesReadLastWrite == Spec => []ReadsLastWrite
<1>1. OrderInv => ReadsLastWrite
  BY DEF OrderInv, TableInv
<1> QED BY <1>1, OrderInvariant, PTL

(* The valid bits the execute stage looks at stand for finished writers: an  *)
(* instruction that has executed had every last older writer of its sources  *)
(* completed, also when registers were recycled in between.                  *)
THEOREM WritersComplete == Spec => []ExecutesAfterWriters
<1>1. OrderInv => ExecutesAfterWriters
  BY DEF OrderInv
<1> QED BY <1>1, OrderInvariant, PTL
===============================================================================
