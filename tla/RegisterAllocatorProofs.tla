---------------------- MODULE RegisterAllocatorProofs ----------------------
(***************************************************************************)
(* For any number of machine registers, of variables and of virtual         *)
(* registers: the allocator's tables stay well typed whatever the function; *)
(* and in a function whose blocks never run out of registers,               *)
(*   - the count of registers is right, machine register 0 is reserved and   *)
(*     the Flush of a block is complete, wherever the argument is named and  *)
(*     wherever the calls are;                                              *)
(*   - nothing faults, if no call is made once the argument is named;        *)
(*   - every operand is read from the register that contains its value, and  *)
(*     no variable is overwritten, if besides no call is in the middle of an *)
(*     expression and the argument is named while register 0 contains it.    *)
(*                                                                          *)
(* The argument: as long as no register has to be forced free, registers    *)
(* are handed out in increasing order within a block, so a virtual register *)
(* that is still to be read is alone in its machine register or is the      *)
(* argument in register 0, and a read changes neither table but for the     *)
(* descriptor of register 0.  The three items are three invariants,         *)
(* TableInv, FaultInv and ValueInv, each an extension of the one before.    *)
(***************************************************************************)
EXTENDS RegisterAllocator, SequenceTheorems, FiniteSetTheorems,
        WellFoundedInduction, TLAPS

-----------------------------------------------------------------------------
(* Minima of sets of registers. *)

LEMMA MinIsLeast ==
  ASSUME NEW T \in SUBSET Nat, T # {}
  PROVE  Min(T) \in T /\ \A t \in T : Min(T) <= t
<1> DEFINE R == {ss \in Nat \X Nat : ss[1] < ss[2]}
<1>1. IsWellFoundedOn(R, Nat)
  BY NatLessThanWellFounded DEF OpToRel
<1>2. PICK m \in T : \A t \in T : ~ (<<t, m>> \in R)
  <2> HIDE DEF R
  <2> QED BY <1>1, WFMin
<1>3. \A t \in T : m <= t
  <2> TAKE t \in T
  <2>1. <<t, m>> \in Nat \X Nat  OBVIOUS
  <2>2. ~ (t < m)  BY <1>2, <2>1
  <2> QED BY <2>2
<1>4. \E x \in T : \A y \in T : x =< y  BY <1>3
<1> QED BY <1>4 DEF Min

LEMMA MinOfOne == ASSUME NEW m \in Int PROVE Min({m}) = m
BY DEF Min

LEMMA Registers ==
  /\ MRegs \in SUBSET Nat /\ IsFiniteSet(MRegs) /\ 0 \in MRegs
  /\ function_max_machine_reg \in Nat /\ function_max_machine_reg > 1
  /\ 0..function_max_machine_reg - 1 \subseteq MRegs
  /\ VRegs \in SUBSET Nat /\ IsFiniteSet(VRegs)
<1>1. MaxMachineReg - 1 \in Int /\ MaxVRegs - 1 \in Int /\ 0 \in Int
  BY ConstantsAssumption
<1>2. IsFiniteSet(MRegs) /\ IsFiniteSet(VRegs)
  BY <1>1, FS_Interval DEF MRegs, VRegs
<1> QED
  BY <1>2, ConstantsAssumption DEF MRegs, VRegs, function_max_machine_reg

LEMMA SymsAreFinite == IsFiniteSet(Syms)
BY Registers, VarsAssumption, FS_Union DEF Syms

-----------------------------------------------------------------------------
(* The operations keep the allocator's state well typed. *)

Answers == [ra : AllocatorStates, mreg : MRegs]

LEMMA NewTables ==
  ASSUME NEW A \in AllocatorStates, NEW u \in Int,
         NEW addr \in [Syms -> SUBSET MRegs], NEW reg \in [MRegs -> SUBSET Syms]
  PROVE  [A EXCEPT !.addr = addr, !.reg = reg, !.usage = u] \in AllocatorStates
BY DEF AllocatorStates

LEMMA NewEntry ==
  ASSUME NEW A \in AllocatorStates, NEW addr \in [Syms -> SUBSET MRegs],
         NEW m \in MRegs, NEW S \in SUBSET Syms
  PROVE  [A EXCEPT !.addr = addr, !.reg[m] = S] \in AllocatorStates
BY DEF AllocatorStates

LEMMA NewReserve ==
  ASSUME NEW A \in AllocatorStates, NEW noflush \in SUBSET MRegs, NEW u \in Int
  PROVE  [A EXCEPT !.noflush = noflush, !.usage = u] \in AllocatorStates
BY DEF AllocatorStates

LEMMA EvictType ==
  ASSUME NEW A \in AllocatorStates, NEW ms \in SUBSET MRegs
  PROVE  Evict(A, ms) \in AllocatorStates
<1> DEFINE used == {m \in ms \ A.noflush : A.reg[m] # {}}
           gone == UNION {A.reg[m] : m \in used}
           addr == [s \in Syms |-> IF s \in gone THEN {} ELSE A.addr[s]]
           reg == [m \in MRegs |-> IF m \in used THEN {} ELSE A.reg[m]]
           u == A.usage - Cardinality(used)
<1>1. used \in SUBSET MRegs  OBVIOUS
<1>2. u \in Int
  <2>1. Cardinality(used) \in Nat
    <3> HIDE DEF used
    <3> QED BY <1>1, Registers, FS_Subset, FS_CardinalityType
  <2> HIDE DEF used
  <2> QED BY <2>1 DEF AllocatorStates
<1>3. addr \in [Syms -> SUBSET MRegs] /\ reg \in [MRegs -> SUBSET Syms]
  BY DEF AllocatorStates
<1>4. Evict(A, ms) = [A EXCEPT !.addr = addr, !.reg = reg, !.usage = u]
  BY Zenon DEF Evict
<1> HIDE DEF u, addr, reg
<1>5. [A EXCEPT !.addr = addr, !.reg = reg, !.usage = u] \in AllocatorStates
  BY <1>2, <1>3, NewTables, Zenon
<1> QED BY <1>4, <1>5, Zenon

LEMMA FlushMRegType ==
  ASSUME TypeOK, NEW A \in AllocatorStates, NEW m \in MRegs
  PROVE  FlushMReg(A, m) \in AllocatorStates
<1> DEFINE dirty == A.reg[m] \cap Vars
           mem == [x \in Vars |-> IF x \in dirty THEN held[Min(A.addr[x])] ELSE A.mem[x]]
<1>1. CASE \E x \in dirty : A.addr[x] = {}
  BY <1>1 DEF FlushMReg, AllocatorStates, Faults
<1>2. CASE ~ \E x \in dirty : A.addr[x] = {}
  <2>1. \A x \in dirty : held[Min(A.addr[x])] \in Values
    <3> TAKE x \in dirty
    <3>1. A.addr[x] \in SUBSET MRegs /\ A.addr[x] # {}
      BY <1>2 DEF AllocatorStates, Syms
    <3>2. Min(A.addr[x]) \in MRegs  BY <3>1, Registers, MinIsLeast
    <3> QED BY <3>2 DEF TypeOK
  <2>2. mem \in [Vars -> Values]  BY <2>1 DEF AllocatorStates
  <2>3. FlushMReg(A, m) = [A EXCEPT !.mem = mem]
    BY <1>2 DEF FlushMReg, AllocatorStates
  <2> HIDE DEF mem
  <2> QED BY <2>2, <2>3 DEF AllocatorStates
<1> QED BY <1>1, <1>2

LEMMA VictimType ==
  ASSUME NEW A \in AllocatorStates, Victims(A) # {}
  PROVE  Victim(A) \in MRegs
<1> DEFINE sizes == {Cardinality(A.reg[m]) : m \in Victims(A)}
           least == {m \in Victims(A) : Cardinality(A.reg[m]) = Min(sizes)}
<1>1. Victims(A) \in SUBSET MRegs  BY DEF Victims
<1>2. \A m \in Victims(A) : Cardinality(A.reg[m]) \in Nat
  BY <1>1, SymsAreFinite, FS_Subset, FS_CardinalityType DEF AllocatorStates
<1>3. sizes \in SUBSET Nat /\ sizes # {}  BY <1>2
<1>4. Min(sizes) \in sizes
  <2> HIDE DEF sizes
  <2> QED BY <1>3, MinIsLeast
<1>5. least # {} /\ least \in SUBSET Nat  BY <1>1, <1>4, Registers
<1>6. Min(least) \in least
  <2> HIDE DEF least
  <2> QED BY <1>5, MinIsLeast
<1>7. Victim(A) = Min(least)  BY DEF Victim
<1> QED BY <1>1, <1>6, <1>7

LEMMA GetRegType ==
  ASSUME TypeOK, NEW A \in AllocatorStates, NEW s \in Syms
  PROVE  GetReg(A, s) \in Answers
<1>1. ForceFreeRegister(A) \in Answers
  <2>1. CASE Victims(A) = {}
    BY <2>1, Registers DEF ForceFreeRegister, Answers, AllocatorStates, Faults
  <2>2. CASE Victims(A) # {}
    <3>1. Victim(A) \in MRegs  BY <2>2, VictimType
    <3>2. Evict(FlushMReg(A, Victim(A)), {Victim(A)}) \in AllocatorStates
      BY <3>1, FlushMRegType, EvictType
    <3> QED BY <2>2, <3>1, <3>2 DEF ForceFreeRegister, Answers
  <2> QED BY <2>1, <2>2
<1>2. GetFreeReg(A) \in Answers
  <2>1. CASE A.usage < 0
    BY <2>1, Registers DEF GetFreeReg, Answers, AllocatorStates, Faults
  <2>2. CASE A.usage >= 0 /\ A.usage < function_max_machine_reg
    <3>1. A.usage \in Int  BY DEF AllocatorStates
    <3>2. A.usage \in MRegs  BY <2>2, <3>1, Registers
    <3>3. [A EXCEPT !.usage = @ + 1] \in AllocatorStates  BY DEF AllocatorStates
    <3> QED BY <2>2, <3>1, <3>2, <3>3 DEF GetFreeReg, Answers
  <2>3. CASE A.usage >= 0 /\ ~ (A.usage < function_max_machine_reg)
    <3>1. A.usage \in Int  BY DEF AllocatorStates
    <3> QED BY <1>1, <2>3, <3>1 DEF GetFreeReg
  <2> QED BY <2>1, <2>2, <2>3, Registers DEF AllocatorStates
<1>3. ASSUME A.addr[s] # {} PROVE Min(A.addr[s]) \in MRegs
  <2>1. A.addr[s] \in SUBSET MRegs  BY DEF AllocatorStates
  <2> QED BY <1>3, <2>1, Registers, MinIsLeast
<1> QED BY <1>2, <1>3 DEF GetReg, Answers

LEMMA UsageTypes ==
  ASSUME NEW A \in AllocatorStates, NEW s \in Syms, NEW m \in MRegs
  PROVE  /\ UsageShared(A, s, m) \in AllocatorStates
         /\ UsageBackToMem(A, s, m) \in AllocatorStates
         /\ UsageNewValue(A, s, m) \in AllocatorStates
         /\ ReserveNoFlush(A, m) \in AllocatorStates
<1>1. UsageShared(A, s, m) \in AllocatorStates
  BY DEF UsageShared, AllocatorStates
<1>2. UsageBackToMem(A, s, m) \in AllocatorStates
  BY DEF UsageBackToMem, AllocatorStates
<1>3. UsageNewValue(A, s, m) \in AllocatorStates
  <2> SUFFICES /\ [t \in Syms |-> IF t = s THEN {m}
                                  ELSE IF t \in A.reg[m] THEN A.addr[t] \ {m}
                                  ELSE A.addr[t]] \in [Syms -> SUBSET MRegs]
               /\ {s} \in SUBSET Syms
    BY NewEntry, Zenon DEF UsageNewValue
  <2> QED BY DEF AllocatorStates
<1>4. ReserveNoFlush(A, m) \in AllocatorStates
  <2> SUFFICES /\ A.noflush \cup {m} \in SUBSET MRegs
               /\ (IF m # 0 THEN A.usage + 1 ELSE A.usage) \in Int
    BY NewReserve, Zenon DEF ReserveNoFlush
  <2> QED BY DEF AllocatorStates
<1> QED BY <1>1, <1>2, <1>3, <1>4

LEMMA GetRegReadType ==
  ASSUME TypeOK, NEW A \in AllocatorStates, NEW s \in Syms
  PROVE  GetRegRead(A, s) \in Answers
<1> DEFINE r == GetReg(A, s)
<1>1. r \in Answers  BY GetRegType
<1>2. GetRegRead(A, s) = [r EXCEPT !.ra = UsageShared(r.ra, s, r.mreg)]
  BY DEF GetRegRead
<1> HIDE DEF r
<1>3. UsageShared(r.ra, s, r.mreg) \in AllocatorStates
  BY <1>1, UsageTypes DEF Answers
<1> QED BY <1>1, <1>2, <1>3 DEF Answers

LEMMA GetRegStoreType ==
  ASSUME TypeOK, NEW A \in AllocatorStates, NEW s \in Syms, NEW x \in Syms
  PROVE  GetRegStore(A, s, x) \in Answers
<1> DEFINE r == GetReg(A, s)
<1>1. r \in Answers  BY GetRegType
<1>2. GetRegStore(A, s, x) = [r EXCEPT !.ra = UsageBackToMem(r.ra, x, r.mreg)]
  BY DEF GetRegStore
<1> HIDE DEF r
<1>3. UsageBackToMem(r.ra, x, r.mreg) \in AllocatorStates
  BY <1>1, UsageTypes DEF Answers
<1> QED BY <1>1, <1>2, <1>3 DEF Answers

LEMMA GetRegArithType ==
  ASSUME TypeOK, NEW A \in AllocatorStates,
         NEW d \in Syms, NEW s1 \in Syms, NEW s2 \in Syms
  PROVE  GetRegArith(A, d, s1, s2)
           \in [ra : AllocatorStates, md : MRegs, m1 : MRegs, m2 : MRegs]
<1> DEFINE r1 == GetReg(A, s1)
           r2 == GetReg(r1.ra, s2)
           rd == GetReg(r2.ra, d)
           u1 == UsageShared(rd.ra, s1, r1.mreg)
           u2 == UsageShared(u1, s2, r2.mreg)
           u3 == UsageNewValue(u2, d, rd.mreg)
<1>0. GetRegArith(A, d, s1, s2) =
        [ra |-> u3, md |-> rd.mreg, m1 |-> r1.mreg, m2 |-> r2.mreg]
  BY DEF GetRegArith
<1> HIDE DEF r1, r2, rd, u1, u2, u3
<1>1. r1 \in Answers  BY GetRegType DEF r1
<1>2. r2 \in Answers  BY <1>1, GetRegType DEF r2, Answers
<1>3. rd \in Answers  BY <1>2, GetRegType DEF rd, Answers
<1>4. u1 \in AllocatorStates  BY <1>1, <1>3, UsageTypes DEF u1, Answers
<1>5. u2 \in AllocatorStates  BY <1>2, <1>4, UsageTypes DEF u2, Answers
<1>6. u3 \in AllocatorStates  BY <1>3, <1>5, UsageTypes DEF u3, Answers
<1> QED BY <1>0, <1>1, <1>2, <1>3, <1>6 DEF Answers

-----------------------------------------------------------------------------
(* What is left of the pending registers. *)

LEMMA DroppingType ==
  ASSUME TypeOK, NEW n \in Nat
  PROVE  DropTop(n) \in Seq(VRegs)
<1>1. pending \in Seq(VRegs) /\ Len(pending) \in Nat  BY DEF TypeOK
<1>2. \A i \in 1..Len(pending) - n : pending[i] \in VRegs  BY <1>1
<1>3. 1 \in Int /\ Len(pending) - n \in Int  BY <1>1
<1> QED BY <1>2, <1>3, SubSeqProperties DEF DropTop, Depth

LEMMA RemovingType ==
  ASSUME TypeOK, NEW i \in 1..Depth
  PROVE  RemoveAt(pending, i) \in Seq(VRegs)
<1>1. pending \in Seq(VRegs) /\ Len(pending) \in Nat  BY DEF TypeOK
<1>2. /\ \A j \in 1..i - 1 : pending[j] \in VRegs
      /\ \A j \in i + 1..Len(pending) : pending[j] \in VRegs
      /\ 1 \in Int /\ i - 1 \in Int /\ i + 1 \in Int /\ Len(pending) \in Int
  BY <1>1 DEF Depth
<1>3. SubSeq(pending, 1, i - 1) \in Seq(VRegs)  BY <1>2, SubSeqProperties
<1>4. SubSeq(pending, i + 1, Len(pending)) \in Seq(VRegs)  BY <1>2, SubSeqProperties
<1> QED BY <1>3, <1>4, ConcatProperties DEF RemoveAt

LEMMA PendingType ==
  ASSUME TypeOK, NEW i \in 1..Depth
  PROVE  pending[i] \in VRegs /\ pending[i] \in Syms
BY DEF TypeOK, Depth, Syms

LEMMA ReadingType ==
  ASSUME TypeOK, NEW v \in VRegs, NEW m \in MRegs
  PROVE  Reading(v, m) \in [want : Values, got : Values]
BY DEF TypeOK, Reading, ValueOf, Values

LEMMA NextVRegType ==
  ASSUME TypeOK, next_vreg < MaxVRegs, next_vreg' = next_vreg + 1
  PROVE  /\ next_vreg \in VRegs /\ next_vreg \in Syms /\ next_vreg \in Values
         /\ next_vreg' \in 0..MaxVRegs
BY ConstantsAssumption DEF TypeOK, VRegs, Syms, Values

LEMMA TypeInit == Init => TypeOK
<1> SUFFICES ASSUME Init PROVE TypeOK  OBVIOUS
<1>1. Reset \in AllocatorStates
  BY DEF Reset, AllocatorStates, FirstMachRegFree, Values, Faults
<1>2. held \in [MRegs -> Values]  BY DEF Init, Values
<1>3. stored \in [Vars -> Values]  BY DEF Init, Values
<1>4. pending \in Seq(VRegs)  BY DEF Init
<1>5. next_vreg \in 0..MaxVRegs  BY ConstantsAssumption DEF Init
<1> QED BY <1>1, <1>2, <1>3, <1>4, <1>5 DEF Init, TypeOK

LEMMA TypeStep == TypeOK /\ [Next]_vars => TypeOK'
<1> SUFFICES ASSUME TypeOK, [Next]_vars PROVE TypeOK'  OBVIOUS
<1>0. /\ ra \in AllocatorStates /\ held \in [MRegs -> Values]
      /\ pending \in Seq(VRegs) /\ Depth \in Nat /\ arg_from \in Nat
      /\ next_vreg \in 0..MaxVRegs /\ args \in SUBSET VRegs
      /\ stored \in [Vars -> Values]
      /\ reads \in SUBSET [want : Values, got : Values]
  BY DEF TypeOK, Depth
<1>a. 0 \in MRegs /\ MRegRetValue \in MRegs  BY Registers DEF MRegRetValue
<1>b. \A x \in Vars : x \in Syms  BY DEF Syms
<1>1. ASSUME NEW used \in BOOLEAN, Load(used) PROVE TypeOK'
  <2> DEFINE r == GetRegRead(ra, next_vreg)
  <2>1. next_vreg < MaxVRegs /\ next_vreg' = next_vreg + 1  BY <1>1 DEF Load, DefinesVReg
  <2>2. r \in Answers  BY <1>0, <2>1, NextVRegType, GetRegReadType
  <2>3. /\ ra' = r.ra /\ held' = [held EXCEPT ![r.mreg] = next_vreg]
        /\ pending' = (IF used THEN Append(pending, next_vreg) ELSE pending)
        /\ reads' = {} /\ UNCHANGED <<arg_from, args, stored>>
    BY <1>1 DEF Load
  <2> HIDE DEF r
  <2>4. ra' \in AllocatorStates /\ held' \in [MRegs -> Values]
    BY <1>0, <2>1, <2>2, <2>3, NextVRegType DEF Answers
  <2>5. pending' \in Seq(VRegs)  BY <1>0, <2>1, <2>3, NextVRegType, AppendProperties
  <2> QED BY <1>0, <2>1, <2>3, <2>4, <2>5, NextVRegType DEF TypeOK
<1>2. ASSUME GetArg PROVE TypeOK'
  <2>1. next_vreg < MaxVRegs /\ next_vreg' = next_vreg + 1  BY <1>2 DEF GetArg
  <2>2. ra' \in AllocatorStates
    <3>1. UsageShared(ra, next_vreg, MRegRetValue) \in AllocatorStates
      BY <1>0, <1>a, <2>1, NextVRegType, UsageTypes
    <3>2. ReserveNoFlush(UsageShared(ra, next_vreg, MRegRetValue), MRegRetValue)
            \in AllocatorStates
      BY <3>1, <1>a, <2>1, NextVRegType, UsageTypes
    <3> QED BY <1>2, <3>2 DEF GetArg
  <2>3. /\ pending' = Append(pending, next_vreg) /\ args' = args \cup {next_vreg}
        /\ reads' = {[want |-> ArgValue, got |-> held[MRegRetValue]]}
        /\ UNCHANGED <<held, arg_from, stored>>
    BY <1>2 DEF GetArg
  <2>4. pending' \in Seq(VRegs)  BY <1>0, <2>1, <2>3, NextVRegType, AppendProperties
  <2>5. reads' \in SUBSET [want : Values, got : Values]
    BY <1>0, <1>a, <2>3 DEF Values
  <2>6. args' \in SUBSET VRegs  BY <1>0, <2>1, <2>3, NextVRegType
  <2> QED BY <1>0, <2>1, <2>2, <2>3, <2>4, <2>5, <2>6, NextVRegType DEF TypeOK
<1>3. ASSUME LoadReg PROVE TypeOK'
  <2> DEFINE rd == GetRegRead(ra, next_vreg)
             rb == GetRegRead(rd.ra, Top)
  <2>1. next_vreg < MaxVRegs /\ next_vreg' = next_vreg + 1
    BY <1>3 DEF LoadReg, DefinesVReg
  <2>2. Depth \in 1..Depth  BY <1>0, <1>3 DEF LoadReg
  <2>3. Top \in VRegs /\ Top \in Syms  BY <2>2, PendingType DEF Top
  <2>4. rd \in Answers  BY <1>0, <2>1, NextVRegType, GetRegReadType
  <2>5. rb \in Answers
    <3> HIDE DEF rd
    <3> QED BY <2>3, <2>4, GetRegReadType DEF Answers
  <2>6. /\ ra' = rb.ra /\ held' = [held EXCEPT ![rd.mreg] = next_vreg]
        /\ pending' = Append(DropTop(1), next_vreg)
        /\ reads' = {Reading(Top, rb.mreg)} /\ UNCHANGED <<arg_from, args, stored>>
    BY <1>3 DEF LoadReg
  <2> HIDE DEF rd, rb
  <2>7. ra' \in AllocatorStates /\ held' \in [MRegs -> Values]
    BY <1>0, <2>1, <2>4, <2>5, <2>6, NextVRegType DEF Answers
  <2>8. pending' \in Seq(VRegs)
    BY <2>1, <2>6, NextVRegType, DroppingType, AppendProperties
  <2>9. reads' \in SUBSET [want : Values, got : Values]
    BY <2>3, <2>5, <2>6, ReadingType DEF Answers
  <2> QED BY <1>0, <2>1, <2>6, <2>7, <2>8, <2>9, NextVRegType DEF TypeOK
<1>4. ASSUME Arith PROVE TypeOK'
  <2> DEFINE v1 == pending[Depth - 1]
             r == GetRegArith(ra, next_vreg, v1, Top)
  <2>1. next_vreg < MaxVRegs /\ next_vreg' = next_vreg + 1
    BY <1>4 DEF Arith, DefinesVReg
  <2>2. Depth \in 1..Depth /\ Depth - 1 \in 1..Depth  BY <1>0, <1>4 DEF Arith
  <2>3. Top \in VRegs /\ Top \in Syms /\ v1 \in VRegs /\ v1 \in Syms
    BY <2>2, PendingType DEF Top
  <2>4. r \in [ra : AllocatorStates, md : MRegs, m1 : MRegs, m2 : MRegs]
    <3> HIDE DEF v1
    <3> QED BY <1>0, <2>1, <2>3, NextVRegType, GetRegArithType
  <2>5. /\ ra' = r.ra /\ held' = [held EXCEPT ![r.md] = next_vreg]
        /\ pending' = Append(DropTop(2), next_vreg)
        /\ reads' = {Reading(v1, r.m1), Reading(Top, r.m2)}
        /\ UNCHANGED <<arg_from, args, stored>>
    BY <1>4 DEF Arith
  <2> HIDE DEF r, v1
  <2>6. ra' \in AllocatorStates /\ held' \in [MRegs -> Values]
    BY <1>0, <2>1, <2>4, <2>5, NextVRegType
  <2>7. pending' \in Seq(VRegs)
    BY <2>1, <2>5, NextVRegType, DroppingType, AppendProperties
  <2>8. reads' \in SUBSET [want : Values, got : Values]
    BY <2>3, <2>4, <2>5, ReadingType
  <2> QED BY <1>0, <2>1, <2>5, <2>6, <2>7, <2>8, NextVRegType DEF TypeOK
<1>5. ASSUME NEW x \in Vars, Store(x) PROVE TypeOK'
  <2> DEFINE r == GetRegStore(ra, Top, x)
  <2>1. Depth \in 1..Depth  BY <1>0, <1>5 DEF Store
  <2>2. Top \in VRegs /\ Top \in Syms  BY <2>1, PendingType DEF Top
  <2>3. r \in Answers  BY <1>0, <1>b, <2>2, GetRegStoreType
  <2>4. /\ ra' = [r.ra EXCEPT !.mem[x] = held[r.mreg]]
        /\ reads' = {Reading(Top, r.mreg)} /\ pending' = <<>>
        /\ stored' = [stored EXCEPT ![x] = ValueOf(Top)]
        /\ UNCHANGED <<held, next_vreg, arg_from, args>>
    BY <1>5 DEF Store
  <2> HIDE DEF r
  <2>5. ra' \in AllocatorStates
    <3>1. held[r.mreg] \in Values /\ r.ra \in AllocatorStates
      BY <1>0, <2>3 DEF Answers
    <3> QED BY <2>4, <3>1 DEF AllocatorStates
  <2>6. stored' \in [Vars -> Values]  BY <1>0, <2>2, <2>4 DEF ValueOf, Values
  <2>7. reads' \in SUBSET [want : Values, got : Values]
    BY <2>2, <2>3, <2>4, ReadingType DEF Answers
  <2> QED BY <1>0, <2>4, <2>5, <2>6, <2>7 DEF TypeOK
<1>6. ASSUME StoreReg PROVE TypeOK'
  <2> DEFINE rs == GetRegRead(ra, pending[1])
             rb == GetRegRead(rs.ra, Top)
  <2>1. Depth \in 1..Depth /\ 1 \in 1..Depth  BY <1>0, <1>6 DEF StoreReg
  <2>2. Top \in VRegs /\ Top \in Syms /\ pending[1] \in VRegs /\ pending[1] \in Syms
    BY <2>1, PendingType DEF Top
  <2>3. rs \in Answers  BY <1>0, <2>2, GetRegReadType
  <2>4. rb \in Answers
    <3> HIDE DEF rs
    <3> QED BY <2>2, <2>3, GetRegReadType DEF Answers
  <2>5. /\ ra' = rb.ra /\ pending' = <<>>
        /\ reads' = {Reading(pending[1], rs.mreg), Reading(Top, rb.mreg)}
        /\ UNCHANGED <<held, next_vreg, arg_from, args, stored>>
    BY <1>6 DEF StoreReg
  <2> HIDE DEF rs, rb
  <2>6. reads' \in SUBSET [want : Values, got : Values]
    BY <2>2, <2>3, <2>4, <2>5, ReadingType DEF Answers
  <2> QED BY <1>0, <2>4, <2>5, <2>6 DEF TypeOK, Answers
<1>7. ASSUME JumpCond \/ SetRetVal PROVE TypeOK'
  <2> DEFINE r == GetRegRead(ra, Top)
  <2>1. Depth \in 1..Depth  BY <1>0, <1>7 DEF JumpCond, SetRetVal
  <2>2. Top \in VRegs /\ Top \in Syms  BY <2>1, PendingType DEF Top
  <2>3. r \in Answers  BY <1>0, <2>2, GetRegReadType
  <2>4. /\ ra' = r.ra /\ reads' = {Reading(Top, r.mreg)} /\ pending' = <<>>
        /\ held' = held \/ held' = [held EXCEPT ![MRegRetValue] = held[r.mreg]]
        /\ UNCHANGED <<next_vreg, arg_from, args, stored>>
    BY <1>7 DEF JumpCond, SetRetVal
  <2> HIDE DEF r
  <2>5. held' \in [MRegs -> Values]  BY <1>0, <1>a, <2>3, <2>4 DEF Answers
  <2>6. reads' \in SUBSET [want : Values, got : Values]
    BY <2>2, <2>3, <2>4, ReadingType DEF Answers
  <2> QED BY <1>0, <2>3, <2>4, <2>5, <2>6 DEF TypeOK, Answers
<1>8. ASSUME NEW i \in 1..Depth, SetFirstArg(i) PROVE TypeOK'
  <2> DEFINE r == GetRegRead(ra, pending[i])
             flushed == FlushMReg(r.ra, MRegRetValue)
             forced == [flushed EXCEPT !.usage = IF @ = 0 THEN 1 ELSE @]
  <2>1. pending[i] \in VRegs /\ pending[i] \in Syms  BY PendingType
  <2>2. r \in Answers  BY <1>0, <2>1, GetRegReadType
  <2>3. /\ ra' = (IF r.mreg = MRegRetValue THEN r.ra ELSE forced)
        /\ held' = [held EXCEPT ![MRegRetValue] = held[r.mreg]]
        /\ reads' = {Reading(pending[i], r.mreg)}
        /\ pending' = RemoveAt(pending, i) /\ arg_from' = i
        /\ UNCHANGED <<next_vreg, args, stored>>
    BY <1>8 DEF SetFirstArg
  <2>4. flushed \in AllocatorStates
    <3> HIDE DEF r
    <3> QED BY <1>a, <2>2, FlushMRegType DEF Answers
  <2>5. forced \in AllocatorStates
    <3> HIDE DEF flushed
    <3> QED BY <2>4 DEF AllocatorStates
  <2> HIDE DEF r, flushed, forced
  <2>6. ra' \in AllocatorStates /\ held' \in [MRegs -> Values]
    BY <1>0, <1>a, <2>2, <2>3, <2>5 DEF Answers
  <2>7. pending' \in Seq(VRegs)  BY <2>3, RemovingType
  <2>8. reads' \in SUBSET [want : Values, got : Values]
    BY <2>1, <2>2, <2>3, ReadingType DEF Answers
  <2>9. arg_from' \in Nat  BY <1>0, <2>3
  <2> QED BY <1>0, <2>3, <2>6, <2>7, <2>8, <2>9 DEF TypeOK
<1>9. ASSUME PushArg PROVE TypeOK'
  <2> DEFINE r == GetRegRead(ra, pending[arg_from])
  <2>1. arg_from \in 1..Depth  BY <1>9 DEF PushArg
  <2>2. pending[arg_from] \in VRegs /\ pending[arg_from] \in Syms
    BY <2>1, PendingType
  <2>3. r \in Answers  BY <1>0, <2>2, GetRegReadType
  <2>4. /\ ra' = r.ra /\ reads' = {Reading(pending[arg_from], r.mreg)}
        /\ pending' = RemoveAt(pending, arg_from)
        /\ UNCHANGED <<held, next_vreg, arg_from, args, stored>>
    BY <1>9 DEF PushArg
  <2> HIDE DEF r
  <2>5. pending' \in Seq(VRegs)  BY <2>1, <2>4, RemovingType
  <2>6. reads' \in SUBSET [want : Values, got : Values]
    BY <2>2, <2>3, <2>4, ReadingType DEF Answers
  <2> QED BY <1>0, <2>3, <2>4, <2>5, <2>6 DEF TypeOK, Answers
<1>10. ASSUME NEW n \in 0..function_max_machine_reg - 1, Call(n) PROVE TypeOK'
  <2>1. held' \in [MRegs -> Values]  BY <1>0, <1>10 DEF Call, Values
  <2> QED BY <1>0, <1>10, <2>1 DEF Call, TypeOK
<1>11. ASSUME BeginBB PROVE TypeOK'
  <2>1. ra' \in AllocatorStates  BY <1>0, <1>11, EvictType, Registers DEF BeginBB, Flush
  <2> QED BY <1>0, <1>11, <2>1 DEF BeginBB, TypeOK
<1>12. ASSUME UNCHANGED vars PROVE TypeOK'
  BY <1>0, <1>12 DEF vars, TypeOK
<1> QED
  BY <1>1, <1>2, <1>3, <1>4, <1>5, <1>6, <1>7, <1>8, <1>9, <1>10, <1>11, <1>12 DEF Next

(* The allocator's tables only ever name machine registers and symbols that *)
(* exist: true of every function, those that run out of registers included. *)
THEOREM TypeCorrect == Spec => []TypeOK
<1> QED BY TypeInit, TypeStep, PTL DEF Spec

-----------------------------------------------------------------------------
(* What a state of the allocator is when no register is ever forced free.   *)

\* Operand v is in machine register m: alone there, or, when it is in a, the
\* virtual registers written by GetArg, with the argument in register 0.
FoundAt(A, a, v, m) ==
  /\ A.addr[v] = {m}
  /\ IF v \in a THEN m = 0 ELSE m # 0 /\ A.reg[m] = {v}

\* Exactly the registers that have been handed out in this block are in use.
HandedOut ==
  /\ ra.usage \in FirstMachRegFree..function_max_machine_reg
  /\ \A m \in MRegs \ {0} : ra.reg[m] # {} <=> m \in FirstMachRegFree..ra.usage - 1

\* Machine register 0 is reserved as soon as the argument is named, and only
\* then is a symbol in it.
ArgumentInR0 ==
  /\ ra.noflush = IF args = {} THEN {} ELSE {0}
  /\ \A s \in Syms : 0 \in ra.addr[s] => args # {}

\* The two tables agree on every address but register 0.
AddressesAreHeld ==
  \A s \in Syms : \A m \in ra.addr[s] : m \in MRegs /\ (m # 0 => s \in ra.reg[m])

PendingAreFound ==
  \A i \in 1..Depth :
    pending[i] < next_vreg /\ \E m \in MRegs : FoundAt(ra, args, pending[i], m)

UnwrittenAreNowhere ==
  \A v \in VRegs : v >= next_vreg => ra.addr[v] = {} /\ v \notin args

TableInv ==
  /\ TypeOK
  /\ HandedOut /\ ArgumentInR0 /\ R0StaysReserved /\ AddressesAreHeld
  /\ PendingAreFound /\ UnwrittenAreNowhere

-----------------------------------------------------------------------------
(* Reading an operand that is found.  Only the descriptor of register 0 may *)
(* change, which then names the argument.                                   *)

SameButR0(A, B, a) == B.reg[0] = A.reg[0] \/ \E v \in a : B.reg[0] = {v}

Reread(A, B, a) ==
  /\ B.usage = A.usage /\ B.addr = A.addr /\ B.noflush = A.noflush
  /\ \A m \in MRegs \ {0} : B.reg[m] = A.reg[m]
  /\ SameButR0(A, B, a)

SameMemory(A, B) == B.mem = A.mem /\ B.fault = A.fault

\* B is A after the next register has been handed out to s.
HandsOut(A, B, s, a) ==
  /\ B.usage = A.usage + 1
  /\ B.addr = [A.addr EXCEPT ![s] = {A.usage}]
  /\ \A m \in MRegs \ {0} : B.reg[m] = IF m = A.usage THEN {s} ELSE A.reg[m]
  /\ SameButR0(A, B, a)
  /\ B.noflush = A.noflush

\* A register is free, and s is in none.
CanHandOut(A, s) ==
  /\ A.usage \in FirstMachRegFree..function_max_machine_reg - 1
  /\ A.reg[A.usage] = {} /\ A.addr[s] = {}

LEMMA RereadItself ==
  ASSUME NEW A, NEW a PROVE Reread(A, A, a) /\ SameMemory(A, A)
BY DEF Reread, SameButR0, SameMemory

LEMMA RereadTwice ==
  ASSUME NEW A, NEW B, NEW C, NEW a, Reread(A, B, a), Reread(B, C, a)
  PROVE  Reread(A, C, a)
BY DEF Reread, SameButR0

LEMMA RereadKeepsFound ==
  ASSUME NEW A, NEW B, NEW a, Reread(A, B, a),
         NEW v, NEW m \in MRegs, FoundAt(A, a, v, m)
  PROVE  FoundAt(B, a, v, m)
BY DEF Reread, FoundAt

LEMMA HandsOutThenRereads ==
  ASSUME NEW A, NEW B, NEW C, NEW s, NEW a, HandsOut(A, B, s, a), Reread(B, C, a)
  PROVE  HandsOut(A, C, s, a)
BY DEF HandsOut, Reread, SameButR0

LEMMA HandsOutKeepsFound ==
  ASSUME NEW A \in AllocatorStates, NEW B, NEW s \in Syms, NEW a,
         CanHandOut(A, s), HandsOut(A, B, s, a),
         NEW v \in Syms, v # s, NEW m \in MRegs, FoundAt(A, a, v, m)
  PROVE  FoundAt(B, a, v, m) /\ m # A.usage
<1>1. A.usage # 0  BY Registers DEF CanHandOut, FirstMachRegFree
<1>2. m # A.usage  BY <1>1 DEF FoundAt, CanHandOut
<1>3. B.addr[v] = A.addr[v]  BY DEF HandsOut, AllocatorStates
<1> QED BY <1>2, <1>3 DEF HandsOut, FoundAt

LEMMA ReadingFound ==
  ASSUME NEW A \in AllocatorStates, NEW a, NEW v \in Syms, NEW m \in MRegs,
         FoundAt(A, a, v, m)
  PROVE  /\ GetReg(A, v) = [ra |-> A, mreg |-> m]
         /\ UsageShared(A, v, m) \in AllocatorStates
         /\ Reread(A, UsageShared(A, v, m), a) /\ SameMemory(A, UsageShared(A, v, m))
         /\ GetRegRead(A, v) = [ra |-> UsageShared(A, v, m), mreg |-> m]
<1> DEFINE B == UsageShared(A, v, m)
<1>1. Min({m}) = m  BY MinOfOne, Registers
<1>2. GetReg(A, v) = [ra |-> A, mreg |-> m]  BY <1>1 DEF GetReg, FoundAt
<1>3. B \in AllocatorStates  BY UsageTypes
<1>4. GetRegRead(A, v) = [ra |-> B, mreg |-> m]
  <2> HIDE DEF B
  <2>1. GetRegRead(A, v) = [[ra |-> A, mreg |-> m] EXCEPT !.ra = B]
    BY <1>2 DEF GetRegRead, B
  <2> QED BY <2>1
<1>5. /\ B.usage = A.usage /\ B.noflush = A.noflush /\ SameMemory(A, B)
      /\ B.addr = [A.addr EXCEPT ![v] = A.addr[v] \cup {m}]
      /\ B.reg = [A.reg EXCEPT ![m] = {v}]
  BY DEF UsageShared, SameMemory, AllocatorStates
<1>6. A.addr \in [Syms -> SUBSET MRegs] /\ A.reg \in [MRegs -> SUBSET Syms]
  BY DEF AllocatorStates
<1> HIDE DEF B
<1>7. B.addr = A.addr
  <2>1. A.addr[v] \cup {m} = A.addr[v]  BY DEF FoundAt
  <2> QED BY <1>5, <1>6, <2>1
<1>8. \A n \in MRegs \ {0} : B.reg[n] = A.reg[n]
  BY <1>5, <1>6 DEF FoundAt
<1>9. SameButR0(A, B, a)  BY <1>5, <1>6, Registers DEF FoundAt, SameButR0
<1>10. Reread(A, B, a)  BY <1>5, <1>7, <1>8, <1>9 DEF Reread
<1> QED BY <1>2, <1>3, <1>4, <1>5, <1>10 DEF B

LEMMA GettingFresh ==
  ASSUME NEW A \in AllocatorStates, NEW s \in Syms, CanHandOut(A, s)
  PROVE  /\ A.usage \in MRegs /\ A.usage \in Nat
         /\ GetReg(A, s).mreg = A.usage
         /\ GetReg(A, s).ra \in AllocatorStates
         /\ GetReg(A, s).ra.usage = A.usage + 1
         /\ GetReg(A, s).ra.addr = A.addr /\ GetReg(A, s).ra.reg = A.reg
         /\ GetReg(A, s).ra.noflush = A.noflush /\ GetReg(A, s).ra.mem = A.mem
         /\ GetReg(A, s).ra.fault = A.fault
<1>1. /\ A.usage \in MRegs /\ A.usage \in Nat
      /\ ~ (A.usage < 0) /\ A.usage < function_max_machine_reg
  BY Registers DEF CanHandOut, FirstMachRegFree
<1>2. GetReg(A, s) = [ra |-> [A EXCEPT !.usage = A.usage + 1], mreg |-> A.usage]
  BY <1>1 DEF GetReg, GetFreeReg, CanHandOut
<1>3. [A EXCEPT !.usage = A.usage + 1] \in AllocatorStates
  BY <1>1 DEF AllocatorStates
<1> QED BY <1>1, <1>2, <1>3 DEF AllocatorStates

LEMMA ReadingFresh ==
  ASSUME NEW A \in AllocatorStates, NEW s \in Syms, CanHandOut(A, s), NEW a
  PROVE  /\ GetRegRead(A, s).mreg = A.usage
         /\ GetRegRead(A, s).ra \in AllocatorStates
         /\ HandsOut(A, GetRegRead(A, s).ra, s, a)
         /\ SameMemory(A, GetRegRead(A, s).ra)
<1> DEFINE r == GetReg(A, s)
           B == UsageShared(r.ra, s, A.usage)
<1>1. /\ A.usage \in MRegs /\ r.mreg = A.usage /\ r.ra \in AllocatorStates
      /\ r.ra.usage = A.usage + 1 /\ r.ra.addr = A.addr /\ r.ra.reg = A.reg
      /\ r.ra.noflush = A.noflush /\ r.ra.mem = A.mem /\ r.ra.fault = A.fault
  BY GettingFresh
<1>2. GetRegRead(A, s) = [r EXCEPT !.ra = B]  BY <1>1 DEF GetRegRead
<1>3. r = [ra |-> r.ra, mreg |-> r.mreg]  BY DEF GetReg, GetFreeReg, ForceFreeRegister
<1> HIDE DEF r
<1>4. GetRegRead(A, s).mreg = A.usage /\ GetRegRead(A, s).ra = B
  BY <1>1, <1>2, <1>3
<1>5. B \in AllocatorStates  BY <1>1, UsageTypes
<1>6. /\ B.usage = r.ra.usage /\ B.noflush = r.ra.noflush
      /\ B.mem = r.ra.mem /\ B.fault = r.ra.fault
      /\ B.addr = [r.ra.addr EXCEPT ![s] = r.ra.addr[s] \cup {A.usage}]
      /\ B.reg = [r.ra.reg EXCEPT ![A.usage] = {s}]
  BY <1>1 DEF UsageShared, AllocatorStates
<1>7. A.addr[s] \cup {A.usage} = {A.usage}  BY DEF CanHandOut
<1>8. A.reg \in [MRegs -> SUBSET Syms] /\ 0 \in MRegs /\ A.usage # 0
  BY Registers DEF AllocatorStates, CanHandOut, FirstMachRegFree
<1> HIDE DEF B
<1>9. HandsOut(A, B, s, a)  BY <1>1, <1>6, <1>7, <1>8 DEF HandsOut, SameButR0
<1> QED BY <1>1, <1>4, <1>5, <1>6, <1>9 DEF SameMemory

(* A binary operation reads its operands where they are, and its result gets *)
(* a register of its own.                                                   *)
LEMMA ArithFresh ==
  ASSUME NEW A \in AllocatorStates, NEW d \in Syms, CanHandOut(A, d), NEW a,
         NEW s1 \in Syms, NEW m1 \in MRegs, FoundAt(A, a, s1, m1),
         NEW s2 \in Syms, NEW m2 \in MRegs, FoundAt(A, a, s2, m2)
  PROVE  LET r == GetRegArith(A, d, s1, s2)
         IN  /\ r.md = A.usage /\ r.m1 = m1 /\ r.m2 = m2
             /\ HandsOut(A, r.ra, d, a) /\ SameMemory(A, r.ra)
<1> DEFINE rd == GetReg(A, d)
           E == rd.ra
           F == UsageShared(E, s1, m1)
           G == UsageShared(F, s2, m2)
           B == UsageNewValue(G, d, A.usage)
<1>1. /\ GetReg(A, s1) = [ra |-> A, mreg |-> m1]
      /\ GetReg(A, s2) = [ra |-> A, mreg |-> m2]
  BY ReadingFound
<1>2. /\ A.usage \in MRegs /\ rd.mreg = A.usage /\ E \in AllocatorStates
      /\ E.usage = A.usage + 1 /\ E.addr = A.addr /\ E.reg = A.reg
      /\ E.noflush = A.noflush /\ SameMemory(A, E)
  BY GettingFresh DEF SameMemory
<1>3. GetRegArith(A, d, s1, s2) = [ra |-> B, md |-> A.usage, m1 |-> m1, m2 |-> m2]
  BY <1>1, <1>2 DEF GetRegArith
<1> HIDE DEF rd, E
<1>4. FoundAt(E, a, s1, m1) /\ FoundAt(E, a, s2, m2)  BY <1>2 DEF FoundAt
<1>5. F \in AllocatorStates /\ Reread(E, F, a) /\ SameMemory(E, F)
  BY <1>2, <1>4, ReadingFound
<1> HIDE DEF F
<1>6. FoundAt(F, a, s2, m2)  BY <1>4, <1>5, RereadKeepsFound
<1>7. G \in AllocatorStates /\ Reread(F, G, a) /\ SameMemory(F, G)
  BY <1>5, <1>6, ReadingFound
<1> HIDE DEF G
<1>8. Reread(E, G, a)  BY <1>5, <1>7, RereadTwice
<1>9. A.usage # 0 /\ 0 \in MRegs /\ A.reg[A.usage] = {}
  BY Registers DEF CanHandOut, FirstMachRegFree
<1>10. G.reg[A.usage] = {}  BY <1>2, <1>8, <1>9 DEF Reread
<1>11. /\ B.usage = G.usage /\ B.noflush = G.noflush /\ SameMemory(G, B)
       /\ B.addr = [t \in Syms |-> IF t = d THEN {A.usage}
                     ELSE IF t \in G.reg[A.usage] THEN G.addr[t] \ {A.usage}
                     ELSE G.addr[t]]
       /\ B.reg = [G.reg EXCEPT ![A.usage] = {d}]
  BY <1>2, <1>7 DEF UsageNewValue, SameMemory, AllocatorStates
<1>12. G.addr = A.addr /\ A.addr \in [Syms -> SUBSET MRegs]
  BY <1>2, <1>8 DEF Reread, AllocatorStates
<1> HIDE DEF B
<1>13. B.addr = [A.addr EXCEPT ![d] = {A.usage}]  BY <1>10, <1>11, <1>12
<1>14. G.reg \in [MRegs -> SUBSET Syms]  BY <1>7 DEF AllocatorStates
<1>15. HandsOut(A, B, d, a)
  BY <1>2, <1>8, <1>9, <1>11, <1>13, <1>14 DEF HandsOut, Reread, SameButR0
<1>16. SameMemory(A, B)  BY <1>2, <1>5, <1>7, <1>11 DEF SameMemory
<1> QED BY <1>3, <1>15, <1>16

-----------------------------------------------------------------------------
(* What each action does to the tables.  Its operands are pending, and it   *)
(* finds them.                                                             *)

WasPending(v) == \E j \in 1..Depth : v = pending[j]

ReadsOperands ==
  \A r \in reads' : \E i \in 1..Depth : \E m \in MRegs :
    FoundAt(ra, args, pending[i], m) /\ r = Reading(pending[i], m)

\* The next virtual register is written to the next free machine register.
WritesNext ==
  /\ next_vreg < MaxVRegs /\ next_vreg' = next_vreg + 1
  /\ UNCHANGED <<args, stored>>
  /\ CanHandOut(ra, next_vreg) /\ HandsOut(ra, ra', next_vreg, args)
  /\ SameMemory(ra, ra')
  /\ held' = [held EXCEPT ![ra.usage] = next_vreg]
  /\ \A i \in 1..Len(pending') : pending'[i] = next_vreg \/ WasPending(pending'[i])
  /\ ReadsOperands

\* Only a call made while the argument is still to be read stores a variable
\* or overwrites a machine register in which an operand is pending.
ArgumentAtRisk == MayCall /\ args # {}

OnlyReads ==
  /\ UNCHANGED <<next_vreg, args, stored>>
  /\ Reread(ra, ra', args)
  /\ ArgumentAtRisk \/ SameMemory(ra, ra')
  /\ \/ ArgumentAtRisk \/ Calls = "operand" \/ pending' = <<>>
     \/ \A m \in MRegs : held'[m] = held[m] \/ (m = 0 /\ args = {})
  /\ \A i \in 1..Len(pending') : WasPending(pending'[i])
  /\ ReadsOperands

LEMMA DroppingKeeps ==
  ASSUME TypeOK, NEW n \in Nat
  PROVE  \A i \in 1..Len(DropTop(n)) : WasPending(DropTop(n)[i])
<1>1. pending \in Seq(VRegs) /\ Len(pending) \in Nat  BY DEF TypeOK
<1>2. \A i \in 1..Len(pending) - n : pending[i] \in VRegs  BY <1>1
<1>3. 1 \in Int /\ Len(pending) - n \in Int  BY <1>1
<1> DEFINE q == SubSeq(pending, 1, Len(pending) - n)
           k == Len(pending) - n
<1>4. /\ Len(q) = IF 1 <= k THEN k - 1 + 1 ELSE 0
      /\ \A i \in 1..k - 1 + 1 : q[i] = pending[1 + i - 1]
  BY <1>2, <1>3, SubSeqProperties
<1> HIDE DEF q
<1>5. ASSUME NEW i \in 1..Len(q) PROVE i \in 1..Depth /\ q[i] = pending[i]
  BY <1>1, <1>4 DEF Depth
<1> QED BY <1>5 DEF WasPending, DropTop, Depth, q

LEMMA RemovingKeeps ==
  ASSUME TypeOK, NEW k \in 1..Depth
  PROVE  \A i \in 1..Len(RemoveAt(pending, k)) : WasPending(RemoveAt(pending, k)[i])
<1> DEFINE n == Len(pending)
           p == SubSeq(pending, 1, k - 1)
           q == SubSeq(pending, k + 1, n)
<1>1. pending \in Seq(VRegs) /\ n \in Nat /\ k \in 1..n  BY DEF TypeOK, Depth
<1>2. /\ \A j \in 1..k - 1 : pending[j] \in VRegs
      /\ \A j \in k + 1..n : pending[j] \in VRegs
      /\ 1 \in Int /\ k - 1 \in Int /\ k + 1 \in Int /\ n \in Int
  BY <1>1
<1> HIDE DEF n
<1>3. /\ p \in Seq(VRegs) /\ Len(p) = IF 1 <= k - 1 THEN k - 1 - 1 + 1 ELSE 0
      /\ \A j \in 1..k - 1 - 1 + 1 : p[j] = pending[1 + j - 1]
  BY <1>2, SubSeqProperties
<1>4. /\ q \in Seq(VRegs) /\ Len(q) = IF k + 1 <= n THEN n - (k + 1) + 1 ELSE 0
      /\ \A j \in 1..n - (k + 1) + 1 : q[j] = pending[k + 1 + j - 1]
  BY <1>2, SubSeqProperties
<1> HIDE DEF p, q
<1>5. Len(p) = k - 1 /\ Len(q) = n - k  BY <1>1, <1>3, <1>4
<1>6. /\ Len(p \o q) = Len(p) + Len(q)
      /\ \A i \in 1..Len(p) + Len(q) :
           (p \o q)[i] = IF i <= Len(p) THEN p[i] ELSE q[i - Len(p)]
  BY <1>3, <1>4, ConcatProperties
<1>7. ASSUME NEW i \in 1..Len(p \o q)
      PROVE  \E j \in 1..n : (p \o q)[i] = pending[j]
  <2>1. i \in 1..Len(p) + Len(q)  BY <1>6
  <2>2. CASE i <= Len(p)
    <3>1. i \in 1..n /\ (p \o q)[i] = pending[i]
      BY <1>1, <1>3, <1>5, <1>6, <2>1, <2>2
    <3> QED BY <3>1
  <2>3. CASE ~ (i <= Len(p))
    <3>1. i - Len(p) \in 1..n - (k + 1) + 1  BY <1>1, <1>5, <2>1, <2>3
    <3>2. (p \o q)[i] = pending[k + 1 + (i - Len(p)) - 1]
      BY <1>4, <1>6, <2>1, <2>3, <3>1
    <3>3. k + 1 + (i - Len(p)) - 1 \in 1..n  BY <1>1, <1>5, <2>1, <2>3
    <3> QED BY <3>2, <3>3
  <2> QED BY <2>2, <2>3
<1>8. RemoveAt(pending, k) = p \o q  BY DEF RemoveAt, p, q, n
<1> QED BY <1>7, <1>8 DEF WasPending, Depth, n

LEMMA AppendingKeeps ==
  ASSUME NEW q \in Seq(VRegs), NEW v \in VRegs,
         \A i \in 1..Len(q) : WasPending(q[i])
  PROVE  \A i \in 1..Len(Append(q, v)) :
           Append(q, v)[i] = v \/ WasPending(Append(q, v)[i])
<1>1. /\ Len(Append(q, v)) = Len(q) + 1 /\ Len(q) \in Nat
      /\ \A i \in 1..Len(q) : Append(q, v)[i] = q[i]
      /\ Append(q, v)[Len(q) + 1] = v
  BY AppendProperties
<1>2. ASSUME NEW i \in 1..Len(Append(q, v))
      PROVE  Append(q, v)[i] = v \/ WasPending(Append(q, v)[i])
  <2>1. CASE i = Len(q) + 1  BY <1>1, <2>1
  <2>2. CASE i # Len(q) + 1
    <3>1. i \in 1..Len(q)  BY <1>1, <2>2
    <3>2. Append(q, v)[i] = q[i]  BY <1>1, <3>1
    <3> QED BY <3>1, <3>2
  <2> QED BY <2>1, <2>2
<1> QED BY <1>2

LEMMA TableTypes ==
  ASSUME TableInv
  PROVE  /\ ra \in AllocatorStates /\ held \in [MRegs -> Values] /\ TypeOK
         /\ pending \in Seq(VRegs) /\ Depth \in Nat /\ Depth = Len(pending)
         /\ ra.addr \in [Syms -> SUBSET MRegs] /\ ra.reg \in [MRegs -> SUBSET Syms]
         /\ ra.usage \in Int /\ args \in SUBSET VRegs /\ next_vreg \in Nat
BY DEF TableInv, TypeOK, AllocatorStates, Depth

LEMMA FindingPending ==
  ASSUME TableInv, NEW i \in 1..Depth
  PROVE  /\ pending[i] \in VRegs /\ pending[i] \in Syms /\ pending[i] # next_vreg
         /\ \E m \in MRegs : FoundAt(ra, args, pending[i], m)
<1>1. pending[i] \in VRegs /\ pending[i] \in Syms  BY PendingType DEF TableInv
<1>2. pending[i] < next_vreg /\ \E m \in MRegs : FoundAt(ra, args, pending[i], m)
  BY DEF TableInv, PendingAreFound
<1>3. VRegs \in SUBSET Nat /\ next_vreg \in Nat  BY TableTypes, Registers
<1>4. pending[i] # next_vreg
  <2> DEFINE v == pending[i]
  <2>1. v \in Nat /\ v < next_vreg  BY <1>1, <1>2, <1>3
  <2> HIDE DEF v
  <2>2. v # next_vreg  BY <1>3, <2>1
  <2> QED BY <2>2 DEF v
<1> QED BY <1>1, <1>2, <1>4

LEMMA RegisterIsFree ==
  ASSUME TableInv, next_vreg < MaxVRegs, next_vreg' = next_vreg + 1,
         ra.usage < function_max_machine_reg
  PROVE  CanHandOut(ra, next_vreg) /\ next_vreg \in VRegs /\ next_vreg \in Syms
<1>1. /\ ra.usage \in FirstMachRegFree..function_max_machine_reg
      /\ ra.usage \in Int /\ function_max_machine_reg \in Nat
  BY Registers DEF TableInv, HandedOut, TypeOK, AllocatorStates
<1>2. ra.usage \in FirstMachRegFree..function_max_machine_reg - 1
  BY <1>1 DEF FirstMachRegFree
<1>3. /\ ra.usage \in MRegs \ {0}
      /\ ~ (ra.usage \in FirstMachRegFree..ra.usage - 1)
  BY <1>1, <1>2, Registers DEF FirstMachRegFree
<1>4. ra.reg[ra.usage] = {}  BY <1>3 DEF TableInv, HandedOut
<1>5. next_vreg \in VRegs /\ next_vreg \in Syms  BY NextVRegType DEF TableInv
<1>6. next_vreg >= next_vreg  BY <1>5, Registers
<1>7. ra.addr[next_vreg] = {}  BY <1>5, <1>6 DEF TableInv, UnwrittenAreNowhere
<1> QED BY <1>2, <1>4, <1>5, <1>7 DEF CanHandOut

\* What one operand read from m leaves.
ReadFrom(i, m) ==
  /\ FoundAt(ra, args, pending[i], m)
  /\ GetReg(ra, pending[i]) = [ra |-> ra, mreg |-> m]
  /\ GetRegRead(ra, pending[i]).mreg = m
  /\ GetRegRead(ra, pending[i]).ra \in AllocatorStates
  /\ Reread(ra, GetRegRead(ra, pending[i]).ra, args)
  /\ SameMemory(ra, GetRegRead(ra, pending[i]).ra)

LEMMA ReadingPending ==
  ASSUME TableInv, NEW i \in 1..Depth
  PROVE  \E m \in MRegs : ReadFrom(i, m)
<1> DEFINE v == pending[i]
<1>1. v \in Syms /\ ra \in AllocatorStates  BY FindingPending, TableTypes
<1>2. PICK m \in MRegs : FoundAt(ra, args, v, m)  BY FindingPending
<1> HIDE DEF v
<1>3. /\ GetReg(ra, v) = [ra |-> ra, mreg |-> m]
      /\ UsageShared(ra, v, m) \in AllocatorStates
      /\ Reread(ra, UsageShared(ra, v, m), args)
      /\ SameMemory(ra, UsageShared(ra, v, m))
      /\ GetRegRead(ra, v) = [ra |-> UsageShared(ra, v, m), mreg |-> m]
  BY <1>1, <1>2, ReadingFound
<1>4. /\ GetRegRead(ra, v).mreg = m
      /\ GetRegRead(ra, v).ra = UsageShared(ra, v, m)
  BY <1>3
<1>5. ReadFrom(i, m)  BY <1>2, <1>3, <1>4 DEF ReadFrom, v
<1> QED BY <1>5

LEMMA LoadWrites ==
  ASSUME TableInv, ~Forcing, NEW used \in BOOLEAN, Load(used)
  PROVE  WritesNext
<1> DEFINE r == GetRegRead(ra, next_vreg)
<1>1. /\ next_vreg < MaxVRegs /\ next_vreg' = next_vreg + 1
      /\ ra.usage < function_max_machine_reg
      /\ ra' = r.ra /\ held' = [held EXCEPT ![r.mreg] = next_vreg]
      /\ pending' = (IF used THEN Append(pending, next_vreg) ELSE pending)
      /\ reads' = {} /\ UNCHANGED <<args, stored>>
  BY DEF Load, DefinesVReg
<1>2. CanHandOut(ra, next_vreg) /\ next_vreg \in VRegs /\ next_vreg \in Syms
  BY <1>1, RegisterIsFree
<1>3. /\ r.mreg = ra.usage /\ HandsOut(ra, r.ra, next_vreg, args)
      /\ SameMemory(ra, r.ra)
  BY <1>2, TableTypes, ReadingFresh
<1> HIDE DEF r
<1>4. \A i \in 1..Len(pending) : WasPending(pending[i])  BY DEF WasPending, Depth
<1>5. \A i \in 1..Len(pending') : pending'[i] = next_vreg \/ WasPending(pending'[i])
  BY <1>1, <1>2, <1>4, TableTypes, AppendingKeeps
<1>6. ReadsOperands  BY <1>1 DEF ReadsOperands
<1> QED BY <1>1, <1>2, <1>3, <1>5, <1>6 DEF WritesNext

LEMMA LoadRegWrites ==
  ASSUME TableInv, ~Forcing, LoadReg
  PROVE  WritesNext
<1> DEFINE rd == GetRegRead(ra, next_vreg)
           rb == GetRegRead(rd.ra, Top)
<1>1. /\ next_vreg < MaxVRegs /\ next_vreg' = next_vreg + 1
      /\ ra.usage < function_max_machine_reg
      /\ ra' = rb.ra /\ held' = [held EXCEPT ![rd.mreg] = next_vreg]
      /\ pending' = Append(DropTop(1), next_vreg)
      /\ reads' = {Reading(Top, rb.mreg)} /\ UNCHANGED <<args, stored>>
  BY DEF LoadReg, DefinesVReg
<1>2. CanHandOut(ra, next_vreg) /\ next_vreg \in VRegs /\ next_vreg \in Syms
  BY <1>1, RegisterIsFree
<1>3. Depth \in 1..Depth  BY TableTypes DEF LoadReg
<1>4. Top \in Syms /\ Top # next_vreg  BY <1>3, FindingPending DEF Top
<1>5. PICK m \in MRegs : FoundAt(ra, args, Top, m)
  BY <1>3, FindingPending DEF Top
<1> HIDE DEF rd
<1>6. /\ rd.mreg = ra.usage /\ rd.ra \in AllocatorStates
      /\ HandsOut(ra, rd.ra, next_vreg, args) /\ SameMemory(ra, rd.ra)
  BY <1>2, TableTypes, ReadingFresh DEF rd
<1>7. FoundAt(rd.ra, args, Top, m)
  BY <1>2, <1>4, <1>5, <1>6, TableTypes, HandsOutKeepsFound
<1>8. /\ rb.mreg = m /\ Reread(rd.ra, rb.ra, args) /\ SameMemory(rd.ra, rb.ra)
  BY <1>4, <1>6, <1>7, ReadingFound
<1> HIDE DEF rb
<1>9. HandsOut(ra, rb.ra, next_vreg, args)  BY <1>6, <1>8, HandsOutThenRereads
<1>10. ReadsOperands  BY <1>1, <1>3, <1>5, <1>8 DEF ReadsOperands, Top
<1>11. DropTop(1) \in Seq(VRegs) /\ \A i \in 1..Len(DropTop(1)) : WasPending(DropTop(1)[i])
  BY TableTypes, DroppingType, DroppingKeeps
<1>12. \A i \in 1..Len(pending') : pending'[i] = next_vreg \/ WasPending(pending'[i])
  BY <1>1, <1>2, <1>11, AppendingKeeps
<1> QED BY <1>1, <1>2, <1>6, <1>8, <1>9, <1>10, <1>12 DEF WritesNext, SameMemory

LEMMA ArithWrites ==
  ASSUME TableInv, ~Forcing, Arith
  PROVE  WritesNext
<1> DEFINE v1 == pending[Depth - 1]
           r == GetRegArith(ra, next_vreg, v1, Top)
<1>1. /\ next_vreg < MaxVRegs /\ next_vreg' = next_vreg + 1
      /\ ra.usage < function_max_machine_reg
      /\ ra' = r.ra /\ held' = [held EXCEPT ![r.md] = next_vreg]
      /\ pending' = Append(DropTop(2), next_vreg)
      /\ reads' = {Reading(v1, r.m1), Reading(Top, r.m2)}
      /\ UNCHANGED <<args, stored>>
  BY DEF Arith, DefinesVReg
<1>2. CanHandOut(ra, next_vreg) /\ next_vreg \in VRegs /\ next_vreg \in Syms
  BY <1>1, RegisterIsFree
<1>3. Depth \in 1..Depth /\ Depth - 1 \in 1..Depth  BY TableTypes DEF Arith
<1>4. Top \in Syms /\ v1 \in Syms  BY <1>3, FindingPending DEF Top
<1>5. PICK m1 \in MRegs : FoundAt(ra, args, v1, m1)  BY <1>3, FindingPending
<1>6. PICK m2 \in MRegs : FoundAt(ra, args, Top, m2)
  BY <1>3, FindingPending DEF Top
<1>7. /\ r.md = ra.usage /\ r.m1 = m1 /\ r.m2 = m2
      /\ HandsOut(ra, r.ra, next_vreg, args) /\ SameMemory(ra, r.ra)
  <2> HIDE DEF v1
  <2> QED BY <1>2, <1>4, <1>5, <1>6, TableTypes, ArithFresh
<1> HIDE DEF r
<1>8. ReadsOperands  BY <1>1, <1>3, <1>5, <1>6, <1>7 DEF ReadsOperands, Top
<1>9. DropTop(2) \in Seq(VRegs) /\ \A i \in 1..Len(DropTop(2)) : WasPending(DropTop(2)[i])
  BY TableTypes, DroppingType, DroppingKeeps
<1>10. \A i \in 1..Len(pending') : pending'[i] = next_vreg \/ WasPending(pending'[i])
  BY <1>1, <1>2, <1>9, AppendingKeeps
<1> QED BY <1>1, <1>2, <1>7, <1>8, <1>10 DEF WritesNext

LEMMA FlushTouchesMemory ==
  ASSUME NEW A \in AllocatorStates, NEW m \in MRegs
  PROVE  LET B == FlushMReg(A, m)
         IN  /\ B.usage = A.usage /\ B.reg = A.reg /\ B.addr = A.addr
             /\ B.noflush = A.noflush
             /\ A.reg[m] = {} => SameMemory(A, B)
<1> DEFINE dirty == A.reg[m] \cap Vars
           mem == [x \in Vars |-> IF x \in dirty THEN held[Min(A.addr[x])] ELSE A.mem[x]]
           B == FlushMReg(A, m)
<1>1. CASE \E x \in dirty : A.addr[x] = {}
  <2>1. B = [A EXCEPT !.fault = "no_address"]  BY <1>1 DEF FlushMReg
  <2>2. A.reg[m] # {}  BY <1>1
  <2> HIDE DEF B
  <2> QED BY <2>1, <2>2 DEF AllocatorStates, B
<1>2. CASE ~ \E x \in dirty : A.addr[x] = {}
  <2>1. B = [A EXCEPT !.mem = mem]  BY <1>2 DEF FlushMReg
  <2>2. A.reg[m] = {} => mem = A.mem  BY DEF AllocatorStates
  <2> HIDE DEF B, mem
  <2>3. /\ B.usage = A.usage /\ B.reg = A.reg /\ B.addr = A.addr
        /\ B.noflush = A.noflush /\ B.fault = A.fault /\ B.mem = mem
    BY <2>1 DEF AllocatorStates
  <2> QED BY <2>2, <2>3 DEF SameMemory, B
<1> QED BY <1>1, <1>2

LEMMA StoreRegReads ==
  ASSUME TableInv, StoreReg PROVE OnlyReads
<1> DEFINE v == pending[1]
           rs == GetRegRead(ra, v)
           rb == GetRegRead(rs.ra, Top)
<1>1. Depth \in 1..Depth /\ 1 \in 1..Depth  BY TableTypes DEF StoreReg
<1>2. PICK m1 \in MRegs : ReadFrom(1, m1)  BY <1>1, ReadingPending
<1>3. Top \in Syms  BY <1>1, FindingPending DEF Top
<1>4. PICK m2 \in MRegs : FoundAt(ra, args, Top, m2)
  BY <1>1, FindingPending DEF Top
<1>5. /\ rs.mreg = m1 /\ rs.ra \in AllocatorStates
      /\ Reread(ra, rs.ra, args) /\ SameMemory(ra, rs.ra)
  BY <1>2 DEF ReadFrom
<1>6. /\ ra' = rb.ra /\ pending' = <<>>
      /\ reads' = {Reading(v, rs.mreg), Reading(Top, rb.mreg)}
      /\ UNCHANGED <<next_vreg, args, stored>>
  BY DEF StoreReg
<1> HIDE DEF rs
<1>7. FoundAt(rs.ra, args, Top, m2)  BY <1>4, <1>5, RereadKeepsFound
<1>8. /\ rb.mreg = m2 /\ Reread(rs.ra, rb.ra, args) /\ SameMemory(rs.ra, rb.ra)
  BY <1>3, <1>5, <1>7, ReadingFound
<1> HIDE DEF rb
<1>9. Reread(ra, ra', args)  BY <1>5, <1>6, <1>8, RereadTwice
<1>10. SameMemory(ra, ra')  BY <1>5, <1>6, <1>8 DEF SameMemory
<1>11. FoundAt(ra, args, v, m1)  BY <1>2 DEF ReadFrom
<1>12. ReadsOperands
  BY <1>1, <1>4, <1>5, <1>6, <1>8, <1>11 DEF ReadsOperands, Top
<1> QED BY <1>6, <1>9, <1>10, <1>12 DEF OnlyReads

LEMMA LastReads ==
  ASSUME TableInv, JumpCond \/ SetRetVal PROVE OnlyReads
<1>1. Depth \in 1..Depth  BY TableTypes DEF JumpCond, SetRetVal
<1>2. PICK m \in MRegs : ReadFrom(Depth, m)  BY <1>1, ReadingPending
<1>3. /\ ra' = GetRegRead(ra, Top).ra /\ pending' = <<>>
      /\ reads' = {Reading(Top, GetRegRead(ra, Top).mreg)}
      /\ UNCHANGED <<next_vreg, args, stored>>
  BY DEF JumpCond, SetRetVal
<1>4. ReadsOperands  BY <1>1, <1>2, <1>3 DEF ReadsOperands, ReadFrom, Top
<1> QED BY <1>2, <1>3, <1>4 DEF OnlyReads, ReadFrom, Top

LEMMA PushArgReads ==
  ASSUME TableInv, PushArg PROVE OnlyReads
<1>1. arg_from \in 1..Depth  BY DEF PushArg
<1>2. PICK m \in MRegs : ReadFrom(arg_from, m)  BY <1>1, ReadingPending
<1>3. /\ ra' = GetRegRead(ra, pending[arg_from]).ra
      /\ reads' = {Reading(pending[arg_from], GetRegRead(ra, pending[arg_from]).mreg)}
      /\ pending' = RemoveAt(pending, arg_from)
      /\ UNCHANGED <<held, next_vreg, args, stored>>
  BY DEF PushArg
<1>4. ReadsOperands  BY <1>1, <1>2, <1>3 DEF ReadsOperands, ReadFrom
<1>5. \A j \in 1..Len(pending') : WasPending(pending'[j])
  BY <1>1, <1>3, TableTypes, RemovingKeeps
<1>6. \A m2 \in MRegs : held'[m2] = held[m2]  BY <1>3
<1> QED BY <1>2, <1>3, <1>4, <1>5, <1>6 DEF OnlyReads, ReadFrom

LEMMA CallReads ==
  ASSUME TableInv, NEW n \in 0..function_max_machine_reg - 1, Call(n)
  PROVE  OnlyReads
<1>1. /\ ra' = ra /\ pending' = pending /\ reads' = {}
      /\ UNCHANGED <<next_vreg, args, stored>>
      /\ Calls # "none" /\ (Calls = "statement" => pending = <<>>)
  BY DEF Call, MayCall
<1>2. Calls = "operand" \/ pending' = <<>>  BY <1>1, ConstantsAssumption
<1>3. \A i \in 1..Len(pending') : WasPending(pending'[i])
  BY <1>1 DEF WasPending, Depth
<1> QED BY <1>1, <1>2, <1>3, RereadItself DEF OnlyReads, ReadsOperands

LEMMA SetFirstArgReads ==
  ASSUME TableInv, NEW i \in 1..Depth, SetFirstArg(i)
  PROVE  OnlyReads
<1> DEFINE r == GetRegRead(ra, pending[i])
           flushed == FlushMReg(r.ra, MRegRetValue)
           forced == [flushed EXCEPT !.usage = IF @ = 0 THEN 1 ELSE @]
<1>1. PICK m \in MRegs : ReadFrom(i, m)  BY ReadingPending
<1>2. /\ ra' = (IF r.mreg = MRegRetValue THEN r.ra ELSE forced)
      /\ held' = [held EXCEPT ![MRegRetValue] = held[r.mreg]]
      /\ reads' = {Reading(pending[i], r.mreg)} /\ pending' = RemoveAt(pending, i)
      /\ UNCHANGED <<next_vreg, args, stored>> /\ MayCall
  BY DEF SetFirstArg
<1>3. /\ r.mreg = m /\ r.ra \in AllocatorStates
      /\ Reread(ra, r.ra, args) /\ SameMemory(ra, r.ra)
      /\ FoundAt(ra, args, pending[i], m)
  BY <1>1 DEF ReadFrom
<1>4. ra.usage \in Int /\ ra.usage # 0 /\ MRegRetValue = 0 /\ 0 \in MRegs
  <2>1. ra.usage \in FirstMachRegFree..function_max_machine_reg
    BY DEF TableInv, HandedOut
  <2> QED BY <2>1, Registers DEF MRegRetValue, FirstMachRegFree
<1> HIDE DEF r
<1>5. /\ flushed.usage = r.ra.usage /\ flushed.reg = r.ra.reg
      /\ flushed.addr = r.ra.addr /\ flushed.noflush = r.ra.noflush
      /\ r.ra.reg[0] = {} => SameMemory(r.ra, flushed)
  BY <1>3, <1>4, FlushTouchesMemory
<1>6. flushed \in AllocatorStates
  BY <1>3, <1>4, TableTypes, FlushMRegType
<1> HIDE DEF flushed
<1>7. forced = flushed
  <2>1. flushed.usage # 0  BY <1>3, <1>4, <1>5 DEF Reread
  <2> QED BY <1>6, <2>1 DEF AllocatorStates
<1>8. ra' = r.ra \/ ra' = flushed  BY <1>2, <1>7
<1> HIDE DEF forced
<1>9. Reread(ra, ra', args)
  BY <1>3, <1>5, <1>8 DEF Reread, SameButR0
<1>10. args = {} => SameMemory(ra, ra')
  <2>1. args = {} => ra.reg[0] = {}
    BY <1>4 DEF TableInv, R0StaysReserved
  <2>2. args = {} => r.ra.reg[0] = {}  BY <1>3, <2>1 DEF Reread, SameButR0
  <2> QED BY <1>3, <1>5, <1>8, <2>2 DEF SameMemory
<1>11. \A n \in MRegs : held'[n] = held[n] \/ n = 0
  BY <1>2, <1>4, TableTypes
<1>12. ReadsOperands  BY <1>2, <1>3 DEF ReadsOperands
<1>13. \A j \in 1..Len(pending') : WasPending(pending'[j])
  BY <1>2, TableTypes, RemovingKeeps
<1> QED BY <1>2, <1>9, <1>10, <1>11, <1>12, <1>13 DEF OnlyReads, ArgumentAtRisk

\* Every step that is none of three special actions is one of the two effects.
LEMMA StepEffects ==
  ASSUME TableInv, ~Forcing, Next
  PROVE  \/ WritesNext \/ OnlyReads
         \/ GetArg \/ (\E x \in Vars : Store(x)) \/ BeginBB
<1>1. (\E used \in BOOLEAN : Load(used)) => WritesNext  BY LoadWrites
<1>2. LoadReg => WritesNext  BY LoadRegWrites
<1>3. Arith => WritesNext  BY ArithWrites
<1>4. StoreReg => OnlyReads  BY StoreRegReads
<1>5. JumpCond \/ SetRetVal => OnlyReads  BY LastReads
<1>6. (\E i \in 1..Depth : SetFirstArg(i)) => OnlyReads  BY SetFirstArgReads
<1>7. PushArg => OnlyReads  BY PushArgReads
<1>8. (\E n \in 0..function_max_machine_reg - 1 : Call(n)) => OnlyReads  BY CallReads
<1> QED BY <1>1, <1>2, <1>3, <1>4, <1>5, <1>6, <1>7, <1>8 DEF Next

-----------------------------------------------------------------------------
(* The tables keep their invariant. *)

LEMMA TableInit == Init => TableInv
<1> SUFFICES ASSUME Init PROVE TableInv  OBVIOUS
<1>1. TypeOK  BY TypeInit
<1>2. HandedOut
  BY Registers DEF Init, Reset, HandedOut, FirstMachRegFree
<1>3. AddressesAreHeld /\ UnwrittenAreNowhere /\ ArgumentInR0
  BY DEF Init, Reset, AddressesAreHeld, UnwrittenAreNowhere, ArgumentInR0, Syms
<1>4. PendingAreFound  BY DEF Init, PendingAreFound, Depth
<1>5. R0StaysReserved
  BY Registers DEF Init, Reset, R0StaysReserved, MRegRetValue
<1> QED BY <1>1, <1>2, <1>3, <1>4, <1>5 DEF TableInv

LEMMA WritingKeepsTables ==
  ASSUME TableInv, TypeOK', WritesNext
  PROVE  TableInv'
<1>1. /\ next_vreg \in VRegs /\ next_vreg \in Syms /\ next_vreg \in Nat
      /\ ra.usage \in MRegs \ {0} /\ ra.usage \in Nat
      /\ function_max_machine_reg \in Nat /\ MRegs \in SUBSET Nat /\ 0 \in MRegs
      /\ ra.reg \in [MRegs -> SUBSET Syms] /\ ra.addr \in [Syms -> SUBSET MRegs]
      /\ ra'.reg \in [MRegs -> SUBSET Syms] /\ ra \in AllocatorStates
  <2>1. next_vreg \in VRegs /\ next_vreg \in Syms
    BY NextVRegType DEF TableInv, WritesNext
  <2>2. ra.usage \in MRegs \ {0} /\ ra.usage \in Nat
    BY Registers DEF WritesNext, CanHandOut, FirstMachRegFree
  <2>3. ra'.reg \in [MRegs -> SUBSET Syms]  BY DEF TypeOK, AllocatorStates
  <2> QED BY <2>1, <2>2, <2>3, TableTypes, Registers
<1>2. /\ ra.reg[ra.usage] = {} /\ ra.addr[next_vreg] = {}
      /\ ra.usage \in FirstMachRegFree..function_max_machine_reg - 1
  BY DEF CanHandOut, WritesNext
<1>3. /\ ra'.usage = ra.usage + 1
      /\ ra'.addr = [ra.addr EXCEPT ![next_vreg] = {ra.usage}]
      /\ \A m \in MRegs \ {0} :
           ra'.reg[m] = IF m = ra.usage THEN {next_vreg} ELSE ra.reg[m]
      /\ ra'.noflush = ra.noflush
      /\ SameButR0(ra, ra', args)
  BY DEF HandsOut, WritesNext
<1>4. next_vreg' = next_vreg + 1 /\ args' = args  BY DEF WritesNext
<1>5. HandedOut'
  <2>1. ra'.usage \in FirstMachRegFree..function_max_machine_reg
    BY <1>1, <1>2, <1>3 DEF FirstMachRegFree
  <2>2. ASSUME NEW m \in MRegs \ {0}
        PROVE  ra'.reg[m] # {} <=> m \in FirstMachRegFree..ra'.usage - 1
    <3>1. ra.reg[m] # {} <=> m \in FirstMachRegFree..ra.usage - 1
      BY DEF TableInv, HandedOut
    <3>2. CASE m = ra.usage
      <4>1. ra'.reg[m] = {next_vreg}  BY <1>1, <1>3, <3>2
      <4>2. m \in FirstMachRegFree..ra'.usage - 1
        BY <1>1, <1>2, <1>3, <3>2 DEF FirstMachRegFree
      <4> QED BY <3>2, <4>1, <4>2
    <3>3. CASE m # ra.usage
      <4>1. ra'.reg[m] = ra.reg[m]  BY <1>1, <1>3, <3>3
      <4> QED BY <1>1, <1>3, <3>1, <3>3, <4>1
    <3> QED BY <3>2, <3>3
  <2> QED BY <2>1, <2>2 DEF HandedOut, FirstMachRegFree, function_max_machine_reg, MRegs
<1>6. AddressesAreHeld'
  <2>1. ASSUME NEW t \in Syms, NEW m \in ra'.addr[t]
        PROVE  m \in MRegs /\ (m # 0 => t \in ra'.reg[m])
    <3>1. CASE t = next_vreg  BY <1>1, <1>3, <3>1
    <3>2. CASE t # next_vreg
      <4>1. m \in ra.addr[t]  BY <1>1, <1>3, <3>2
      <4>2. m \in MRegs /\ (m # 0 => t \in ra.reg[m])
        BY <4>1 DEF TableInv, AddressesAreHeld
      <4>3. m # ra.usage  BY <1>1, <1>2, <4>2
      <4> QED BY <1>1, <1>3, <4>2, <4>3
    <3> QED BY <3>1, <3>2
  <2> QED BY <2>1 DEF AddressesAreHeld, Syms, MRegs, VRegs
<1>7. ArgumentInR0'
  <2>1. ASSUME NEW t \in Syms, 0 \in ra'.addr[t] PROVE args # {}
    <3>1. t # next_vreg  BY <1>1, <1>3, <2>1
    <3>2. 0 \in ra.addr[t]  BY <1>1, <1>3, <2>1, <3>1
    <3> QED BY <3>2 DEF TableInv, ArgumentInR0
  <2>2. ra.noflush = IF args = {} THEN {} ELSE {0}  BY DEF TableInv, ArgumentInR0
  <2> QED BY <1>3, <1>4, <2>1, <2>2 DEF ArgumentInR0, Syms, VRegs
<1>8. R0StaysReserved'
  BY <1>3, <1>4 DEF TableInv, R0StaysReserved, SameButR0, MRegRetValue
<1>9. PendingAreFound'
  <2>1. ASSUME NEW i \in 1..Len(pending')
        PROVE  /\ pending'[i] < next_vreg'
               /\ \E m \in MRegs : FoundAt(ra', args', pending'[i], m)
    <3> DEFINE v == pending'[i]
    <3>1. CASE v = next_vreg
      <4>1. next_vreg \notin args  BY <1>1 DEF TableInv, UnwrittenAreNowhere
      <4>2. FoundAt(ra', args', v, ra.usage)
        BY <1>1, <1>3, <1>4, <3>1, <4>1 DEF FoundAt
      <4> QED BY <1>1, <1>4, <3>1, <4>2
    <3>2. CASE WasPending(v)
      <4>1. PICK j \in 1..Depth : v = pending[j]  BY <3>2 DEF WasPending
      <4>2. /\ v \in VRegs /\ v \in Syms /\ v # next_vreg /\ v < next_vreg
            /\ \E m \in MRegs : FoundAt(ra, args, v, m)
        BY <4>1, FindingPending DEF TableInv, PendingAreFound
      <4> HIDE DEF v
      <4>3. PICK m \in MRegs : FoundAt(ra, args, v, m)  BY <4>2
      <4>4. FoundAt(ra', args, v, m)
        BY <1>1, <4>2, <4>3, HandsOutKeepsFound DEF WritesNext
      <4>5. v < next_vreg'  BY <1>1, <1>4, <4>2
      <4> QED BY <1>4, <4>4, <4>5 DEF v
    <3>3. v = next_vreg \/ WasPending(v)  BY DEF WritesNext
    <3> QED BY <3>1, <3>2, <3>3
  <2> QED BY <2>1 DEF PendingAreFound, FoundAt, Depth, MRegs
<1>10. UnwrittenAreNowhere'
  <2>1. ASSUME NEW v \in VRegs, v >= next_vreg'
        PROVE  ra'.addr[v] = {} /\ v \notin args'
    <3>1. v \in Nat /\ v \in Syms /\ v >= next_vreg /\ v # next_vreg
      BY <1>1, <1>4, <2>1, Registers DEF Syms
    <3>2. ra.addr[v] = {} /\ v \notin args  BY <3>1 DEF TableInv, UnwrittenAreNowhere
    <3> QED BY <1>1, <1>3, <1>4, <3>1, <3>2
  <2> QED BY <2>1 DEF UnwrittenAreNowhere, VRegs
<1> QED
  BY <1>5, <1>6, <1>7, <1>8, <1>9, <1>10 DEF TableInv

LEMMA ReadingKeepsTables ==
  ASSUME TableInv, TypeOK', OnlyReads
  PROVE  TableInv'
<1>1. /\ next_vreg' = next_vreg /\ args' = args
      /\ Reread(ra, ra', args)
  BY DEF OnlyReads
<1>2. HandedOut'
  BY <1>1 DEF TableInv, HandedOut, Reread, FirstMachRegFree, function_max_machine_reg, MRegs
<1>3. AddressesAreHeld'
  <2>1. ASSUME NEW t \in Syms, NEW m \in ra'.addr[t]
        PROVE  m \in MRegs /\ (m # 0 => t \in ra'.reg[m])
    BY <1>1 DEF TableInv, AddressesAreHeld, Reread
  <2> QED BY <2>1 DEF AddressesAreHeld, Syms, MRegs, VRegs
<1>4. ArgumentInR0' /\ UnwrittenAreNowhere'
  BY <1>1 DEF TableInv, ArgumentInR0, UnwrittenAreNowhere, Reread, Syms, VRegs
<1>5. R0StaysReserved'
  BY <1>1 DEF TableInv, R0StaysReserved, Reread, SameButR0, MRegRetValue
<1>6. PendingAreFound'
  <2>1. ASSUME NEW i \in 1..Len(pending')
        PROVE  /\ pending'[i] < next_vreg'
               /\ \E m \in MRegs : FoundAt(ra', args', pending'[i], m)
    <3> DEFINE v == pending'[i]
    <3>1. PICK j \in 1..Depth : v = pending[j]  BY DEF OnlyReads, WasPending
    <3>2. v < next_vreg /\ \E m \in MRegs : FoundAt(ra, args, v, m)
      BY <3>1 DEF TableInv, PendingAreFound
    <3> HIDE DEF v
    <3>3. PICK m \in MRegs : FoundAt(ra, args, v, m)  BY <3>2
    <3>4. FoundAt(ra', args, v, m)  BY <1>1, <3>3, RereadKeepsFound
    <3> QED BY <1>1, <3>2, <3>4 DEF v
  <2> QED BY <2>1 DEF PendingAreFound, FoundAt, Depth, MRegs
<1> QED BY <1>2, <1>3, <1>4, <1>5, <1>6 DEF TableInv

\* GetArg reserves machine register 0 and names the argument in it.
LEMMA GettingArgument ==
  ASSUME TableInv, TypeOK', GetArg
  PROVE  /\ next_vreg \in VRegs /\ next_vreg \in Syms
         /\ ra'.usage = ra.usage
         /\ ra'.addr = [ra.addr EXCEPT ![next_vreg] = {0}]
         /\ ra'.reg = [ra.reg EXCEPT ![0] = {next_vreg}]
         /\ ra'.noflush = {0} /\ SameMemory(ra, ra')
         /\ \A i \in 1..Len(pending') : pending'[i] = next_vreg \/ WasPending(pending'[i])
<1> DEFINE B == UsageShared(ra, next_vreg, 0)
<1>1. /\ next_vreg < MaxVRegs /\ next_vreg' = next_vreg + 1
      /\ ra' = ReserveNoFlush(B, 0) /\ pending' = Append(pending, next_vreg)
  BY DEF GetArg, MRegRetValue
<1>2. next_vreg \in VRegs /\ next_vreg \in Syms /\ next_vreg >= next_vreg
  <2>1. next_vreg \in VRegs /\ next_vreg \in Syms
    BY <1>1, NextVRegType DEF TableInv
  <2> QED BY <2>1, Registers
<1>3. B \in AllocatorStates  BY <1>2, TableTypes, UsageTypes, Registers
<1>4. ra.addr[next_vreg] = {}  BY <1>2 DEF TableInv, UnwrittenAreNowhere
<1>5. ra.addr[next_vreg] \cup {0} = {0}  BY <1>4
<1>6. /\ B.usage = ra.usage /\ B.noflush = ra.noflush /\ SameMemory(ra, B)
      /\ B.addr = [ra.addr EXCEPT ![next_vreg] = {0}]
      /\ B.reg = [ra.reg EXCEPT ![0] = {next_vreg}]
  BY <1>5, TableTypes DEF UsageShared, SameMemory, AllocatorStates
<1> HIDE DEF B
<1>7. /\ ra'.usage = B.usage /\ ra'.noflush = B.noflush \cup {0} /\ SameMemory(B, ra')
      /\ ra'.addr = B.addr /\ ra'.reg = B.reg
  BY <1>1, <1>3 DEF ReserveNoFlush, SameMemory, AllocatorStates
<1>8. ra.noflush \cup {0} = {0}  BY DEF TableInv, ArgumentInR0
<1>9. \A i \in 1..Len(pending) : WasPending(pending[i])  BY DEF WasPending, Depth
<1>10. \A i \in 1..Len(pending') : pending'[i] = next_vreg \/ WasPending(pending'[i])
  BY <1>1, <1>2, <1>9, TableTypes, AppendingKeeps
<1> QED BY <1>2, <1>6, <1>7, <1>8, <1>10 DEF SameMemory

\* The operands found before are found where they were.
LEMMA ArgumentKeepsFound ==
  ASSUME TableInv, TypeOK', GetArg,
         NEW v \in Syms, v # next_vreg, NEW m \in MRegs
  PROVE  FoundAt(ra', args', v, m) <=> FoundAt(ra, args, v, m)
<1>1. args' = args \cup {next_vreg}  BY DEF GetArg
<1>2. /\ ra'.addr = [ra.addr EXCEPT ![next_vreg] = {0}]
      /\ ra'.reg = [ra.reg EXCEPT ![0] = {next_vreg}]
      /\ next_vreg \in Syms
  BY GettingArgument
<1>3. ra'.addr[v] = ra.addr[v] /\ (m # 0 => ra'.reg[m] = ra.reg[m])
  BY <1>2, TableTypes
<1> QED BY <1>1, <1>3 DEF FoundAt

LEMMA ArgumentKeepsTables ==
  ASSUME TableInv, TypeOK', GetArg
  PROVE  TableInv'
<1>1. /\ next_vreg' = next_vreg + 1 /\ args' = args \cup {next_vreg}
      /\ next_vreg \in Nat
      /\ ra.addr \in [Syms -> SUBSET MRegs] /\ ra.reg \in [MRegs -> SUBSET Syms]
  BY TableTypes DEF GetArg
<1>2. /\ next_vreg \in VRegs /\ next_vreg \in Syms
      /\ ra'.usage = ra.usage
      /\ ra'.addr = [ra.addr EXCEPT ![next_vreg] = {0}]
      /\ ra'.reg = [ra.reg EXCEPT ![0] = {next_vreg}]
      /\ ra'.noflush = {0}
      /\ \A i \in 1..Len(pending') : pending'[i] = next_vreg \/ WasPending(pending'[i])
  BY GettingArgument
<1>3. \A m \in MRegs \ {0} : ra'.reg[m] = ra.reg[m]  BY <1>1, <1>2
<1>4. HandedOut'
  BY <1>2, <1>3
    DEF TableInv, HandedOut, FirstMachRegFree, function_max_machine_reg, MRegs
<1>5. AddressesAreHeld'
  <2>1. ASSUME NEW t \in Syms, NEW m \in ra'.addr[t]
        PROVE  m \in MRegs /\ (m # 0 => t \in ra'.reg[m])
    <3>1. CASE t = next_vreg  BY <1>1, <1>2, <3>1, Registers
    <3>2. CASE t # next_vreg
      <4>1. m \in ra.addr[t]  BY <1>1, <1>2, <3>2
      <4> QED BY <1>3, <4>1 DEF TableInv, AddressesAreHeld
    <3> QED BY <3>1, <3>2
  <2> QED BY <2>1 DEF AddressesAreHeld, Syms, MRegs, VRegs
<1>6. ArgumentInR0'  BY <1>1, <1>2 DEF ArgumentInR0
<1>7. R0StaysReserved'
  <2>1. ra'.reg[0] = {next_vreg}  BY <1>1, <1>2, Registers
  <2> QED BY <1>1, <2>1 DEF R0StaysReserved, MRegRetValue
<1>8. PendingAreFound'
  <2>1. ASSUME NEW i \in 1..Len(pending')
        PROVE  /\ pending'[i] < next_vreg'
               /\ \E m \in MRegs : FoundAt(ra', args', pending'[i], m)
    <3> DEFINE v == pending'[i]
    <3>1. CASE v = next_vreg
      <4>1. FoundAt(ra', args', v, 0)  BY <1>1, <1>2, <3>1 DEF FoundAt
      <4> QED BY <1>1, <3>1, <4>1, Registers
    <3>2. CASE WasPending(v)
      <4>1. PICK j \in 1..Depth : v = pending[j]  BY <3>2 DEF WasPending
      <4>2. /\ v \in VRegs /\ v \in Syms /\ v # next_vreg /\ v < next_vreg
            /\ \E m \in MRegs : FoundAt(ra, args, v, m)
        BY <4>1, FindingPending DEF TableInv, PendingAreFound
      <4> HIDE DEF v
      <4>3. PICK m \in MRegs : FoundAt(ra, args, v, m)  BY <4>2
      <4>4. FoundAt(ra', args', v, m)  BY <4>2, <4>3, ArgumentKeepsFound
      <4>5. v < next_vreg'  BY <1>1, <4>2, Registers
      <4> QED BY <4>4, <4>5 DEF v
    <3> QED BY <1>2, <3>1, <3>2
  <2> QED BY <2>1 DEF PendingAreFound, FoundAt, Depth, MRegs
<1>9. UnwrittenAreNowhere'
  <2>1. ASSUME NEW v \in VRegs, v >= next_vreg'
        PROVE  ra'.addr[v] = {} /\ v \notin args'
    <3>1. v \in Nat /\ v \in Syms /\ v >= next_vreg /\ v # next_vreg
      BY <1>1, <2>1, Registers DEF Syms
    <3>2. ra.addr[v] = {} /\ v \notin args  BY <3>1 DEF TableInv, UnwrittenAreNowhere
    <3> QED BY <1>1, <1>2, <3>1, <3>2
  <2> QED BY <2>1 DEF UnwrittenAreNowhere, VRegs
<1> QED BY <1>4, <1>5, <1>6, <1>7, <1>8, <1>9 DEF TableInv

\* A store adds the variable to the register its value is in.
LEMMA Storing ==
  ASSUME TableInv, NEW x \in Vars, Store(x)
  PROVE  \E m \in MRegs :
           /\ FoundAt(ra, args, Top, m)
           /\ ra'.usage = ra.usage /\ ra'.noflush = ra.noflush /\ ra'.fault = ra.fault
           /\ ra'.addr = [ra.addr EXCEPT ![x] = {m}]
           /\ ra'.reg = [ra.reg EXCEPT ![m] = ra.reg[m] \cup {x}]
           /\ ra'.mem = [ra.mem EXCEPT ![x] = held[m]]
           /\ reads' = {Reading(Top, m)}
<1>1. x \in Syms /\ ra \in AllocatorStates  BY TableTypes DEF Syms
<1>2. Depth \in 1..Depth  BY TableTypes DEF Store
<1> DEFINE r == GetRegStore(ra, Top, x)
<1>3. PICK m \in MRegs : ReadFrom(Depth, m)  BY <1>2, ReadingPending
<1>4. FoundAt(ra, args, Top, m) /\ GetReg(ra, Top) = [ra |-> ra, mreg |-> m]
  BY <1>3 DEF ReadFrom, Top
<1> DEFINE B == UsageBackToMem(ra, x, m)
<1>5. r.mreg = m /\ r.ra = B
  BY <1>4 DEF GetRegStore
<1>6. /\ ra' = [B EXCEPT !.mem[x] = held[m]] /\ reads' = {Reading(Top, m)}
  BY <1>5 DEF Store
<1> HIDE DEF r
<1>7. /\ B \in AllocatorStates /\ B.usage = ra.usage
      /\ B.addr = [ra.addr EXCEPT ![x] = {m}]
      /\ B.reg = [ra.reg EXCEPT ![m] = ra.reg[m] \cup {x}]
      /\ B.noflush = ra.noflush /\ B.mem = ra.mem /\ B.fault = ra.fault
  <2>1. B \in AllocatorStates  BY <1>1, UsageTypes
  <2> QED BY <1>1, <2>1 DEF UsageBackToMem, AllocatorStates
<1> HIDE DEF B
<1>8. /\ ra'.usage = ra.usage /\ ra'.noflush = ra.noflush /\ ra'.fault = ra.fault
      /\ ra'.addr = [ra.addr EXCEPT ![x] = {m}]
      /\ ra'.reg = [ra.reg EXCEPT ![m] = ra.reg[m] \cup {x}]
      /\ ra'.mem = [ra.mem EXCEPT ![x] = held[m]]
  BY <1>6, <1>7 DEF AllocatorStates
<1> QED BY <1>4, <1>6, <1>8

LEMMA StoreKeepsTables ==
  ASSUME TableInv, TypeOK', NEW x \in Vars, Store(x)
  PROVE  TableInv'
<1>1. /\ pending' = <<>> /\ next_vreg' = next_vreg /\ args' = args
      /\ x \in Syms /\ args \subseteq Syms
      /\ ra.addr \in [Syms -> SUBSET MRegs] /\ ra.reg \in [MRegs -> SUBSET Syms]
  BY TableTypes DEF Store, Syms
<1>2. PICK m \in MRegs :
        /\ FoundAt(ra, args, Top, m)
        /\ ra'.usage = ra.usage /\ ra'.noflush = ra.noflush
        /\ ra'.addr = [ra.addr EXCEPT ![x] = {m}]
        /\ ra'.reg = [ra.reg EXCEPT ![m] = ra.reg[m] \cup {x}]
  BY Storing
<1>3. m = 0 => args # {}  BY <1>2 DEF FoundAt
<1>4. m # 0 => ra.reg[m] # {}  BY <1>2 DEF FoundAt
<1>5. HandedOut'
  <2>1. ASSUME NEW n \in MRegs \ {0} PROVE ra'.reg[n] # {} <=> ra.reg[n] # {}
    BY <1>1, <1>2, <1>4
  <2> QED BY <1>2, <2>1
        DEF TableInv, HandedOut, FirstMachRegFree, function_max_machine_reg, MRegs
<1>6. AddressesAreHeld'
  <2>1. ASSUME NEW t \in Syms, NEW n \in ra'.addr[t]
        PROVE  n \in MRegs /\ (n # 0 => t \in ra'.reg[n])
    <3>1. CASE t = x  BY <1>1, <1>2, <3>1
    <3>2. CASE t # x
      <4>1. n \in ra.addr[t]  BY <1>1, <1>2, <3>2
      <4>2. n \in MRegs /\ (n # 0 => t \in ra.reg[n])
        BY <4>1 DEF TableInv, AddressesAreHeld
      <4> QED BY <1>1, <1>2, <4>2
    <3> QED BY <3>1, <3>2
  <2> QED BY <2>1 DEF AddressesAreHeld, Syms, MRegs, VRegs
<1>7. ArgumentInR0'
  <2>1. ASSUME NEW t \in Syms, 0 \in ra'.addr[t] PROVE args # {}
    <3>1. CASE t = x  BY <1>1, <1>2, <1>3, <2>1, <3>1
    <3>2. CASE t # x
      <4>1. 0 \in ra.addr[t]  BY <1>1, <1>2, <2>1, <3>2
      <4> QED BY <4>1 DEF TableInv, ArgumentInR0
    <3> QED BY <3>1, <3>2
  <2> QED BY <1>1, <1>2, <2>1 DEF TableInv, ArgumentInR0, Syms, VRegs
<1>8. R0StaysReserved'
  <2>1. ra.reg[0] \subseteq IF args = {} THEN {} ELSE args \cup Vars
    BY DEF TableInv, R0StaysReserved, MRegRetValue
  <2>2. ra'.reg[0] \subseteq IF args = {} THEN {} ELSE args \cup Vars
    <3>1. CASE m = 0  BY <1>1, <1>2, <1>3, <2>1, <3>1
    <3>2. CASE m # 0  BY <1>1, <1>2, <2>1, <3>2, Registers
    <3> QED BY <3>1, <3>2
  <2> QED BY <1>1, <2>2 DEF R0StaysReserved, MRegRetValue
<1>9. UnwrittenAreNowhere'
  <2>1. ASSUME NEW w \in VRegs, w >= next_vreg PROVE ra'.addr[w] = {} /\ w \notin args
    <3>1. w # x /\ w \in Syms  BY VarsAssumption, Registers DEF Syms
    <3>2. ra.addr[w] = {} /\ w \notin args  BY <2>1 DEF TableInv, UnwrittenAreNowhere
    <3> QED BY <1>1, <1>2, <3>1, <3>2
  <2> QED BY <1>1, <2>1 DEF UnwrittenAreNowhere, VRegs
<1>10. PendingAreFound'  BY <1>1 DEF PendingAreFound, Depth
<1> QED BY <1>5, <1>6, <1>7, <1>8, <1>9, <1>10 DEF TableInv

(* The Flush at the start of a block empties every register but 0, and leaves *)
(* no symbol with an address but the argument's.                            *)
LEMMA FlushEmpties ==
  ASSUME TableInv
  PROVE  /\ Flush(ra).usage = FirstMachRegFree
         /\ \A m \in MRegs \ {0} : Flush(ra).reg[m] = {}
         /\ Flush(ra).reg[0] = ra.reg[0]
         /\ \A s \in Syms : /\ Flush(ra).addr[s] \subseteq ra.addr[s]
                            /\ Flush(ra).addr[s] \subseteq ra.noflush
         /\ Flush(ra).noflush = ra.noflush /\ SameMemory(ra, Flush(ra))
<1> DEFINE ms == 0..function_max_machine_reg - 1
           used == {m \in ms \ ra.noflush : ra.reg[m] # {}}
           gone == UNION {ra.reg[m] : m \in used}
<1>1. /\ ra \in AllocatorStates /\ ra.usage \in Int
      /\ ra.noflush = (IF args = {} THEN {} ELSE {0})
      /\ args = {} => ra.reg[0] = {}
      /\ ra.usage \in FirstMachRegFree..function_max_machine_reg
      /\ \A m \in MRegs \ {0} : ra.reg[m] # {} <=> m \in FirstMachRegFree..ra.usage - 1
      /\ function_max_machine_reg \in Nat /\ ms \subseteq MRegs /\ FirstMachRegFree = 1
      /\ 0 \in MRegs /\ MRegs \in SUBSET Nat
  BY Registers DEF TableInv, ArgumentInR0, R0StaysReserved, HandedOut, TypeOK,
                   AllocatorStates, FirstMachRegFree, MRegRetValue
<1>2. used = 1..ra.usage - 1
  <2>1. ASSUME NEW m \in used PROVE m \in 1..ra.usage - 1
    <3>1. m # 0  BY <1>1
    <3> QED BY <1>1, <3>1
  <2>2. ASSUME NEW m \in 1..ra.usage - 1 PROVE m \in used
    <3>1. m \in ms /\ m # 0  BY <1>1, <2>2
    <3>2. m \in MRegs /\ m \notin ra.noflush  BY <1>1, <3>1
    <3>3. ra.reg[m] # {}  BY <1>1, <2>2, <3>1, <3>2
    <3> QED BY <1>1, <3>1, <3>2, <3>3
  <2> HIDE DEF used
  <2> QED BY <2>1, <2>2
<1>3. Cardinality(used) = ra.usage - 1
  <2>1. 1 \in Int /\ ra.usage \in Int /\ ra.usage - 1 \in Int /\ ra.usage >= 1
    BY <1>1
  <2>2. Cardinality(1..ra.usage - 1) =
          IF 1 > ra.usage - 1 THEN 0 ELSE (ra.usage - 1) - 1 + 1
    BY <2>1, FS_Interval
  <2> HIDE DEF used
  <2> QED BY <1>2, <2>1, <2>2
<1>4. /\ Flush(ra).usage = ra.usage - Cardinality(used)
      /\ Flush(ra).reg = [m \in MRegs |-> IF m \in used THEN {} ELSE ra.reg[m]]
      /\ Flush(ra).addr = [s \in Syms |-> IF s \in gone THEN {} ELSE ra.addr[s]]
      /\ Flush(ra).noflush = ra.noflush /\ SameMemory(ra, Flush(ra))
  BY <1>1 DEF Flush, Evict, SameMemory, AllocatorStates
<1>5. ASSUME NEW m \in MRegs \ {0} PROVE Flush(ra).reg[m] = {}
  <2>1. m \in used \/ ra.reg[m] = {}
    <3> HIDE DEF used
    <3> QED BY <1>1, <1>2
  <2> HIDE DEF used
  <2> QED BY <1>4, <2>1
<1>6. Flush(ra).reg[0] = ra.reg[0]
  <2>1. 0 \notin used
    <3> HIDE DEF used
    <3> QED BY <1>1, <1>2
  <2> HIDE DEF used
  <2> QED BY <1>1, <1>4, <2>1
<1>7. ASSUME NEW s \in Syms
      PROVE  /\ Flush(ra).addr[s] \subseteq ra.addr[s]
             /\ Flush(ra).addr[s] \subseteq ra.noflush
  <2>1. Flush(ra).addr[s] = IF s \in gone THEN {} ELSE ra.addr[s]
    <3> HIDE DEF gone
    <3> QED BY <1>4
  <2>2. ASSUME NEW m \in ra.addr[s], m # 0 PROVE s \in gone
    <3>1. m \in MRegs /\ s \in ra.reg[m]  BY <2>2 DEF TableInv, AddressesAreHeld
    <3>2. m \in used
      <4> HIDE DEF used
      <4> QED BY <1>1, <1>2, <2>2, <3>1
    <3> QED BY <3>1, <3>2
  <2>3. 0 \in ra.addr[s] => 0 \in ra.noflush
    BY DEF TableInv, ArgumentInR0
  <2> HIDE DEF gone
  <2> QED BY <2>1, <2>2, <2>3
<1> HIDE DEF used
<1>8. Flush(ra).usage = FirstMachRegFree  BY <1>1, <1>3, <1>4
<1> QED BY <1>4, <1>5, <1>6, <1>7, <1>8

LEMMA FlushKeepsTables ==
  ASSUME TableInv, TypeOK', BeginBB
  PROVE  TableInv'
<1>1. /\ ra' = Flush(ra) /\ pending' = <<>>
      /\ next_vreg' = next_vreg /\ args' = args
  BY DEF BeginBB
<1>2. /\ ra'.usage = FirstMachRegFree
      /\ \A m \in MRegs \ {0} : ra'.reg[m] = {}
      /\ ra'.reg[0] = ra.reg[0]
      /\ \A s \in Syms : ra'.addr[s] \subseteq ra.addr[s] /\ ra'.addr[s] \subseteq ra.noflush
      /\ ra'.noflush = ra.noflush
  BY <1>1, FlushEmpties
<1>3. HandedOut'
  <2>1. FirstMachRegFree \in FirstMachRegFree..function_max_machine_reg
    BY Registers DEF FirstMachRegFree
  <2>2. \A m \in MRegs : ~ (m \in FirstMachRegFree..FirstMachRegFree - 1)
    BY Registers DEF FirstMachRegFree
  <2> QED BY <1>2, <2>1, <2>2
        DEF HandedOut, FirstMachRegFree, function_max_machine_reg, MRegs
<1>4. AddressesAreHeld'
  <2>1. ASSUME NEW t \in Syms, NEW m \in ra'.addr[t]
        PROVE  m \in MRegs /\ (m # 0 => t \in ra'.reg[m])
    <3>1. m \in ra.noflush  BY <1>2
    <3>2. m = 0  BY <3>1 DEF TableInv, ArgumentInR0
    <3> QED BY <3>2, Registers
  <2> QED BY <2>1 DEF AddressesAreHeld, Syms, VRegs, MRegs
<1>5. UnwrittenAreNowhere'
  <2>1. ASSUME NEW v \in VRegs, v >= next_vreg PROVE ra'.addr[v] = {} /\ v \notin args
    <3>1. ra.addr[v] = {} /\ v \notin args  BY <2>1 DEF TableInv, UnwrittenAreNowhere
    <3> QED BY <1>2, <3>1 DEF Syms
  <2> QED BY <1>1, <2>1 DEF UnwrittenAreNowhere, VRegs
<1>6. ArgumentInR0'
  <2>1. ASSUME NEW t \in Syms, 0 \in ra'.addr[t] PROVE args # {}
    BY <1>2, <2>1 DEF TableInv, ArgumentInR0
  <2> QED BY <1>1, <1>2, <2>1 DEF TableInv, ArgumentInR0, Syms, VRegs
<1>7. R0StaysReserved'
  BY <1>1, <1>2 DEF TableInv, R0StaysReserved, MRegRetValue
<1>8. PendingAreFound'  BY <1>1 DEF PendingAreFound, Depth
<1> QED BY <1>3, <1>4, <1>5, <1>6, <1>7, <1>8 DEF TableInv

LEMMA TableStep == ASSUME ~Forcing PROVE TableInv /\ [Next]_vars => TableInv'
<1> SUFFICES ASSUME TableInv, [Next]_vars PROVE TableInv'  OBVIOUS
<1>1. TypeOK'  BY TypeStep DEF TableInv
<1>2. CASE Next
  BY <1>1, <1>2, StepEffects, WritingKeepsTables, ReadingKeepsTables,
     ArgumentKeepsTables, StoreKeepsTables, FlushKeepsTables
<1>3. CASE UNCHANGED vars
  BY <1>1, <1>3
    DEF vars, TableInv, HandedOut, ArgumentInR0, R0StaysReserved, AddressesAreHeld,
        PendingAreFound, UnwrittenAreNowhere, FoundAt, Depth
<1> QED BY <1>2, <1>3

LEMMA TableInvariance == ASSUME ~Forcing PROVE Spec => []TableInv
<1> QED BY TableInit, TableStep, PTL DEF Spec

-----------------------------------------------------------------------------
(* Nothing faults, and every operand keeps its value, when what the function *)
(* reads from register 0 is not overwritten first.                          *)

\* No call is made once the argument has been named.
ArgumentOutlivesCalls == ArgReads \in {"never", "leaf"} \/ Calls = "none"

\* Besides, the argument is only named while register 0 contains it, and no
\* call occurs in the middle of an expression.
OperandsOutliveCalls ==
  ArgumentOutlivesCalls /\ ArgReads # "anywhere" /\ Calls # "operand"

FaultInv ==
  /\ TableInv
  /\ ra.fault = "none"
  /\ ~HasArg => args = {}

PendingKeepTheirValue ==
  \A i \in 1..Depth : \A m \in MRegs :
    FoundAt(ra, args, pending[i], m) => held[m] = ValueOf(pending[i])

ValueInv ==
  /\ FaultInv
  /\ PendingKeepTheirValue
  /\ VariablesKeepTheirValue
  /\ ReadsFindTheirValues

LEMMA NoRisk == ASSUME ArgumentOutlivesCalls, FaultInv PROVE ~ArgumentAtRisk
BY DEF ArgumentOutlivesCalls, FaultInv, HasArg, ArgumentAtRisk, MayCall

LEMMA FaultInit == Init => FaultInv
BY TableInit DEF Init, Reset, FaultInv

LEMMA FaultStep ==
  ASSUME ~Forcing, ArgumentOutlivesCalls PROVE FaultInv /\ [Next]_vars => FaultInv'
<1> SUFFICES ASSUME FaultInv, [Next]_vars PROVE FaultInv'  OBVIOUS
<1>1. TableInv /\ TableInv'  BY TableStep DEF FaultInv
<1>2. TypeOK'  BY <1>1 DEF TableInv
<1>3. ra'.fault = "none" /\ (~HasArg => args' = {})
  <2>1. CASE WritesNext  BY <2>1 DEF WritesNext, SameMemory, FaultInv
  <2>2. CASE OnlyReads  BY <2>2, NoRisk DEF OnlyReads, SameMemory, FaultInv
  <2>3. CASE GetArg
    <3>1. SameMemory(ra, ra')  BY <1>1, <1>2, <2>3, GettingArgument
    <3> QED BY <2>3, <3>1 DEF GetArg, SameMemory, FaultInv
  <2>4. ASSUME NEW x \in Vars, Store(x) PROVE ra'.fault = "none" /\ (~HasArg => args' = {})
    <3>1. ra'.fault = ra.fault  BY <1>1, <2>4, Storing
    <3> QED BY <2>4, <3>1 DEF Store, FaultInv
  <2>5. CASE BeginBB
    BY <1>1, <2>5, FlushEmpties DEF BeginBB, SameMemory, FaultInv
  <2>6. CASE UNCHANGED vars  BY <2>6 DEF vars, FaultInv
  <2> QED BY <1>1, <2>1, <2>2, <2>3, <2>4, <2>5, <2>6, StepEffects
<1> QED BY <1>1, <1>3 DEF FaultInv, HasArg

LEMMA FaultInvariance ==
  ASSUME ~Forcing, ArgumentOutlivesCalls PROVE Spec => []FaultInv
<1> QED BY FaultInit, FaultStep, PTL DEF Spec

LEMMA FoundOnce ==
  ASSUME NEW A, NEW a, NEW v, NEW m, NEW n, FoundAt(A, a, v, m), FoundAt(A, a, v, n)
  PROVE  m = n
BY DEF FoundAt

\* What was read of the operands before the step is what they contain.
LEMMA OperandsReadRight ==
  ASSUME PendingKeepTheirValue, ReadsOperands PROVE ReadsFindTheirValues'
<1>1. ASSUME NEW r \in reads' PROVE r.got = r.want
  <2>1. PICK i \in 1..Depth, m \in MRegs :
          FoundAt(ra, args, pending[i], m) /\ r = Reading(pending[i], m)
    BY DEF ReadsOperands
  <2>2. held[m] = ValueOf(pending[i])  BY <2>1 DEF PendingKeepTheirValue
  <2> QED BY <2>1, <2>2 DEF Reading
<1> QED BY <1>1 DEF ReadsFindTheirValues

LEMMA ValueInit == Init => ValueInv
<1> SUFFICES ASSUME Init PROVE ValueInv  OBVIOUS
<1>1. FaultInv  BY FaultInit
<1> QED BY <1>1 DEF Init, Reset, ValueInv, PendingKeepTheirValue, Depth,
                    VariablesKeepTheirValue, ReadsFindTheirValues

LEMMA WritingKeepsValues ==
  ASSUME ValueInv, WritesNext
  PROVE  PendingKeepTheirValue' /\ VariablesKeepTheirValue' /\ ReadsFindTheirValues'
<1>1. TableInv  BY DEF ValueInv, FaultInv
<1>2. /\ args' = args /\ stored' = stored /\ ra'.mem = ra.mem
      /\ held' = [held EXCEPT ![ra.usage] = next_vreg]
      /\ CanHandOut(ra, next_vreg) /\ HandsOut(ra, ra', next_vreg, args)
  BY DEF WritesNext, SameMemory
<1>3. /\ next_vreg \in VRegs /\ next_vreg \in Syms /\ ra.usage \in MRegs
      /\ next_vreg >= next_vreg /\ ra \in AllocatorStates
      /\ held \in [MRegs -> Values]
  <2>1. next_vreg \in VRegs /\ next_vreg \in Syms
    BY <1>1, NextVRegType DEF TableInv, WritesNext
  <2> QED BY <1>1, <1>2, <2>1, TableTypes, Registers DEF CanHandOut, FirstMachRegFree
<1>4. ASSUME NEW i \in 1..Len(pending'), NEW m \in MRegs,
             FoundAt(ra', args', pending'[i], m)
      PROVE  held'[m] = IF pending'[i] \in args' THEN ArgValue ELSE pending'[i]
  <2> DEFINE v == pending'[i]
  <2>1. CASE v = next_vreg
    <3>1. next_vreg \notin args
      BY <1>1, <1>3 DEF TableInv, UnwrittenAreNowhere
    <3>2. ra'.addr[next_vreg] = {ra.usage}
      BY <1>2, <1>3 DEF HandsOut, AllocatorStates
    <3>3. m = ra.usage  BY <1>4, <2>1, <3>2 DEF FoundAt
    <3> QED BY <1>2, <1>3, <2>1, <3>1, <3>3
  <2>2. CASE WasPending(v)
    <3>1. PICK j \in 1..Depth : v = pending[j]  BY <2>2 DEF WasPending
    <3>2. /\ v \in Syms /\ v # next_vreg
          /\ \E n \in MRegs : FoundAt(ra, args, v, n)
      BY <1>1, <3>1, FindingPending
    <3>3. FoundAt(ra', args, v, m)  BY <1>2, <1>4
    <3> HIDE DEF v
    <3>4. PICK n \in MRegs : FoundAt(ra, args, v, n)  BY <3>2
    <3>5. FoundAt(ra', args, v, n) /\ n # ra.usage
      BY <1>2, <1>3, <3>2, <3>4, HandsOutKeepsFound
    <3>6. m = n  BY <3>3, <3>5, FoundOnce
    <3>7. held[n] = ValueOf(v)
      BY <3>1, <3>4 DEF ValueInv, PendingKeepTheirValue
    <3> QED BY <1>2, <1>3, <3>5, <3>6, <3>7 DEF ValueOf, v
  <2> QED BY <2>1, <2>2 DEF WritesNext
<1>5. PendingKeepTheirValue'
  BY <1>4 DEF PendingKeepTheirValue, FoundAt, ValueOf, Depth, MRegs
<1>6. VariablesKeepTheirValue'  BY <1>2 DEF ValueInv, VariablesKeepTheirValue
<1>7. ReadsFindTheirValues'  BY OperandsReadRight DEF ValueInv, WritesNext
<1> QED BY <1>5, <1>6, <1>7

LEMMA ReadingKeepsValues ==
  ASSUME ValueInv, OperandsOutliveCalls, OnlyReads
  PROVE  PendingKeepTheirValue' /\ VariablesKeepTheirValue' /\ ReadsFindTheirValues'
<1>1. TableInv  BY DEF ValueInv, FaultInv
<1>2. ~ArgumentAtRisk /\ Calls # "operand"
  BY NoRisk DEF OperandsOutliveCalls, ValueInv
<1>3. /\ args' = args /\ stored' = stored /\ SameMemory(ra, ra')
      /\ Reread(ra, ra', args)
      /\ \/ pending' = <<>>
         \/ \A m \in MRegs : held'[m] = held[m] \/ (m = 0 /\ args = {})
  BY <1>2 DEF OnlyReads
<1>4. ASSUME NEW i \in 1..Len(pending'), NEW m \in MRegs,
             FoundAt(ra', args', pending'[i], m)
      PROVE  held'[m] = IF pending'[i] \in args' THEN ArgValue ELSE pending'[i]
  <2> DEFINE v == pending'[i]
  <2>1. PICK j \in 1..Depth : v = pending[j]  BY DEF OnlyReads, WasPending
  <2>2. \E n \in MRegs : FoundAt(ra, args, v, n)  BY <1>1, <2>1, FindingPending
  <2>3. FoundAt(ra', args, v, m) /\ pending' # <<>>  BY <1>3, <1>4
  <2> HIDE DEF v
  <2>4. PICK n \in MRegs : FoundAt(ra, args, v, n)  BY <2>2
  <2>5. FoundAt(ra', args, v, n)  BY <1>3, <2>4, RereadKeepsFound
  <2>6. m = n  BY <2>3, <2>5, FoundOnce
  <2>7. held[n] = ValueOf(v)  BY <2>1, <2>4 DEF ValueInv, PendingKeepTheirValue
  <2>8. ~ (n = 0 /\ args = {})  BY <2>4 DEF FoundAt
  <2>9. held'[n] = held[n]  BY <1>3, <2>3, <2>8
  <2> QED BY <1>3, <2>6, <2>7, <2>9 DEF ValueOf, v
<1>5. PendingKeepTheirValue'
  BY <1>4 DEF PendingKeepTheirValue, FoundAt, ValueOf, Depth, MRegs
<1>6. VariablesKeepTheirValue'
  BY <1>3 DEF ValueInv, VariablesKeepTheirValue, SameMemory
<1>7. ReadsFindTheirValues'  BY OperandsReadRight DEF ValueInv, OnlyReads
<1> QED BY <1>5, <1>6, <1>7

LEMMA ArgumentKeepsValues ==
  ASSUME ValueInv, OperandsOutliveCalls, TypeOK', GetArg
  PROVE  PendingKeepTheirValue' /\ VariablesKeepTheirValue' /\ ReadsFindTheirValues'
<1>1. TableInv  BY DEF ValueInv, FaultInv
<1>2. /\ args' = args \cup {next_vreg} /\ stored' = stored /\ held' = held
      /\ held[0] = ArgValue /\ reads' = {[want |-> ArgValue, got |-> held[0]]}
  BY DEF GetArg, OperandsOutliveCalls, MRegRetValue
<1>3. /\ next_vreg \in Syms /\ SameMemory(ra, ra')
      /\ ra'.addr = [ra.addr EXCEPT ![next_vreg] = {0}]
      /\ \A i \in 1..Len(pending') : pending'[i] = next_vreg \/ WasPending(pending'[i])
  BY <1>1, GettingArgument
<1>4. ASSUME NEW i \in 1..Len(pending'), NEW m \in MRegs,
             FoundAt(ra', args', pending'[i], m)
      PROVE  held'[m] = IF pending'[i] \in args' THEN ArgValue ELSE pending'[i]
  <2> DEFINE v == pending'[i]
  <2>1. CASE v = next_vreg
    <3>1. m = 0  BY <1>2, <1>4, <2>1 DEF FoundAt
    <3> QED BY <1>2, <2>1, <3>1
  <2>2. CASE v # next_vreg /\ WasPending(v)
    <3>1. PICK j \in 1..Depth : v = pending[j]  BY <2>2 DEF WasPending
    <3>2. v \in Syms  BY <1>1, <3>1, FindingPending
    <3>3. FoundAt(ra, args, v, m)  BY <1>1, <1>4, <2>2, <3>2, ArgumentKeepsFound
    <3>4. held[m] = ValueOf(v)
      BY <3>1, <3>3 DEF ValueInv, PendingKeepTheirValue
    <3> QED BY <1>2, <2>2, <3>4 DEF ValueOf
  <2> QED BY <1>3, <2>1, <2>2
<1>5. PendingKeepTheirValue'
  BY <1>4 DEF PendingKeepTheirValue, FoundAt, ValueOf, Depth, MRegs
<1>6. VariablesKeepTheirValue'
  BY <1>2, <1>3 DEF ValueInv, VariablesKeepTheirValue, SameMemory
<1>7. ReadsFindTheirValues'  BY <1>2 DEF ReadsFindTheirValues
<1> QED BY <1>5, <1>6, <1>7

LEMMA StoreKeepsValues ==
  ASSUME ValueInv, NEW x \in Vars, Store(x)
  PROVE  PendingKeepTheirValue' /\ VariablesKeepTheirValue' /\ ReadsFindTheirValues'
<1>1. TableInv  BY DEF ValueInv, FaultInv
<1>2. /\ pending' = <<>> /\ stored' = [stored EXCEPT ![x] = ValueOf(Top)]
      /\ Depth \in 1..Depth
  BY <1>1, TableTypes DEF Store
<1>3. PICK m \in MRegs :
        /\ FoundAt(ra, args, Top, m)
        /\ ra'.mem = [ra.mem EXCEPT ![x] = held[m]]
        /\ reads' = {Reading(Top, m)}
  BY <1>1, Storing
<1>4. held[m] = ValueOf(Top)
  BY <1>2, <1>3 DEF ValueInv, PendingKeepTheirValue, Top
<1>5. PendingKeepTheirValue'  BY <1>2 DEF PendingKeepTheirValue, Depth
<1>6. VariablesKeepTheirValue'
  BY <1>2, <1>3, <1>4 DEF ValueInv, VariablesKeepTheirValue
<1>7. ReadsFindTheirValues'  BY <1>3, <1>4 DEF ReadsFindTheirValues, Reading
<1> QED BY <1>5, <1>6, <1>7

LEMMA ValueStep ==
  ASSUME ~Forcing, OperandsOutliveCalls PROVE ValueInv /\ [Next]_vars => ValueInv'
<1> SUFFICES ASSUME ValueInv, [Next]_vars PROVE ValueInv'  OBVIOUS
<1>1. TableInv /\ FaultInv /\ FaultInv'
  BY FaultStep DEF OperandsOutliveCalls, ValueInv, FaultInv
<1>2. TypeOK'  BY <1>1 DEF FaultInv, TableInv
<1>3. PendingKeepTheirValue' /\ VariablesKeepTheirValue' /\ ReadsFindTheirValues'
  <2>1. CASE WritesNext  BY <2>1, WritingKeepsValues
  <2>2. CASE OnlyReads  BY <2>2, ReadingKeepsValues
  <2>3. CASE GetArg  BY <1>2, <2>3, ArgumentKeepsValues
  <2>4. CASE \E x \in Vars : Store(x)  BY <2>4, StoreKeepsValues
  <2>5. CASE BeginBB
    <3>1. /\ pending' = <<>> /\ reads' = {} /\ stored' = stored /\ ra'.mem = ra.mem
      BY <1>1, <2>5, FlushEmpties DEF BeginBB, SameMemory
    <3> QED BY <3>1 DEF ValueInv, PendingKeepTheirValue, Depth,
                        VariablesKeepTheirValue, ReadsFindTheirValues
  <2>6. CASE UNCHANGED vars
    BY <2>6 DEF vars, ValueInv, PendingKeepTheirValue, FoundAt, ValueOf, Depth,
                VariablesKeepTheirValue, ReadsFindTheirValues
  <2> QED BY <1>1, <2>1, <2>2, <2>3, <2>4, <2>5, <2>6, StepEffects
<1> QED BY <1>1, <1>3 DEF ValueInv

LEMMA ValueInvariance ==
  ASSUME ~Forcing, OperandsOutliveCalls PROVE Spec => []ValueInv
<1> QED BY ValueInit, ValueStep, PTL DEF Spec

-----------------------------------------------------------------------------
(* The allocator's properties, for functions whose blocks never run out of   *)
(* registers.                                                              *)

(* Every operand is read from a machine register that contains its value.    *)
THEOREM OperandsAreFound ==
  ASSUME ~Forcing, OperandsOutliveCalls
  PROVE  Spec => []ReadsFindTheirValues
<1>1. ValueInv => ReadsFindTheirValues  BY DEF ValueInv
<1> QED BY <1>1, ValueInvariance, PTL

(* The allocator never writes a variable of its own accord: the variables'   *)
(* memory is what the function assigned.                                    *)
THEOREM VariablesAreKept ==
  ASSUME ~Forcing, OperandsOutliveCalls
  PROVE  Spec => []VariablesKeepTheirValue
<1>1. ValueInv => VariablesKeepTheirValue  BY DEF ValueInv
<1> QED BY <1>1, ValueInvariance, PTL

(* No descriptor is missing when a register is flushed, no register has a    *)
(* negative number, and one is always found.                                *)
THEOREM NothingFaults ==
  ASSUME ~Forcing, ArgumentOutlivesCalls
  PROVE  Spec => []NoFault
<1>1. FaultInv => NoFault  BY DEF FaultInv, NoFault
<1> QED BY <1>1, FaultInvariance, PTL

(* register_usage_ counts the registers in use, wherever the function names   *)
(* its argument and wherever it calls.                                      *)
THEOREM RegistersAreCounted ==
  ASSUME ~Forcing
  PROVE  Spec => []UsageCountsHeldRegisters
<1>1. ASSUME TableInv PROVE UsageCountsHeldRegisters
  <2>1. ra.usage \in Int /\ ra.usage >= 1
    BY <1>1, Registers
      DEF TableInv, HandedOut, TypeOK, AllocatorStates, FirstMachRegFree
  <2>2. ASSUME NEW m \in FirstMachRegFree..function_max_machine_reg - 1
        PROVE  ra.reg[m] # {} <=> m < ra.usage
    <3>1. m \in MRegs \ {0} /\ m \in Int /\ m >= 1
      BY <2>2, Registers DEF FirstMachRegFree
    <3>2. ra.reg[m] # {} <=> m \in FirstMachRegFree..ra.usage - 1
      BY <1>1, <3>1 DEF TableInv, HandedOut
    <3> QED BY <2>1, <3>1, <3>2 DEF FirstMachRegFree
  <2> QED BY <2>2 DEF UsageCountsHeldRegisters
<1> QED BY <1>1, TableInvariance, PTL

(* Machine register 0 is never handed out: nothing but the argument, and the  *)
(* variables it was assigned to, is ever entered in it.                     *)
THEOREM R0IsReserved ==
  ASSUME ~Forcing
  PROVE  Spec => []R0StaysReserved
<1>1. TableInv => R0StaysReserved  BY DEF TableInv
<1> QED BY <1>1, TableInvariance, PTL

(* The Flush at the start of a block leaves no symbol with an address, but   *)
(* the argument's and the variables' it was assigned to.                    *)
THEOREM FlushIsComplete ==
  ASSUME ~Forcing
  PROVE  Spec => FlushForgetsAll
<1>1. ASSUME TableInv, BeginBB
      PROVE  \A s \in Syms : ra'.addr[s] \subseteq ra'.noflush
  BY <1>1, FlushEmpties DEF BeginBB
<1>2. TableInv /\ [Next]_vars
        => [BeginBB => \A s \in Syms : ra'.addr[s] \subseteq ra'.noflush]_vars
  BY <1>1
<1> QED BY <1>2, TableInvariance, PTL DEF Spec, FlushForgetsAll
=============================================================================
