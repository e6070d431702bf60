------------------------- MODULE RegisterAllocator -------------------------
(***************************************************************************)
(* The register allocator of DACOMPILER's backend                           *)
(* (Backend/RegisterAllocator.hpp), driven by the instruction visitors of   *)
(* BackendDAVM.hpp over the code of ONE function.                           *)
(*                                                                         *)
(* The allocator keeps two tables: reg_desc_, the symbols each machine      *)
(* register is thought to hold, and addr_desc_, the machine registers a     *)
(* symbol is thought to be in.  What decides whether the emitted code is    *)
(* right is what the registers REALLY hold when the code runs, so the model *)
(* runs the emitted instruction beside every allocation: held and ra.mem    *)
(* are the machine's registers and variables, as the number of the virtual  *)
(* register whose value they contain.                                       *)
(*                                                                         *)
(* The IR is produced by a tree walk (IRGenerator.cpp), so the virtual      *)
(* registers still to be read form a stack, pending; each one is written    *)
(* once and read once.                                                     *)
(***************************************************************************)
EXTENDS Integers, Sequences, FiniteSets, SequencesExt

CONSTANTS
  MaxMachineReg,  \* machine registers (16 in the backend)
  FixedUsage,     \* of those, kept for stack, arp and this (1, 2 or 3)
  Vars,           \* variables that have a memory address
  MaxVRegs,       \* bound: virtual registers of the function
  MaxPending,     \* bound: depth of an expression
  Forcing,        \* may a block need more registers than are free?
  Calls,          \* "none"; "statement": only while no operand is pending;
                  \* "operand": anywhere in an expression
  ArgReads        \* the function reads its register argument "never";
                  \* "early": while machine register 0 still holds it;
                  \* "leaf": so, and makes no call afterwards; "anywhere"

ASSUME ConstantsAssumption ==
  /\ MaxMachineReg \in Nat /\ FixedUsage \in 1..3
  /\ MaxMachineReg - FixedUsage > 1
  /\ MaxVRegs \in Nat /\ MaxPending \in Nat
  /\ Forcing \in BOOLEAN
  /\ Calls \in {"none", "statement", "operand"}
  /\ ArgReads \in {"never", "early", "leaf", "anywhere"}

MRegs == 0..MaxMachineReg - 1
VRegs == 0..MaxVRegs - 1

\* A variable's symbol is numbered from max_ir_registers_ up, so it is never
\* a virtual register.
ASSUME VarsAssumption == Vars \cap Int = {} /\ IsFiniteSet(Vars)

Syms == VRegs \cup Vars
HasArg == ArgReads # "never"

MRegRetValue == 0
\* Faulty: machine register 0 is like the others.
FirstMachRegFreeZero == 0
FirstMachRegFree == 1
function_max_machine_reg == MaxMachineReg - FixedUsage

NoValue == -1    \* nothing the function has computed
ArgValue == -2   \* the argument passed in machine register 0
Values == VRegs \cup {NoValue, ArgValue}

VARIABLES
  ra,         \* the allocator's tables, and the memory it stores into
  held,       \* held[m]: whose value machine register m really contains
  pending,    \* virtual registers written and not yet read, oldest first
  next_vreg,  \* the next virtual register of the IR
  arg_from,   \* 0, or the place in pending of the arguments being set
  args,       \* virtual registers written by GetArg
  stored,     \* stored[x]: the value last assigned to variable x
  reads       \* what the last instruction read: wanted and got

vars == <<ra, held, pending, next_vreg, arg_from, args, stored, reads>>

ValueOf(v) == IF v \in args THEN ArgValue ELSE v

-----------------------------------------------------------------------------
(* The allocator's operations, on the record                               *)
(*   usage   register_usage_, the next register handed out                  *)
(*   reg     reg_desc_                                                     *)
(*   addr    addr_desc_, {} for a symbol without an entry                   *)
(*   noflush the registers with mreg_can_be_flushed_ = false                *)
(*   mem     the variables' memory, written by callback_store_              *)
(*   fault   what stopped the compiler, "none" while it runs                *)

Reset == [ usage |-> FirstMachRegFree, reg |-> [m \in MRegs |-> {}],
           addr |-> [s \in Syms |-> {}], noflush |-> {},
           mem |-> [x \in Vars |-> NoValue], fault |-> "none" ]

\* A variable without an address makes addr_desc_.at() throw, or dereferences
\* the begin() of an empty set.
FlushMReg(A, m) ==
  LET dirty == A.reg[m] \cap Vars
  IN  IF \E x \in dirty : A.addr[x] = {}
        THEN [A EXCEPT !.fault = "no_address"]
        ELSE [A EXCEPT !.mem = [x \in Vars |-> IF x \in dirty THEN held[Min(A.addr[x])]
                                                               ELSE @[x]]]

\* Faulty: the register is emptied, its symbols still have it as their address.
EvictKeepsAddresses(A, ms) ==
  LET used == {m \in ms \ A.noflush : A.reg[m] # {}}
  IN  [A EXCEPT !.reg = [m \in MRegs |-> IF m \in used THEN {} ELSE @[m]],
                !.usage = @ - Cardinality(used)]

\* Faulty: the count goes down for every symbol, not for every register.
EvictCountsSymbols(A, ms) ==
  LET used == {m \in ms \ A.noflush : A.reg[m] # {}}
      gone == UNION {A.reg[m] : m \in used}
  IN  [A EXCEPT !.addr = [s \in Syms |-> IF s \in gone THEN {} ELSE @[s]],
                !.reg = [m \in MRegs |-> IF m \in used THEN {} ELSE @[m]],
                !.usage = @ - Cardinality(gone)]

Evict(A, ms) ==
  LET used == {m \in ms \ A.noflush : A.reg[m] # {}}
      gone == UNION {A.reg[m] : m \in used}
  IN  [A EXCEPT !.addr = [s \in Syms |-> IF s \in gone THEN {} ELSE @[s]],
                !.reg = [m \in MRegs |-> IF m \in used THEN {} ELSE @[m]],
                !.usage = @ - Cardinality(used)]

\* WriteBack finds nothing to store: every Usage operation that is called
\* marks its symbol as being in memory.
Flush(A) == Evict(A, 0..function_max_machine_reg - 1)

\* The registers that can be forced free; the smallest of those that hold the
\* fewest symbols is chosen.
Victims(A) == {m \in MRegs \ A.noflush : A.reg[m] \cap VRegs # {}}
Victim(A) ==
  LET fewest == Min({Cardinality(A.reg[m]) : m \in Victims(A)})
  IN  Min({m \in Victims(A) : Cardinality(A.reg[m]) = fewest})

ForceFreeRegister(A) ==
  IF Victims(A) = {}
    THEN [ra |-> [A EXCEPT !.fault = "never_frees"], mreg |-> 0]
    ELSE [ra |-> Evict(FlushMReg(A, Victim(A)), {Victim(A)}), mreg |-> Victim(A)]

\* Faulty: the register handed out is not counted.
GetFreeRegUncounted(A) ==
  IF A.usage < function_max_machine_reg THEN [ra |-> A, mreg |-> A.usage]
                                        ELSE ForceFreeRegister(A)

GetFreeReg(A) ==
  IF A.usage < 0
    THEN [ra |-> [A EXCEPT !.fault = "negative_register"], mreg |-> 0]
  ELSE IF A.usage < function_max_machine_reg
    THEN [ra |-> [A EXCEPT !.usage = @ + 1], mreg |-> A.usage]
    ELSE ForceFreeRegister(A)

\* Faulty: the register a symbol is already in is not looked up.
GetRegAlwaysFree(A, s) == GetFreeReg(A)

GetReg(A, s) ==
  IF A.addr[s] # {} THEN [ra |-> A, mreg |-> Min(A.addr[s])]
                    ELSE GetFreeReg(A)

UsageShared(A, s, m) ==
  [A EXCEPT !.addr[s] = @ \cup {m}, !.reg[m] = {s}]

UsageBackToMem(A, x, m) ==
  [A EXCEPT !.reg[m] = @ \cup {x}, !.addr[x] = {m}]

UsageNewValue(A, s, m) ==
  [A EXCEPT !.addr = [t \in Syms |-> IF t = s THEN {m}
                                     ELSE IF t \in A.reg[m] THEN @[t] \ {m} ELSE @[t]],
            !.reg[m] = {s}]

ReserveNoFlush(A, m) ==
  [A EXCEPT !.noflush = @ \cup {m}, !.usage = IF m # 0 THEN @ + 1 ELSE @]

\* GetRegRead, GetRegLoadI, GetRegGetRetVal and GetRegStoreThroughPointer are
\* the same two calls.
GetRegRead(A, s) ==
  LET r == GetReg(A, s) IN [r EXCEPT !.ra = UsageShared(r.ra, s, r.mreg)]

GetRegStore(A, s, x) ==
  LET r == GetReg(A, s) IN [r EXCEPT !.ra = UsageBackToMem(r.ra, x, r.mreg)]

GetRegArith(A, d, s1, s2) ==
  LET r1 == GetReg(A, s1)
      r2 == GetReg(r1.ra, s2)
      rd == GetReg(r2.ra, d)
      shared == UsageShared(UsageShared(rd.ra, s1, r1.mreg), s2, r2.mreg)
  IN  [ra |-> UsageNewValue(shared, d, rd.mreg),
       md |-> rd.mreg, m1 |-> r1.mreg, m2 |-> r2.mreg]

-----------------------------------------------------------------------------
(* The visitors: each allocates, and runs the instruction it emits.         *)

Init ==
  /\ ra = Reset
  /\ held = [m \in MRegs |-> IF HasArg /\ m = MRegRetValue THEN ArgValue ELSE NoValue]
  /\ pending = <<>>
  /\ next_vreg = 0
  /\ arg_from = 0
  /\ args = {}
  /\ stored = [x \in Vars |-> NoValue]
  /\ reads = {}

Running == ra.fault = "none"
Depth == Len(pending)
Top == pending[Depth]
DropTop(n) == SubSeq(pending, 1, Depth - n)
Reading(v, m) == [want |-> ValueOf(v), got |-> held[m]]

\* An instruction that writes a new virtual register needs one more machine
\* register; without Forcing the blocks are short enough for one to be free.
DefinesVReg ==
  /\ next_vreg < MaxVRegs
  /\ next_vreg' = next_vreg + 1
  /\ Forcing \/ ra.usage < function_max_machine_reg

\* The instructions that evaluate the arguments come before the SetArgs of a
\* call.  Left out are those a call of a member has between two SetArgs: of the
\* object's address, or of the arguments where this is set first.
NoArgsSet == arg_from = 0

\* Does the function have a call here?
MayCall == Calls # "none" /\ (ArgReads = "leaf" => args = {})

\* Faulty: the virtual register is numbered after the counter has moved on.
LoadNumberedLate(used) ==
  /\ Running /\ NoArgsSet /\ DefinesVReg
  /\ used /\ Depth < MaxPending
  /\ LET r == GetRegRead(ra, next_vreg)
     IN  /\ ra' = r.ra
         /\ held' = [held EXCEPT ![r.mreg] = next_vreg]
  /\ pending' = Append(pending, next_vreg + 1)
  /\ reads' = {}
  /\ UNCHANGED <<arg_from, args, stored>>

\* LoadI, Load, PtrElem and GetRetVal.  A call whose value no one uses leaves
\* the register of its GetRetVal unread.
Load(used) ==
  /\ Running /\ NoArgsSet /\ DefinesVReg
  /\ used => Depth < MaxPending
  /\ ~used => pending = <<>> /\ MayCall
  /\ LET r == GetRegRead(ra, next_vreg)
     IN  /\ ra' = r.ra
         /\ held' = [held EXCEPT ![r.mreg] = next_vreg]
  /\ pending' = IF used THEN Append(pending, next_vreg) ELSE pending
  /\ reads' = {}
  /\ UNCHANGED <<arg_from, args, stored>>

\* GetArg: the argument's position, 0, names the machine register.  The IR has
\* one wherever the argument is named.
GetArg ==
  /\ HasArg
  /\ ArgReads # "anywhere" => held[MRegRetValue] = ArgValue
  /\ Running /\ NoArgsSet /\ Depth < MaxPending
  /\ next_vreg < MaxVRegs /\ next_vreg' = next_vreg + 1
  /\ ra' = ReserveNoFlush(UsageShared(ra, next_vreg, MRegRetValue), MRegRetValue)
  /\ args' = args \cup {next_vreg}
  /\ pending' = Append(pending, next_vreg)
  /\ reads' = {[want |-> ArgValue, got |-> held[MRegRetValue]]}
  /\ UNCHANGED <<held, arg_from, stored>>

\* LoadReg and LoadRegOffs: the destination is allocated before the base.
LoadReg ==
  /\ Running /\ NoArgsSet /\ Depth >= 1 /\ DefinesVReg
  /\ LET rd == GetRegRead(ra, next_vreg)
         rb == GetRegRead(rd.ra, Top)
     IN  /\ ra' = rb.ra
         /\ held' = [held EXCEPT ![rd.mreg] = next_vreg]
         /\ reads' = {Reading(Top, rb.mreg)}
  /\ pending' = Append(DropTop(1), next_vreg)
  /\ UNCHANGED <<arg_from, args, stored>>

\* Arith, Logic and Comparison.
Arith ==
  /\ Running /\ NoArgsSet /\ Depth >= 2 /\ DefinesVReg
  /\ LET v1 == pending[Depth - 1]
         r == GetRegArith(ra, next_vreg, v1, Top)
     IN  /\ ra' = r.ra
         /\ held' = [held EXCEPT ![r.md] = next_vreg]
         /\ reads' = {Reading(v1, r.m1), Reading(Top, r.m2)}
  /\ pending' = Append(DropTop(2), next_vreg)
  /\ UNCHANGED <<arg_from, args, stored>>

Store(x) ==
  /\ Running /\ NoArgsSet /\ Depth = 1
  /\ LET r == GetRegStore(ra, Top, x)
     IN  /\ ra' = [r.ra EXCEPT !.mem[x] = held[r.mreg]]
         /\ reads' = {Reading(Top, r.mreg)}
  /\ stored' = [stored EXCEPT ![x] = ValueOf(Top)]
  /\ pending' = <<>>
  /\ UNCHANGED <<held, next_vreg, arg_from, args>>

\* StoreReg: the value, then the address it is stored at.  The pointer is
\* taken to point at none of Vars.
StoreReg ==
  /\ Running /\ NoArgsSet /\ Depth = 2
  /\ LET rs == GetRegRead(ra, pending[1])
         rb == GetRegRead(rs.ra, Top)
     IN  /\ ra' = rb.ra
         /\ reads' = {Reading(pending[1], rs.mreg), Reading(Top, rb.mreg)}
  /\ pending' = <<>>
  /\ UNCHANGED <<held, next_vreg, arg_from, args, stored>>

JumpCond ==
  /\ Running /\ NoArgsSet /\ Depth = 1
  /\ LET r == GetRegRead(ra, Top)
     IN  /\ ra' = r.ra
         /\ reads' = {Reading(Top, r.mreg)}
  /\ pending' = <<>>
  /\ UNCHANGED <<held, next_vreg, arg_from, args, stored>>

SetRetVal ==
  /\ Running /\ NoArgsSet /\ Depth = 1
  /\ LET r == GetRegRead(ra, Top)
     IN  /\ ra' = r.ra
         /\ held' = [held EXCEPT ![MRegRetValue] = held[r.mreg]]
         /\ reads' = {Reading(Top, r.mreg)}
  /\ pending' = <<>>
  /\ UNCHANGED <<next_vreg, arg_from, args, stored>>

\* The first SetArg of a call moves its operand to machine register 0, whose
\* symbols are flushed and whose descriptor is left as it was.
SetFirstArg(i) ==
  /\ Running /\ NoArgsSet /\ MayCall
  /\ Calls = "statement" => i = 1
  /\ LET r == GetRegRead(ra, pending[i])
         flushed == FlushMReg(r.ra, MRegRetValue)
         forced == [flushed EXCEPT !.usage = IF @ = 0 THEN 1 ELSE @]
     IN  /\ ra' = IF r.mreg = MRegRetValue THEN r.ra ELSE forced
         /\ held' = [held EXCEPT ![MRegRetValue] = held[r.mreg]]
         /\ reads' = {Reading(pending[i], r.mreg)}
  /\ pending' = RemoveAt(pending, i)
  /\ arg_from' = i
  /\ UNCHANGED <<next_vreg, args, stored>>

\* The others are pushed.
PushArg ==
  /\ Running /\ arg_from \in 1..Depth
  /\ LET r == GetRegRead(ra, pending[arg_from])
     IN  /\ ra' = r.ra
         /\ reads' = {Reading(pending[arg_from], r.mreg)}
  /\ pending' = RemoveAt(pending, arg_from)
  /\ UNCHANGED <<held, next_vreg, arg_from, args, stored>>

\* The callee has an allocator of its own: it uses machine register 0 and the
\* first n of the others, and saves none of them.
Call(n) ==
  /\ Running
  /\ arg_from = 0 \/ Depth = arg_from - 1
  /\ MayCall
  /\ Calls = "statement" => pending = <<>>
  /\ held' = [m \in MRegs |-> IF m <= n THEN NoValue ELSE held[m]]
  /\ arg_from' = 0
  /\ reads' = {}
  /\ UNCHANGED <<ra, pending, next_vreg, args, stored>>

\* A basic block begins between two statements.
BeginBB ==
  /\ Running /\ pending = <<>> /\ NoArgsSet
  /\ ra' = Flush(ra)
  /\ reads' = {}
  /\ UNCHANGED <<held, pending, next_vreg, arg_from, args, stored>>

Next ==
  \/ \E used \in BOOLEAN : Load(used)
  \/ GetArg
  \/ LoadReg
  \/ Arith
  \/ \E x \in Vars : Store(x)
  \/ StoreReg
  \/ JumpCond
  \/ SetRetVal
  \/ \E i \in 1..Depth : SetFirstArg(i)
  \/ PushArg
  \/ \E n \in 0..function_max_machine_reg - 1 : Call(n)
  \/ BeginBB

Spec == Init /\ [][Next]_vars

-----------------------------------------------------------------------------
Faults == {"none", "no_address", "never_frees", "negative_register"}

AllocatorStates ==
  [ usage : Int, reg : [MRegs -> SUBSET Syms], addr : [Syms -> SUBSET MRegs],
    noflush : SUBSET MRegs, mem : [Vars -> Values], fault : Faults ]

TypeOK ==
  /\ ra \in AllocatorStates
  /\ held \in [MRegs -> Values]
  /\ pending \in Seq(VRegs)
  /\ next_vreg \in 0..MaxVRegs
  /\ arg_from \in Nat
  /\ args \in SUBSET VRegs
  /\ stored \in [Vars -> Values]
  /\ reads \in SUBSET [want : Values, got : Values]

\* Every operand is read from a machine register that contains its value: the
\* register GetReg answers has not been given away, evicted or overwritten
\* since the operand was computed.
ReadsFindTheirValues == \A r \in reads : r.got = r.want

\* A variable's memory is what was last assigned to it: the stores that
\* FlushIRSymbol issues on its own never write anything else.
VariablesKeepTheirValue == ra.mem = stored

\* register_usage_ counts the registers in use: the next register that
\* GetFreeReg hands out by counting is one no symbol is in, because exactly
\* the registers below it are in use.
UsageCountsHeldRegisters ==
  \A m \in FirstMachRegFree..function_max_machine_reg - 1 :
    ra.reg[m] # {} <=> m < ra.usage

\* "forbid use of mach_r0" (FirstMachRegFree): machine register 0, where the
\* arguments and the results of calls travel, is never handed out: what is in
\* it is the argument and the variables the argument was assigned to.
R0StaysReserved ==
  ra.reg[MRegRetValue] \subseteq (IF args = {} THEN {} ELSE args \cup Vars)

\* "Remove all IrSymbols (but those reserved for args in machine registers)":
\* after the Flush at the start of a block no symbol has an address.
FlushForgetsAll ==
  [][BeginBB => \A s \in Syms : ra'.addr[s] \subseteq ra'.noflush]_vars

\* The compiler gets through every function: no descriptor is missing when a
\* register is flushed, no register is negative and one can always be freed.
NoFault == ra.fault = "none"
=============================================================================
