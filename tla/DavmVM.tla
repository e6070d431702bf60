------------------------------- MODULE DavmVM -------------------------------
(***************************************************************************)
(* The DAVM virtual machine: ExecProcess and the instruction handlers of   *)
(* DAVM/src/lib/VM/Execution, with the paged memory and the register bank  *)
(* they run on.  One machine executes one bytecode program, from boot to   *)
(* the verdict of the compiler-injected test.                              *)
(*                                                                         *)
(* Instructions are modelled decoded (the 32-bit layout is a separate      *)
(* matter) and data memory by its words: an address is a byte address, and *)
(* an access goes to the word that holds the byte, as PointerOfAddr does.  *)
(***************************************************************************)
EXTENDS Integers, Sequences, FiniteSets

CONSTANTS
  PageSize,        (* kPageSize: bytes of a page                           *)
  AddrSpace,       (* 2^kWordBits: bytes that can be addressed             *)
  NumRegs,         (* kNumberRegisters; the last one is the stack register *)
  Programs,        (* the bytecode programs the machine may be given       *)
  MemStack,        (* mem_stack_: the chunk [low, high] of the stack       *)
  MemUser,         (* mem_user_space_: the chunks of the program           *)
  CompilerTested,  (* perform_compiler_test_                               *)
  BitOr(_, _),     (* the host's | and & on words                          *)
  BitAnd(_, _)

kWordSize        == 4
kMaxAddress      == AddrSpace - 1
kTestBoolAddress == kMaxAddress + 1 - kWordSize
DefaultStackLow  == kMaxAddress - PageSize * 2 + 1

Addresses == 0 .. kMaxAddress
Words     == -(AddrSpace \div 2) .. (AddrSpace \div 2) - 1
Regs      == 0 .. NumRegs - 1
SP        == NumRegs - 1

(* Conversions between Word (signed) and Addr or Target (unsigned), which  *)
(* have the same width; arithmetic on words wraps around.                  *)
Addr(w)   == IF w < 0 THEN w + AddrSpace ELSE w
ToWord(n) == LET u == n % AddrSpace
             IN  IF u < AddrSpace \div 2 THEN u ELSE u - AddrSpace

-----------------------------------------------------------------------------
(* The instruction set.  A decoded instruction has every field; each class *)
(* uses some of them.                                                      *)

OpCodes == {"JMP", "CALL", "RET", "STOP",
            "LOADI", "LOAD", "LOADB", "STORE", "STOREB", "PUSH", "POP", "LEA",
            "JMPC", "ARII", "ARI", "CMP", "LOGIC", "NOT_FOUND"}

ArithSubtypes == {"ADD", "SUB", "MUL", "DIV", "MOV"}
CompSubtypes  == {"NOT", "EQT", "LST", "LTE"}
LogicSubtypes == {"OR", "AND"}
JumpSubtypes  == {"TRUE", "FALSE"}
SubTypes      == ArithSubtypes \cup CompSubtypes \cup LogicSubtypes
                   \cup JumpSubtypes \cup {"NONE"}

Instructions == [op : OpCodes, reg : Regs, reg2 : Regs, dst : Regs,
                 lit : Words, sub : SubTypes]

ASSUME MachineAssumption ==
  /\ PageSize \in Nat \ {0} /\ PageSize % kWordSize = 0
  /\ AddrSpace \in Nat \ {0} /\ AddrSpace % PageSize = 0 /\ AddrSpace % 8 = 0
  /\ NumRegs \in Nat /\ NumRegs > 1
  /\ \A a, b \in Words : BitOr(a, b) \in Words /\ BitAnd(a, b) \in Words

ASSUME ProgramAssumption ==
  /\ Programs \subseteq Seq(Instructions)
  /\ \A p \in Programs : Len(p) < AddrSpace \div 2
  /\ CompilerTested \in BOOLEAN

(* The backend and the default ByteCode place the stack at the pages       *)
(* DefaultStackPages() returns, below the last page.                       *)
ASSUME StackAssumption ==
  /\ MemStack \in [low : Addresses, high : Addresses]
  /\ MemStack.low % kWordSize = 0 /\ (MemStack.high + 1) % kWordSize = 0
  /\ kWordSize <= MemStack.low /\ MemStack.low < MemStack.high
  /\ MemUser \subseteq [low : Addresses, high : Addresses]
  /\ DefaultStackLow \in MemStack.low .. MemStack.high

-----------------------------------------------------------------------------
(* Memory.  Allocate maps every page a chunk touches (see ProcessMemory);  *)
(* a mapped page starts zeroed.  An access to an unmapped page raises a    *)
(* page fault and goes to the first word of the default stack pages.       *)

PageOfAddr(a) == a \div PageSize
WordOfAddr(a) == a - (a % kWordSize)

MappedPages == {PageOfAddr(a) : a \in UNION {m.low .. m.high : m \in MemUser \cup {MemStack}}}
MappedWords == {a \in Addresses : a % kWordSize = 0 /\ PageOfAddr(a) \in MappedPages}

PageFault(a)         == PageOfAddr(a) \notin MappedPages
LogicalToPhysical(a) == IF PageFault(a) THEN WordOfAddr(DefaultStackLow) ELSE WordOfAddr(a)

StackRegisterHigh == MemStack.high + 1 - kWordSize
StackRegisterLow  == MemStack.low

-----------------------------------------------------------------------------
VARIABLES
  code,     (* byte_code_.stream, fixed at construction                    *)
  phase,    (* where ExecProcess is: "boot", "run" (the loop), "test"      *)
            (* (after it), "end", or "trapped" by the host                 *)
  ip,       (* instruction_pointer_                                        *)
  regs,     (* registers_                                                  *)
  mem,      (* the words of the mapped pages                               *)
  errors    (* error_log_: the exceptions raised, oldest first             *)

vars == <<code, phase, ip, regs, mem, errors>>

(* The constructor: the error log is new, as in a process that has run no   *)
(* other machine.                                                          *)
Init ==
  /\ code \in Programs
  /\ phase = "boot"
  /\ ip = 0
  /\ regs = [r \in Regs |-> 0]
  /\ mem = [a \in MappedWords |-> 0]
  /\ errors = <<>>

HasErrors == errors # <<>>
StackAddr == Addr(regs[SP])

Messages == {"Page fault", "Stack overflow", "Stack underflow", "op not found",
             "Next opcode invalid", "Compiler injected tests failed"}

Exceptions(a) == IF PageFault(a) THEN <<"Page fault">> ELSE <<>>
Raise(es)     == errors' = errors \o es

Load(a)    == mem[LogicalToPhysical(a)]
Store(a, w) == mem' = [mem EXCEPT ![LogicalToPhysical(a)] = w]

(* The fetched instruction, when the loop goes on and it exists.           *)
NextOpCodeIsValid == ip < Len(code)
Instruction == code[ip + 1]
Executing   == phase = "run" /\ ~HasErrors /\ NextOpCodeIsValid
Fetched(op) == Executing /\ Instruction.op = op

NextOpCode  == ip' = ip + 1
ModifyIP(t) == ip' = t

-----------------------------------------------------------------------------
(* ExecProcess around the instructions.                                    *)

ColdBoot ==
  /\ phase = "boot"
  /\ phase' = "run"
  /\ regs' = [regs EXCEPT ![SP] = ToWord(StackRegisterHigh)]
  /\ UNCHANGED <<code, ip, mem, errors>>

InvalidOpCode ==
  /\ phase = "run"
  /\ ~HasErrors
  /\ ~NextOpCodeIsValid
  /\ Raise(<<"Next opcode invalid">>)
  /\ phase' = "test"
  /\ UNCHANGED <<code, ip, regs, mem>>

Stop ==
  /\ Fetched("STOP")
  /\ phase' = "test"
  /\ UNCHANGED <<code, ip, regs, mem, errors>>

(* The loop condition: an exception ends it before the next fetch.         *)
LeaveLoop ==
  /\ phase = "run"
  /\ HasErrors
  /\ phase' = "test"
  /\ UNCHANGED <<code, ip, regs, mem, errors>>

NoVerdict ==
  /\ phase = "test"
  /\ ~CompilerTested
  /\ phase' = "end"
  /\ UNCHANGED <<code, ip, regs, mem, errors>>

(* Faulty variant: the verdict is read, and not looked at.                 *)
CompilerTestIgnored ==
  /\ phase = "test"
  /\ CompilerTested
  /\ phase' = "end"
  /\ regs' = [regs EXCEPT ![0] = Load(kTestBoolAddress)]
  /\ Raise(Exceptions(kTestBoolAddress))
  /\ UNCHANGED <<code, ip, mem>>

CompilerTest ==
  /\ phase = "test"
  /\ CompilerTested
  /\ phase' = "end"
  /\ regs' = [regs EXCEPT ![0] = Load(kTestBoolAddress)]
  /\ Raise(Exceptions(kTestBoolAddress)
             \o (IF regs'[0] = 0 THEN <<"Compiler injected tests failed">> ELSE <<>>))
  /\ UNCHANGED <<code, ip, mem>>

-----------------------------------------------------------------------------
(* The stack.  A push on a full stack and a pop of an empty one raise an   *)
(* exception and leave the stack alone; the instruction still commits.     *)

(* Faulty variant: an overflowing push is dropped without an exception.    *)
PushWordSilently(w) ==
  IF StackAddr < StackRegisterLow
  THEN UNCHANGED <<regs, mem, errors>>
  ELSE /\ Store(StackAddr, w)
       /\ Raise(Exceptions(StackAddr))
       /\ regs' = [regs EXCEPT ![SP] = ToWord(@ - kWordSize)]

(* Faulty variant: the word is stored before the stack is checked.         *)
PushWordStoreFirst(w) ==
  /\ Store(StackAddr, w)
  /\ IF StackAddr < StackRegisterLow
     THEN Raise(<<"Stack overflow">>) /\ UNCHANGED regs
     ELSE Raise(Exceptions(StackAddr)) /\ regs' = [regs EXCEPT ![SP] = ToWord(@ - kWordSize)]

PushWord(w) ==
  IF StackAddr < StackRegisterLow
  THEN /\ Raise(<<"Stack overflow">>)
       /\ UNCHANGED <<regs, mem>>
  ELSE /\ Store(StackAddr, w)
       /\ Raise(Exceptions(StackAddr))
       /\ regs' = [regs EXCEPT ![SP] = ToWord(@ - kWordSize)]

(* Faulty variants: off by one word; the word read before the pointer moves. *)
UnderflowLate   == StackAddr > StackRegisterHigh
PoppedAddrEarly == StackAddr

Underflow  == StackAddr >= StackRegisterHigh
PoppedAddr == Addr(ToWord(regs[SP] + kWordSize))
PoppedWord == IF Underflow THEN 0 ELSE Load(PoppedAddr)
PopErrors  == IF Underflow THEN <<"Stack underflow">> ELSE Exceptions(PoppedAddr)
AfterPop   == IF Underflow THEN regs ELSE [regs EXCEPT ![SP] = ToWord(@ + kWordSize)]

Push ==
  /\ Fetched("PUSH")
  /\ PushWord(regs[Instruction.reg])
  /\ NextOpCode
  /\ UNCHANGED <<code, phase>>

Pop ==
  /\ Fetched("POP")
  /\ regs' = [AfterPop EXCEPT ![Instruction.reg] = PoppedWord]
  /\ Raise(PopErrors)
  /\ NextOpCode
  /\ UNCHANGED <<code, phase, mem>>

Call ==
  /\ Fetched("CALL")
  /\ PushWord(ToWord(ip + 1))
  /\ ModifyIP(Addr(Instruction.lit))
  /\ UNCHANGED <<code, phase>>

Return ==
  /\ Fetched("RET")
  /\ ModifyIP(Addr(PoppedWord))
  /\ regs' = AfterPop
  /\ Raise(PopErrors)
  /\ UNCHANGED <<code, phase, mem>>

-----------------------------------------------------------------------------
(* Control flow.                                                           *)

Jump ==
  /\ Fetched("JMP")
  /\ ModifyIP(Addr(Instruction.lit))
  /\ UNCHANGED <<code, phase, regs, mem, errors>>

JumpC ==
  /\ Fetched("JMPC")
  /\ IF \/ Instruction.sub = "TRUE" /\ regs[Instruction.reg] # 0
        \/ Instruction.sub = "FALSE" /\ regs[Instruction.reg] = 0
     THEN ModifyIP(Addr(Instruction.lit))
     ELSE NextOpCode
  /\ UNCHANGED <<code, phase, regs, mem, errors>>

-----------------------------------------------------------------------------
(* Data movement.                                                          *)

SetReg(r, w) == regs' = [regs EXCEPT ![r] = w]

BaseAddr == Addr(ToWord(Instruction.lit + regs[Instruction.reg2]))

LoadI ==
  /\ Fetched("LOADI")
  /\ SetReg(Instruction.reg, Instruction.lit)
  /\ NextOpCode
  /\ UNCHANGED <<code, phase, mem, errors>>

Lea ==
  /\ Fetched("LEA")
  /\ SetReg(Instruction.reg, ToWord(Instruction.lit + regs[Instruction.reg2]))
  /\ NextOpCode
  /\ UNCHANGED <<code, phase, mem, errors>>

LoadFrom(a) ==
  /\ SetReg(Instruction.reg, Load(a))
  /\ Raise(Exceptions(a))
  /\ NextOpCode
  /\ UNCHANGED <<code, phase, mem>>

LoadW == Fetched("LOAD") /\ LoadFrom(Addr(Instruction.lit))
LoadB == Fetched("LOADB") /\ LoadFrom(BaseAddr)

StoreTo(a) ==
  /\ Store(a, regs[Instruction.reg])
  /\ Raise(Exceptions(a))
  /\ NextOpCode
  /\ UNCHANGED <<code, phase, regs>>

StoreW == Fetched("STORE") /\ StoreTo(Addr(Instruction.lit))
StoreB == Fetched("STOREB") /\ StoreTo(BaseAddr)

-----------------------------------------------------------------------------
(* Arithmetic, comparison, logic.                                          *)

Abs(n) == IF n < 0 THEN -n ELSE n
Bool(b) == IF b THEN 1 ELSE 0

(* C++ division truncates towards zero.                                    *)
Quotient(a, b) == IF (a < 0) = (b < 0) THEN Abs(a) \div Abs(b) ELSE -(Abs(a) \div Abs(b))

(* The host traps a division by zero and the one that overflows.           *)
HostTraps(a, b) == b = 0 \/ (b = -1 /\ a = -(AddrSpace \div 2))

ArithmeticWidened(sub, a, b) ==  (* faulty variant: results are not wrapped *)
  CASE sub = "ADD" -> a + b
    [] sub = "SUB" -> a - b
    [] sub = "MUL" -> a * b
    [] sub = "DIV" -> Quotient(a, b)
    [] sub = "MOV" -> a

Arithmetic(sub, a, b) ==
  CASE sub = "ADD" -> ToWord(a + b)
    [] sub = "SUB" -> ToWord(a - b)
    [] sub = "MUL" -> ToWord(a * b)
    [] sub = "DIV" -> ToWord(Quotient(a, b))
    [] sub = "MOV" -> a

Comparison(sub, a, b) ==
  CASE sub = "NOT" -> Bool(a = 0)
    [] sub = "EQT" -> Bool(a = b)
    [] sub = "LST" -> Bool(a < b)
    [] sub = "LTE" -> Bool(a <= b)

Logic(sub, a, b) ==
  CASE sub = "OR"  -> BitOr(a, b)
    [] sub = "AND" -> BitAnd(a, b)

Src1 == regs[Instruction.reg]
Src2 == regs[Instruction.reg2]

Divides == Instruction.op = "ARI" /\ Instruction.sub = "DIV"

Compute(op, subtypes, result) ==
  /\ Fetched(op)
  /\ Instruction.sub \in subtypes
  /\ ~(Divides /\ HostTraps(Src1, Src2))
  /\ SetReg(Instruction.dst, result)
  /\ NextOpCode
  /\ UNCHANGED <<code, phase, mem, errors>>

InstTypeArihmetic  == Compute("ARI", ArithSubtypes, Arithmetic(Instruction.sub, Src1, Src2))
InstTypeComparison == Compute("CMP", CompSubtypes, Comparison(Instruction.sub, Src1, Src2))
InstTypeLogic      == Compute("LOGIC", LogicSubtypes, Logic(Instruction.sub, Src1, Src2))

DivTrap ==
  /\ Executing
  /\ Divides
  /\ HostTraps(Src1, Src2)
  /\ phase' = "trapped"
  /\ UNCHANGED <<code, ip, regs, mem, errors>>

(* The handler of an arithmetic with an immediate has an empty body.       *)
ArithI ==
  /\ Fetched("ARII")
  /\ NextOpCode
  /\ UNCHANGED <<code, phase, regs, mem, errors>>

(* A code no switch knows raises an exception and is skipped.              *)
OpNotFound ==
  /\ Executing
  /\ \/ Instruction.op = "NOT_FOUND"
     \/ Instruction.op = "ARI" /\ Instruction.sub \notin ArithSubtypes
     \/ Instruction.op = "CMP" /\ Instruction.sub \notin CompSubtypes
     \/ Instruction.op = "LOGIC" /\ Instruction.sub \notin LogicSubtypes
  /\ Raise(<<"op not found">>)
  /\ NextOpCode
  /\ UNCHANGED <<code, phase, regs, mem>>

-----------------------------------------------------------------------------
StackInstruction == Push \/ Pop \/ Call \/ Return
JumpInstruction  == Jump \/ JumpC
DataInstruction  == LoadI \/ Lea \/ LoadW \/ LoadB \/ StoreW \/ StoreB
AluInstruction   == InstTypeArihmetic \/ InstTypeComparison \/ InstTypeLogic
                      \/ DivTrap \/ ArithI \/ OpNotFound

Next ==
  \/ ColdBoot
  \/ InvalidOpCode
  \/ Stop
  \/ LeaveLoop
  \/ NoVerdict
  \/ CompilerTest
  \/ StackInstruction
  \/ JumpInstruction
  \/ DataInstruction
  \/ AluInstruction

Spec == Init /\ [][Next]_vars

(* ExecProcess is a sequential loop: while it can take a step it takes one.*)
FairSpec == Spec /\ WF_vars(Next)

-----------------------------------------------------------------------------
(* Properties of every program.                                            *)

Phases == {"boot", "run", "test", "end", "trapped"}

(* Registers and memory hold machine words, the instruction pointer is a   *)
(* code address (Target).                                                  *)
TypeOK ==
  /\ code \in Programs
  /\ phase \in Phases
  /\ ip \in Addresses
  /\ regs \in [Regs -> Words]
  /\ mem \in [MappedWords -> Words]
  /\ errors \in Seq(Messages)

(* A run reported free of errors reached a STOP, and if the bytecode asks  *)
(* for the compiler's test, the test word in the last page says it passed. *)
CleanRunPassedItsTest ==
  phase = "end" /\ ~HasErrors =>
    /\ NextOpCodeIsValid
    /\ Instruction.op = "STOP"
    /\ CompilerTested => Load(kTestBoolAddress) # 0

(* An instruction that raises an exception commits, and still changes no   *)
(* memory but the word page faults are sent to.                            *)
ExceptionsSpareMemory ==
  [][errors' # errors =>
       \A a \in MappedWords \ {WordOfAddr(DefaultStackLow)} : mem'[a] = mem[a]]_vars

-----------------------------------------------------------------------------
(* Programs that leave the stack to the stack instructions: no other       *)
(* instruction writes the stack register, no store reaches the stack (nor  *)
(* an unmapped page, whose stores land in it).                             *)

StackChunk == MemStack.low .. MemStack.high

LeavesStackAlone(i) ==
  /\ i.op \in {"LOADI", "LOAD", "LOADB", "POP", "PUSH", "LEA"} => i.reg # SP
  /\ i.op \in {"ARI", "CMP", "LOGIC"} => i.dst # SP
  /\ i.op # "STOREB"
  /\ i.op = "STORE" => /\ ~PageFault(Addr(i.lit))
                       /\ WordOfAddr(Addr(i.lit)) \notin StackChunk

Disciplined(p) == \A n \in 1 .. Len(p) : LeavesStackAlone(p[n])

DisciplinedInit     == Init /\ Disciplined(code)
DisciplinedSpec     == DisciplinedInit /\ [][Next]_vars
FairDisciplinedSpec == DisciplinedSpec /\ WF_vars(Next)

(* Such a program never moves the stack pointer off the stack: it is word  *)
(* aligned, at most at the first free word below and never above the top.  *)
StackBounded ==
  phase # "boot" =>
    /\ StackAddr \in StackRegisterLow - kWordSize .. StackRegisterHigh
    /\ StackAddr % kWordSize = 0

StackDepth == IF phase = "boot" THEN 0 ELSE (StackRegisterHigh - StackAddr) \div kWordSize

StackContents == [n \in 1 .. StackDepth |-> mem[StackRegisterHigh - kWordSize * (n - 1)]]

StackUse ==
  IF ~Executing THEN "nothing"
  ELSE CASE Instruction.op = "PUSH" -> "push"
         [] Instruction.op = "POP"  -> "pop"
         [] Instruction.op = "CALL" -> "call"
         [] Instruction.op = "RET"  -> "return"
         [] OTHER                   -> "other"

(* ... and for it the machine is an abstract stack machine: calls return   *)
(* to the instruction after them, pops deliver what was pushed last.       *)
SM == INSTANCE StackMachine WITH
        Values <- Words, Names <- Regs \ {SP}, Targets <- Addresses,
        Capacity <- (StackRegisterHigh - StackRegisterLow) \div kWordSize + 1,
        Verdict <- 0, AsTarget <- Addr, AsWord <- ToWord,
        stack <- StackContents, pc <- ip, doing <- StackUse,
        bank <- [r \in Regs \ {SP} |-> regs[r]], failed <- HasErrors

IsStackMachine == SM!Spec

(* A program that only jumps forward and never shrinks the stack may call  *)
(* itself without end; the stack runs out and stops it.                    *)
OnlyCallsGoBack(p) ==
  \A n \in 1 .. Len(p) :
    /\ p[n].op \notin {"POP", "RET"}
    /\ p[n].op \in {"JMP", "JMPC"} => Addr(p[n].lit) > n - 1

RunawayRecursionStops == OnlyCallsGoBack(code) => <>(phase \in {"end", "trapped"})
=============================================================================
