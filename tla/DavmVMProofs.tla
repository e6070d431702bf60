---------------------------- MODULE DavmVMProofs ----------------------------
(***************************************************************************)
(* Theorems about DavmVM, for machines of any size and every program.      *)
(***************************************************************************)
EXTENDS DavmVM, SequenceTheorems, TLAPS

-----------------------------------------------------------------------------
(* The sizes of the machine.                                               *)
LEMMA Sizes ==
  /\ AddrSpace \in Nat /\ AddrSpace >= 8
  /\ AddrSpace \div 2 \in Nat
  /\ AddrSpace = 2 * (AddrSpace \div 2)
  /\ PageSize \in Nat /\ PageSize > 0
  /\ Words \subseteq Int /\ 0 \in Words /\ 1 \in Words
  /\ Addresses \subseteq Nat
  /\ SP \in Regs /\ 0 \in Regs /\ SP # 0
  <1>1. AddrSpace \in Nat /\ AddrSpace > 0 /\ AddrSpace % 8 = 0
    BY MachineAssumption
  <1>2. AddrSpace >= 8 /\ AddrSpace = 2 * (AddrSpace \div 2) /\ AddrSpace \div 2 \in Nat
    BY <1>1
  <1> QED
    BY <1>1, <1>2, MachineAssumption DEF Words, Addresses, kMaxAddress, Regs, SP

(* Arithmetic that wraps around yields machine words.                      *)
LEMMA ToWordType == \A n \in Int : ToWord(n) \in Words
  <1> TAKE n \in Int
  <1> DEFINE u == n % AddrSpace
  <1>1. u \in 0 .. AddrSpace - 1
    BY Sizes
  <1> HIDE DEF u
  <1>2. (IF u < AddrSpace \div 2 THEN u ELSE u - AddrSpace) \in Words
    BY <1>1, Sizes DEF Words
  <1> QED
    BY <1>2 DEF ToWord, u

(* Every word read as unsigned is an address.                              *)
LEMMA AddrType == \A w \in Words : Addr(w) \in Addresses
  BY Sizes DEF Words, Addr, Addresses, kMaxAddress

(* A code address that is stored as a word is read back unchanged.         *)
LEMMA AddrOfToWord == \A a \in Addresses : Addr(ToWord(a)) = a
  <1> TAKE a \in Addresses
  <1>1. a \in Nat /\ a < AddrSpace
    BY Sizes DEF Addresses, kMaxAddress
  <1>2. a % AddrSpace = a
    BY <1>1, Sizes
  <1> QED
    BY <1>1, <1>2, Sizes DEF ToWord, Addr

(* A byte and the word that holds it are in the same page.                 *)
LEMMA WordInPage ==
  \A a \in Addresses : /\ WordOfAddr(a) \in Addresses
                       /\ WordOfAddr(a) % kWordSize = 0
                       /\ PageOfAddr(WordOfAddr(a)) = PageOfAddr(a)
  <1> TAKE a \in Addresses
  <1>1. a \in Nat /\ a < AddrSpace
    BY Sizes DEF Addresses, kMaxAddress
  <1> DEFINE r == a % 4
             m == a % PageSize
             q == a \div PageSize
             k == PageSize \div 4
  <1>2. r \in 0 .. 3 /\ (a - r) % 4 = 0 /\ a - r \in 0 .. a
    BY <1>1
  <1>3. q \in Nat /\ m \in 0 .. PageSize - 1 /\ a = PageSize * q + m
    BY <1>1, Sizes
  <1>4. k \in Nat /\ PageSize = 4 * k
    BY Sizes, MachineAssumption DEF kWordSize
  <1> HIDE DEF q, m, k
  <1>5. k * q \in Nat /\ a = 4 * (k * q) + m
    BY <1>3, <1>4
  <1>6. m >= r
    BY <1>2, <1>3, <1>5
  <1> HIDE DEF r
  <1>7. m - r \in 0 .. PageSize - 1
    BY <1>2, <1>3, <1>6, Sizes
  <1>8. (a - r) = PageSize * q + (m - r)
    BY <1>1, <1>2, <1>3, <1>7, Sizes
  <1>9. (a - r) \div PageSize = q
    BY <1>3, <1>7, <1>8, Sizes
  <1>10. WordOfAddr(a) = a - r
    BY DEF WordOfAddr, kWordSize, r
  <1>11. PageOfAddr(WordOfAddr(a)) = PageOfAddr(a)
    BY <1>1, <1>2, <1>9, <1>10, Sizes DEF PageOfAddr, q
  <1>12. WordOfAddr(a) \in Addresses
    BY <1>1, <1>2, <1>10, Sizes DEF Addresses, kMaxAddress
  <1>13. WordOfAddr(a) % kWordSize = 0
    BY <1>2, <1>10 DEF kWordSize
  <1> QED
    BY <1>11, <1>12, <1>13

(* The chunk of the stack lies in memory, and so does its lowest page.     *)
LEMMA StackChunkType ==
  /\ MemStack.low \in Addresses /\ MemStack.high \in Addresses
  /\ MemStack.low .. MemStack.high \subseteq Addresses
  /\ DefaultStackLow \in Addresses
  <1>1. MemStack.low \in Addresses /\ MemStack.high \in Addresses
    BY StackAssumption
  <1>2. MemStack.low .. MemStack.high \subseteq Addresses
    BY <1>1, Sizes DEF Addresses, kMaxAddress
  <1> QED
    BY <1>1, <1>2, StackAssumption

(* An access always reaches a word that exists: its own, or the one page   *)
(* faults are sent to.                                                     *)
LEMMA PhysicalType == \A a \in Addresses : LogicalToPhysical(a) \in MappedWords
  <1>1. PageOfAddr(DefaultStackLow) \in MappedPages
    BY StackAssumption DEF MappedPages
  <1> QED
    BY <1>1, StackChunkType, WordInPage DEF LogicalToPhysical, PageFault, MappedWords
(* An instruction being executed is one of the instruction set.            *)
LEMMA FetchType ==
  ASSUME TypeOK, Executing
  PROVE  /\ Instruction \in Instructions
         /\ Instruction.reg \in Regs /\ Instruction.reg2 \in Regs
         /\ Instruction.dst \in Regs /\ Instruction.lit \in Words
         /\ ip + 1 \in Addresses
  <1>1. code \in Seq(Instructions) /\ Len(code) < AddrSpace \div 2
    BY ProgramAssumption DEF TypeOK
  <1>2. ip \in Nat /\ ip < Len(code) /\ Len(code) \in Nat
    BY <1>1, Sizes DEF TypeOK, Executing, NextOpCodeIsValid
  <1>3. ip + 1 \in 1 .. Len(code) /\ ip + 1 \in Addresses
    BY <1>1, <1>2, Sizes DEF Addresses, kMaxAddress
  <1>4. Instruction \in Instructions
    BY <1>1, <1>3 DEF Instruction
  <1> QED
    BY <1>3, <1>4 DEF Instructions

(* What a load delivers is a word; a store keeps memory made of words.     *)
LEMMA LoadType ==
  ASSUME TypeOK
  PROVE  \A a \in Addresses : Load(a) \in Words
  BY PhysicalType DEF TypeOK, Load

LEMMA StoreType ==
  ASSUME TypeOK, NEW a \in Addresses, NEW w \in Words
  PROVE  [mem EXCEPT ![LogicalToPhysical(a)] = w] \in [MappedWords -> Words]
  BY DEF TypeOK

LEMMA RaiseType ==
  ASSUME TypeOK
  PROVE  \A es \in Seq(Messages) : errors \o es \in Seq(Messages)
  BY DEF TypeOK

LEMMA ExceptionsType ==
  /\ << >> \in Seq(Messages)
  /\ \A m \in Messages : <<m>> \in Seq(Messages)
  /\ \A a : Exceptions(a) \in Seq(Messages)
  <1>1. << >> \in Seq(Messages) /\ \A m \in Messages : <<m>> \in Seq(Messages)
    OBVIOUS
  <1>2. "Page fault" \in Messages
    BY DEF Messages
  <1> QED
    BY <1>1, <1>2 DEF Exceptions

LEMMA StackAddrType ==
  TypeOK => /\ regs[SP] \in Words /\ regs[SP] \in Int
            /\ StackAddr \in Addresses
  <1> SUFFICES ASSUME TypeOK PROVE regs[SP] \in Words
    BY AddrType, Sizes DEF StackAddr
  <1> QED
    BY Sizes DEF TypeOK

(* Pushing and popping words keep the types.                               *)
LEMMA PushWordType ==
  ASSUME TypeOK, NEW w \in Words, PushWord(w)
  PROVE  /\ regs' \in [Regs -> Words]
         /\ mem' \in [MappedWords -> Words]
         /\ errors' \in Seq(Messages)
  <1>1. CASE StackAddr < StackRegisterLow
    <2>1. errors' \in Seq(Messages)
      BY <1>1, RaiseType, ExceptionsType DEF PushWord, Raise, Messages
    <2> QED
      BY <1>1, <2>1 DEF PushWord, TypeOK
  <1>2. CASE ~(StackAddr < StackRegisterLow)
    <2>1. mem' \in [MappedWords -> Words]
      BY <1>2, StackAddrType, StoreType DEF PushWord, Store
    <2>2. errors' \in Seq(Messages)
      BY <1>2, RaiseType, ExceptionsType DEF PushWord, Raise
    <2>3. ToWord(regs[SP] - kWordSize) \in Words
      <3>1. regs[SP] - kWordSize \in Int
        BY StackAddrType, Sizes DEF kWordSize
      <3> QED
        BY <3>1, ToWordType
    <2>4. regs' \in [Regs -> Words]
      BY <1>2, <2>3 DEF PushWord, TypeOK
    <2> QED
      BY <2>1, <2>2, <2>4
  <1> QED
    BY <1>1, <1>2

LEMMA PopType ==
  ASSUME TypeOK
  PROVE  /\ AfterPop \in [Regs -> Words]
         /\ PoppedWord \in Words
         /\ PopErrors \in Seq(Messages)
  <1>1. ToWord(regs[SP] + kWordSize) \in Words
    <2>1. regs[SP] + kWordSize \in Int
      BY StackAddrType, Sizes DEF kWordSize
    <2> QED
      BY <2>1, ToWordType
  <1>2. PoppedAddr \in Addresses
    BY <1>1, AddrType DEF PoppedAddr
  <1> QED
    BY <1>1, <1>2, LoadType, ExceptionsType, Sizes
       DEF AfterPop, PoppedWord, PopErrors, TypeOK, Messages
(* The result of any arithmetic the host computes is a word.               *)
LEMMA ArithmeticType ==
  ASSUME NEW sub \in ArithSubtypes, NEW x \in Words, NEW y \in Words,
         ~(sub = "DIV" /\ HostTraps(x, y))
  PROVE  Arithmetic(sub, x, y) \in Words
  <1>1. x \in Int /\ y \in Int
    BY Sizes
  <1>2. CASE sub = "DIV"
    <2>1. y # 0
      BY <1>2 DEF HostTraps
    <2>2. Abs(x) \in Nat /\ Abs(y) \in Nat /\ Abs(y) > 0
      BY <1>1, <2>1 DEF Abs
    <2>3. Abs(x) \div Abs(y) \in Int
      BY <2>2
    <2>4. Quotient(x, y) \in Int
      BY <2>3 DEF Quotient
    <2> QED
      BY <1>2, <2>4, ToWordType DEF Arithmetic
  <1>3. CASE sub = "MOV"
    BY <1>3 DEF Arithmetic
  <1>4. CASE sub \in {"ADD", "SUB", "MUL"}
    <2>1. x + y \in Int /\ x - y \in Int /\ x * y \in Int
      BY <1>1
    <2> QED
      BY <1>4, <2>1, ToWordType DEF Arithmetic
  <1> QED
    BY <1>2, <1>3, <1>4 DEF ArithSubtypes

LEMMA ComparisonType ==
  ASSUME NEW sub \in CompSubtypes, NEW x, NEW y
  PROVE  Comparison(sub, x, y) \in Words
  <1>1. \A b : Bool(b) \in Words
    BY Sizes DEF Bool
  <1> QED
    BY <1>1 DEF Comparison, CompSubtypes

LEMMA LogicType ==
  ASSUME NEW sub \in LogicSubtypes, NEW x \in Words, NEW y \in Words
  PROVE  Logic(sub, x, y) \in Words
  BY MachineAssumption DEF Logic, LogicSubtypes

-----------------------------------------------------------------------------
(* Every register and memory word is always a machine word and the         *)
(* instruction pointer a code address, whatever the program.               *)
LEMMA TypeStep == TypeOK /\ [Next]_vars => TypeOK'
  <1> SUFFICES ASSUME TypeOK, [Next]_vars PROVE TypeOK'
    OBVIOUS
  <1> USE DEF TypeOK, Phases
  <1>1. CASE ColdBoot
    <2>1. StackRegisterHigh \in Int
      <3>1. MemStack.high \in Nat
        BY StackChunkType, Sizes
      <3> QED
        BY <3>1 DEF StackRegisterHigh, kWordSize
    <2> QED
      BY <1>1, <2>1, ToWordType DEF ColdBoot
  <1>2. CASE InvalidOpCode
    BY <1>2, RaiseType, ExceptionsType DEF InvalidOpCode, Raise, Messages
  <1>3. CASE Stop \/ LeaveLoop \/ NoVerdict
    BY <1>3 DEF Stop, LeaveLoop, NoVerdict
  <1>4. CASE CompilerTest
    <2>1. kTestBoolAddress \in Addresses
      BY Sizes DEF kTestBoolAddress, kMaxAddress, Addresses, kWordSize
    <2>2. regs' \in [Regs -> Words]
      BY <1>4, <2>1, LoadType DEF CompilerTest
    <2> DEFINE verdict == IF regs'[0] = 0 THEN <<"Compiler injected tests failed">> ELSE << >>
    <2>3. verdict \in Seq(Messages)
      BY ExceptionsType DEF Messages
    <2>4. Exceptions(kTestBoolAddress) \o verdict \in Seq(Messages)
      <3> HIDE DEF verdict
      <3> QED
        BY <2>3, ExceptionsType
    <2>5. errors' \in Seq(Messages)
      BY <1>4, <2>4, RaiseType DEF CompilerTest, Raise
    <2> QED
      BY <1>4, <2>2, <2>5 DEF CompilerTest
  <1>5. CASE StackInstruction
    <2>1. CASE Push
      <3>1. regs[Instruction.reg] \in Words
        BY <2>1, FetchType DEF Push, Fetched
      <3> QED
        BY <2>1, <3>1, FetchType, PushWordType DEF Push, Fetched, NextOpCode
    <2>2. CASE Pop
      BY <2>2, FetchType, PopType, RaiseType DEF Pop, Fetched, NextOpCode, Raise
    <2>3. CASE Call
      <3>1. ToWord(ip + 1) \in Words
        BY ToWordType, Sizes
      <3> QED
        BY <2>3, <3>1, FetchType, PushWordType, AddrType DEF Call, Fetched, ModifyIP
    <2>4. CASE Return
      BY <2>4, PopType, RaiseType, AddrType DEF Return, Fetched, ModifyIP, Raise
    <2> QED
      BY <1>5, <2>1, <2>2, <2>3, <2>4 DEF StackInstruction
  <1>6. CASE JumpInstruction
    BY <1>6, FetchType, AddrType
       DEF JumpInstruction, Jump, JumpC, Fetched, ModifyIP, NextOpCode
  <1>7. CASE DataInstruction
    <2>1. ASSUME Executing
          PROVE  /\ ToWord(Instruction.lit + regs[Instruction.reg2]) \in Words
                 /\ BaseAddr \in Addresses /\ Addr(Instruction.lit) \in Addresses
      <3>1. Instruction.lit \in Int /\ regs[Instruction.reg2] \in Int
        BY <2>1, FetchType, Sizes
      <3> QED
        BY <2>1, <3>1, FetchType, ToWordType, AddrType DEF BaseAddr
    <2>2. CASE LoadI \/ Lea
      BY <2>1, <2>2, FetchType DEF LoadI, Lea, Fetched, SetReg, NextOpCode
    <2>3. ASSUME Executing, NEW a \in Addresses, LoadFrom(a) PROVE TypeOK'
      BY <2>3, FetchType, LoadType, ExceptionsType, RaiseType DEF LoadFrom, SetReg, NextOpCode, Raise
    <2>4. ASSUME Executing, NEW a \in Addresses, StoreTo(a) PROVE TypeOK'
      <3>1. mem' \in [MappedWords -> Words]
        BY <2>4, FetchType, StoreType DEF StoreTo, Store
      <3> QED
        BY <2>4, <3>1, FetchType, ExceptionsType, RaiseType DEF StoreTo, NextOpCode, Raise
    <2> QED
      BY <1>7, <2>1, <2>2, <2>3, <2>4
         DEF DataInstruction, LoadW, LoadB, StoreW, StoreB, Fetched
  <1>8. CASE AluInstruction
    <2>1. ASSUME Executing PROVE Src1 \in Words /\ Src2 \in Words
      BY <2>1, FetchType DEF Src1, Src2
    <2>2. ASSUME NEW op, NEW subtypes, NEW w \in Words, Compute(op, subtypes, w)
          PROVE  TypeOK'
      BY <2>2, FetchType DEF Compute, Fetched, SetReg, NextOpCode
    <2>3. CASE InstTypeArihmetic
      <3>1. Arithmetic(Instruction.sub, Src1, Src2) \in Words
        BY <2>1, <2>3, ArithmeticType DEF InstTypeArihmetic, Compute, Fetched, Divides
      <3> QED
        BY <2>2, <2>3, <3>1 DEF InstTypeArihmetic
    <2>4. CASE InstTypeComparison
      <3>1. Comparison(Instruction.sub, Src1, Src2) \in Words
        BY <2>4, ComparisonType DEF InstTypeComparison, Compute
      <3> QED
        BY <2>2, <2>4, <3>1 DEF InstTypeComparison
    <2>5. CASE InstTypeLogic
      <3>1. Logic(Instruction.sub, Src1, Src2) \in Words
        BY <2>1, <2>5, LogicType DEF InstTypeLogic, Compute, Fetched
      <3> QED
        BY <2>2, <2>5, <3>1 DEF InstTypeLogic
    <2>6. CASE DivTrap \/ ArithI
      BY <2>6, FetchType DEF DivTrap, ArithI, Fetched, NextOpCode
    <2>7. CASE OpNotFound
      BY <2>7, FetchType, ExceptionsType, RaiseType DEF OpNotFound, NextOpCode, Raise, Messages
    <2> QED
      BY <1>8, <2>3, <2>4, <2>5, <2>6, <2>7 DEF AluInstruction
  <1>9. CASE UNCHANGED vars
    BY <1>9 DEF vars
  <1> QED
    BY <1>1, <1>2, <1>3, <1>4, <1>5, <1>6, <1>7, <1>8, <1>9 DEF Next

THEOREM TypeCorrect == Spec => []TypeOK
  <1>1. Init => TypeOK
    <2>1. << >> \in Seq(Messages)
      BY ExceptionsType
    <2> QED
      BY <2>1, Sizes DEF Init, TypeOK, Phases, Addresses, kMaxAddress
  <1> QED
    BY <1>1, TypeStep, PTL DEF Spec
-----------------------------------------------------------------------------
(* The stack of a program that leaves it to the stack instructions.        *)

(* Moving an address kept in a register is addition, as long as the result *)
(* is an address: the wrap-around of the word and that of the address      *)
(* cancel out.                                                             *)
LEMMA AddrMoves ==
  ASSUME NEW w \in Words, NEW d \in Int, Addr(w) + d \in Addresses
  PROVE  Addr(ToWord(w + d)) = Addr(w) + d
  <1> DEFINE M == AddrSpace
             x == Addr(w) + d
  <1>1. w \in Int /\ x \in Int /\ 0 <= x /\ x < M /\ M \in Nat /\ M > 0
    BY Sizes DEF Addresses, kMaxAddress
  <1>2. w + d = x \/ w + d = x - M
    BY <1>1 DEF Addr
  <1>3. (w + d) % M = x
    <2>1. x % M = x
      BY <1>1
    <2>2. (x - M) % M = x
      BY <1>1
    <2> QED
      BY <1>2, <2>1, <2>2
  <1> HIDE DEF M, x
  <1>4. ToWord(w + d) = IF x < AddrSpace \div 2 THEN x ELSE x - AddrSpace
    BY <1>3 DEF ToWord, M
  <1>5. Addr(ToWord(w + d)) = x
    BY <1>1, <1>4, Sizes DEF Addr, M
  <1> QED
    BY <1>5 DEF x

(* The bounds of the stack: word aligned, inside memory, with an address   *)
(* below it.                                                               *)
LEMMA StackBounds ==
  /\ StackRegisterLow \in Nat /\ StackRegisterHigh \in Nat
  /\ StackRegisterLow % 4 = 0 /\ StackRegisterHigh % 4 = 0
  /\ StackRegisterLow >= 4 /\ StackRegisterLow <= StackRegisterHigh
  /\ StackRegisterHigh + 4 <= AddrSpace
  /\ StackRegisterHigh + 3 = MemStack.high /\ StackRegisterLow = MemStack.low
  <1>1. /\ MemStack.low \in Nat /\ MemStack.high \in Nat /\ MemStack.high < AddrSpace
        /\ MemStack.low % 4 = 0 /\ (MemStack.high + 1) % 4 = 0
        /\ 4 <= MemStack.low /\ MemStack.low < MemStack.high
    BY StackChunkType, StackAssumption, Sizes DEF Addresses, kMaxAddress, kWordSize
  <1>2. (MemStack.high + 1) - 4 >= MemStack.low /\ ((MemStack.high + 1) - 4) % 4 = 0
    BY <1>1
  <1> QED
    BY <1>1, <1>2, Sizes DEF StackRegisterLow, StackRegisterHigh, kWordSize

StackInv == TypeOK /\ Disciplined(code) /\ StackBounded

LEMMA DisciplinedFetch ==
  ASSUME TypeOK, Disciplined(code), Executing
  PROVE  LeavesStackAlone(Instruction)
  <1>1. ip + 1 \in 1 .. Len(code)
    <2>1. Len(code) \in Nat
      BY ProgramAssumption DEF TypeOK
    <2> QED
      BY <2>1, Sizes DEF TypeOK, Executing, NextOpCodeIsValid
  <1> QED
    BY <1>1 DEF Disciplined, Instruction

LEMMA OneMore ==
  ASSUME NEW S, NEW s \in Seq(S), NEW e \in S
  PROVE  s \o <<e>> # s /\ s \o <<e>> # << >>
  <1>1. Len(s \o <<e>>) = Len(s) + 1 /\ Len(s) \in Nat /\ Len(<< >>) = 0
    OBVIOUS
  <1> QED
    BY <1>1

LEMMA ConcatEqualEmpty ==
  ASSUME NEW S, NEW s \in Seq(S), NEW t \in Seq(S), s # << >>
  PROVE  s \o t # << >>
  <1>1. Len(s \o t) = Len(s) + Len(t) /\ Len(s) \in Nat /\ Len(t) \in Nat /\ Len(<< >>) = 0
    OBVIOUS
  <1>2. Len(s) # 0
    BY EmptySeq
  <1> QED
    BY <1>1, <1>2

(* What a push does to the stack register of such a program.               *)
LEMMA PushMoves ==
  ASSUME StackInv, phase # "boot", NEW w, PushWord(w)
  PROVE  \/ StackAddr < StackRegisterLow /\ regs' = regs /\ mem' = mem /\ errors' # errors
         \/ /\ StackAddr >= StackRegisterLow
            /\ StackAddr' = StackAddr - 4
            /\ \A r \in Regs \ {SP} : regs'[r] = regs[r]
            /\ mem' = [mem EXCEPT ![LogicalToPhysical(StackAddr)] = w]
            /\ errors' = errors \o Exceptions(StackAddr)
  <1>1. StackAddr \in Nat /\ regs[SP] \in Words /\ regs[SP] \in Int
    BY StackAddrType, Sizes DEF StackInv
  <1>2. CASE StackAddr < StackRegisterLow
    <2>1. errors' = errors \o <<"Stack overflow">> /\ regs' = regs /\ mem' = mem
      BY <1>2 DEF PushWord, Raise
    <2>2. errors \in Seq(Messages) /\ "Stack overflow" \in Messages
      BY DEF StackInv, TypeOK, Messages
    <2> QED
      BY <1>2, <2>1, <2>2, OneMore
  <1>3. CASE StackAddr >= StackRegisterLow
    <2>1. Addr(regs[SP]) + (-4) \in Addresses
      BY <1>1, <1>3, StackAddrType, StackBounds, Sizes
         DEF StackAddr, StackInv, Addresses, kMaxAddress
    <2>2. Addr(ToWord(regs[SP] + (-4))) = StackAddr + (-4)
      BY <1>1, <2>1, AddrMoves DEF StackAddr
    <2>3. regs[SP] - kWordSize = regs[SP] + (-4) /\ StackAddr + (-4) = StackAddr - 4
      BY <1>1 DEF kWordSize
    <2>4. /\ regs' = [regs EXCEPT ![SP] = ToWord(regs[SP] + (-4))]
          /\ mem' = [mem EXCEPT ![LogicalToPhysical(StackAddr)] = w]
          /\ errors' = errors \o Exceptions(StackAddr)
      <3>1. ~(StackAddr < StackRegisterLow)
        BY <1>1, <1>3, StackBounds
      <3>2. /\ regs' = [regs EXCEPT ![SP] = ToWord(regs[SP] - kWordSize)]
            /\ mem' = [mem EXCEPT ![LogicalToPhysical(StackAddr)] = w]
            /\ errors' = errors \o Exceptions(StackAddr)
        BY <3>1 DEF PushWord, Store, Raise
      <3>3. ToWord(regs[SP] - kWordSize) = ToWord(regs[SP] + (-4))
        BY <2>3
      <3> QED
        BY <3>2, <3>3
    <2>5. regs'[SP] = ToWord(regs[SP] + (-4)) /\ \A r \in Regs \ {SP} : regs'[r] = regs[r]
      BY <2>4, Sizes DEF StackInv, TypeOK
    <2>6. StackAddr' = StackAddr - 4
      BY <2>2, <2>3, <2>5 DEF StackAddr
    <2> QED
      BY <1>3, <2>4, <2>5, <2>6
  <1> QED
    BY <1>1, <1>2, <1>3, StackBounds

(* ... and a pop.                                                          *)
LEMMA PopMoves ==
  ASSUME StackInv, phase # "boot"
  PROVE  \/ Underflow
         \/ /\ ~Underflow /\ StackAddr < StackRegisterHigh
            /\ PoppedAddr = StackAddr + 4
            /\ Addr(AfterPop[SP]) = StackAddr + 4
            /\ \A r \in Regs \ {SP} : AfterPop[r] = regs[r]
  <1>1. StackAddr \in Nat /\ regs[SP] \in Words /\ regs[SP] \in Int
    BY StackAddrType, Sizes DEF StackInv
  <1> SUFFICES ASSUME ~Underflow
               PROVE  /\ StackAddr < StackRegisterHigh
                      /\ PoppedAddr = StackAddr + 4
                      /\ Addr(AfterPop[SP]) = StackAddr + 4
                      /\ \A r \in Regs \ {SP} : AfterPop[r] = regs[r]
    OBVIOUS
  <1>2. StackAddr < StackRegisterHigh
    BY <1>1, StackBounds DEF Underflow
  <1>3. Addr(regs[SP]) + 4 \in Addresses
    BY <1>1, <1>2, StackBounds, Sizes DEF StackAddr, Addresses, kMaxAddress
  <1>4. Addr(ToWord(regs[SP] + 4)) = StackAddr + 4
    BY <1>1, <1>3, AddrMoves DEF StackAddr
  <1>5. AfterPop = [regs EXCEPT ![SP] = ToWord(regs[SP] + 4)]
    BY DEF AfterPop, kWordSize
  <1> QED
    BY <1>2, <1>4, <1>5, Sizes DEF PoppedAddr, kWordSize, StackInv, TypeOK
(* Every other step of such a program leaves the stack register alone.     *)
LEMMA OthersKeepStackRegister ==
  ASSUME StackInv,
         InvalidOpCode \/ Stop \/ LeaveLoop \/ NoVerdict \/ CompilerTest
           \/ JumpInstruction \/ DataInstruction \/ AluInstruction \/ UNCHANGED vars
  PROVE  regs'[SP] = regs[SP]
  <1> USE DEF StackInv, TypeOK
  <1>1. CASE InvalidOpCode \/ Stop \/ LeaveLoop \/ NoVerdict \/ UNCHANGED vars
    BY <1>1 DEF InvalidOpCode, Stop, LeaveLoop, NoVerdict, vars
  <1>2. CASE CompilerTest
    BY <1>2, Sizes DEF CompilerTest
  <1>3. CASE JumpInstruction
    BY <1>3 DEF JumpInstruction, Jump, JumpC
  <1>4. CASE DataInstruction
    <2>1. LeavesStackAlone(Instruction) /\ Instruction.reg \in Regs
      BY <1>4, DisciplinedFetch, FetchType
         DEF DataInstruction, LoadI, Lea, LoadW, LoadB, StoreW, StoreB, Fetched
    <2>2. CASE StoreW \/ StoreB
      BY <2>2 DEF StoreW, StoreB, StoreTo
    <2>3. CASE LoadI \/ Lea \/ LoadW \/ LoadB
      BY <2>1, <2>3, Sizes
         DEF LoadI, Lea, LoadW, LoadB, LoadFrom, SetReg, Fetched, LeavesStackAlone
    <2> QED
      BY <1>4, <2>2, <2>3 DEF DataInstruction
  <1>5. CASE AluInstruction
    <2>1. CASE InstTypeArihmetic \/ InstTypeComparison \/ InstTypeLogic
      <3>1. PICK r \in Regs : \E w : r # SP /\ regs' = [regs EXCEPT ![r] = w]
        BY <2>1, DisciplinedFetch, FetchType
           DEF InstTypeArihmetic, InstTypeComparison, InstTypeLogic, Compute, SetReg,
               Fetched, LeavesStackAlone
      <3> QED
        BY <3>1, Sizes
    <2>2. CASE DivTrap \/ ArithI \/ OpNotFound
      BY <2>2 DEF DivTrap, ArithI, OpNotFound
    <2> QED
      BY <1>5, <2>1, <2>2 DEF AluInstruction
  <1> QED
    BY <1>1, <1>2, <1>3, <1>4, <1>5

LEMMA PhaseAndCode ==
  [Next]_vars => /\ code' = code
                 /\ phase = "boot" => (ColdBoot \/ UNCHANGED vars)
                 /\ phase # "boot" => phase' # "boot"
  BY DEF Next, vars, ColdBoot, InvalidOpCode, Stop, LeaveLoop, NoVerdict, CompilerTest,
         StackInstruction, Push, Pop, Call, Return, JumpInstruction, Jump, JumpC,
         DataInstruction, LoadI, Lea, LoadW, LoadB, LoadFrom, StoreW, StoreB, StoreTo,
         AluInstruction, InstTypeArihmetic, InstTypeComparison, InstTypeLogic, Compute,
         DivTrap, ArithI, OpNotFound, Fetched, Executing

LEMMA PopRegister ==
  ASSUME StackInv, phase # "boot", Pop
  PROVE  regs'[SP] = AfterPop[SP]
  <1>1. Instruction.reg \in Regs \ {SP}
    BY DisciplinedFetch, FetchType DEF StackInv, Pop, Fetched, LeavesStackAlone
  <1> QED
    BY <1>1, PopType, Sizes DEF Pop, StackInv

LEMMA StackStep == StackInv /\ [Next]_vars => StackInv'
  <1> SUFFICES ASSUME StackInv, [Next]_vars PROVE StackInv'
    OBVIOUS
  <1>1. TypeOK'
    BY TypeStep DEF StackInv
  <1>2. Disciplined(code)'
    BY PhaseAndCode DEF StackInv, Disciplined
  <1> DEFINE Bounded(x) == x \in StackRegisterLow - 4 .. StackRegisterHigh /\ x % 4 = 0
  <1>3. ASSUME phase' # "boot" PROVE Bounded(StackAddr')
    <2>1. CASE ColdBoot
      <3>1. StackRegisterHigh \in Addresses
        BY StackBounds, Sizes DEF Addresses, kMaxAddress
      <3>2. regs'[SP] = ToWord(StackRegisterHigh)
        BY <2>1, Sizes DEF ColdBoot, StackInv, TypeOK
      <3>3. StackAddr' = StackRegisterHigh
        BY <3>1, <3>2, AddrOfToWord DEF StackAddr
      <3> QED
        BY <3>3, StackBounds
    <2>2. ASSUME phase # "boot" PROVE Bounded(StackAddr')
      <3>1. Bounded(StackAddr)
        BY <2>2 DEF StackInv, StackBounded, kWordSize
      <3>2. StackAddr \in Nat
        BY StackAddrType, Sizes DEF StackInv
      <3>3. ASSUME NEW w, PushWord(w) PROVE Bounded(StackAddr')
        <4>1. \/ StackAddr' = StackAddr
              \/ StackAddr >= StackRegisterLow /\ StackAddr' = StackAddr - 4
          BY <2>2, <3>3, PushMoves DEF StackAddr
        <4> QED
          BY <3>1, <3>2, <4>1, StackBounds
      <3>4. CASE Push \/ Call
        BY <3>3, <3>4 DEF Push, Call
      <3>5. Bounded(Addr(AfterPop[SP]))
        <4>1. CASE Underflow
          BY <3>1, <4>1 DEF AfterPop, StackAddr
        <4>2. CASE ~Underflow
          <5>1. StackAddr < StackRegisterHigh /\ Addr(AfterPop[SP]) = StackAddr + 4
            BY <2>2, <4>2, PopMoves
          <5> QED
            BY <3>1, <3>2, <5>1, StackBounds
        <4> QED
          BY <4>1, <4>2
      <3>6. CASE Pop
        BY <2>2, <3>5, <3>6, PopRegister DEF StackAddr
      <3>7. CASE Return
        BY <3>5, <3>7 DEF Return, StackAddr
      <3>8. CASE ~(ColdBoot \/ StackInstruction)
        BY <3>1, <3>8, OthersKeepStackRegister DEF Next, StackAddr
      <3> QED
        BY <2>1, <3>4, <3>6, <3>7, <3>8 DEF StackInstruction
    <2> QED
      BY <1>3, <2>1, <2>2, PhaseAndCode DEF vars
  <1>4. StackBounded'
    BY <1>3 DEF StackBounded, kWordSize, StackRegisterLow, StackRegisterHigh
  <1> QED
    BY <1>1, <1>2, <1>4 DEF StackInv

LEMMA StackInvariant == DisciplinedSpec => []StackInv
  <1>1. DisciplinedInit => StackInv
    BY Sizes, ExceptionsType
       DEF DisciplinedInit, Init, StackInv, StackBounded, TypeOK, Phases, Addresses, kMaxAddress
  <1> QED
    BY <1>1, StackStep, PTL DEF DisciplinedSpec

(* The stack pointer of a disciplined program never leaves the stack.      *)
THEOREM StackStaysBounded == DisciplinedSpec => []StackBounded
  BY StackInvariant, PTL DEF StackInv
-----------------------------------------------------------------------------
(* The machine of such a program is a stack machine.                       *)

Capacity == (StackRegisterHigh - StackRegisterLow) \div kWordSize + 1
Slot(n)  == StackRegisterHigh - 4 * (n - 1)

LEMMA CapacityType ==
  Capacity \in Nat /\ StackRegisterHigh - 4 * Capacity = StackRegisterLow - 4
  BY StackBounds DEF Capacity, kWordSize

LEMMA SlotMoves ==
  ASSUME NEW m \in Nat, NEW n \in Nat
  PROVE  /\ Slot(m + 1) = Slot(n + 1) - 4 => m = n + 1
         /\ Slot(m + 1) = Slot(n + 1) + 4 => m = n - 1
  BY StackBounds DEF Slot

(* The places of the stack are words of memory, each its own physical one. *)
LEMMA SlotType ==
  ASSUME NEW n \in 1 .. Capacity
  PROVE  /\ Slot(n) \in Nat /\ Slot(n) \in StackChunk
         /\ Slot(n) \in MappedWords
         /\ LogicalToPhysical(Slot(n)) = Slot(n)
  <1>1. /\ Slot(n) \in Nat /\ Slot(n) % 4 = 0
        /\ StackRegisterLow <= Slot(n) /\ Slot(n) <= StackRegisterHigh
    BY CapacityType, StackBounds DEF Slot
  <1>2. MemStack.low \in Nat /\ MemStack.high \in Nat
    BY StackChunkType, Sizes
  <1>3. Slot(n) \in StackChunk
    BY <1>1, <1>2, StackBounds DEF StackChunk
  <1>4. Slot(n) \in Addresses /\ PageOfAddr(Slot(n)) \in MappedPages
    BY <1>3, StackChunkType DEF StackChunk, MappedPages
  <1>5. WordOfAddr(Slot(n)) = Slot(n)
    BY <1>1 DEF WordOfAddr, kWordSize
  <1> QED
    BY <1>1, <1>3, <1>4, <1>5 DEF MappedWords, LogicalToPhysical, PageFault, kWordSize

(* The stack register and the depth of the stack say the same.             *)
LEMMA DepthFacts ==
  ASSUME StackInv, phase # "boot"
  PROVE  /\ StackDepth \in 0 .. Capacity
         /\ StackAddr = Slot(StackDepth + 1)
         /\ StackAddr < StackRegisterLow <=> StackDepth = Capacity
         /\ Underflow <=> StackDepth = 0
  <1> DEFINE x == StackAddr
  <1>1. x \in Nat /\ x \in StackRegisterLow - 4 .. StackRegisterHigh /\ x % 4 = 0
    BY StackAddrType, Sizes DEF StackInv, StackBounded, kWordSize
  <1>2. StackDepth = (StackRegisterHigh - x) \div 4
    BY DEF StackDepth, kWordSize
  <1>3. Underflow <=> x >= StackRegisterHigh
    BY DEF Underflow
  <1> HIDE DEF x
  <1>4. StackDepth \in Nat /\ x = StackRegisterHigh - 4 * StackDepth
    BY <1>1, <1>2, StackBounds
  <1>5. StackDepth \in 0 .. Capacity /\ (StackDepth = Capacity <=> x < StackRegisterLow)
    BY <1>1, <1>4, StackBounds, CapacityType
  <1>6. StackDepth = 0 <=> x >= StackRegisterHigh
    BY <1>1, <1>4, StackBounds
  <1> QED
    BY <1>3, <1>4, <1>5, <1>6, StackBounds DEF Slot, x

LEMMA ContentsType ==
  ASSUME StackInv
  PROVE  /\ StackDepth \in 0 .. Capacity
         /\ StackContents \in Seq(Words)
         /\ Len(StackContents) = StackDepth
         /\ \A n \in 1 .. StackDepth : StackContents[n] = mem[Slot(n)]
         /\ phase = "boot" => StackDepth = 0
  <1>1. StackDepth \in 0 .. Capacity /\ (phase = "boot" => StackDepth = 0)
    BY DepthFacts, CapacityType DEF StackDepth
  <1>2. StackContents = [n \in 1 .. StackDepth |-> mem[Slot(n)]]
    BY DEF StackContents, Slot, kWordSize
  <1>3. \A n \in 1 .. StackDepth : mem[Slot(n)] \in Words
    BY <1>1, SlotType, CapacityType DEF StackInv, TypeOK
  <1> QED
    BY <1>1, <1>2, <1>3, CapacityType

ContentsFacts ==
  /\ StackDepth \in 0 .. Capacity
  /\ StackContents \in Seq(Words)
  /\ Len(StackContents) = StackDepth
  /\ \A n \in 1 .. StackDepth : StackContents[n] = mem[Slot(n)]
  /\ phase = "boot" => StackDepth = 0
  /\ phase # "boot" => StackAddr = Slot(StackDepth + 1)

LEMMA ContentsHold == StackInv => ContentsFacts
  BY ContentsType, DepthFacts DEF ContentsFacts

LEMMA ContentsHoldNext == StackInv' => ContentsFacts'
  BY ContentsHold, PTL

(* Equal depth and equal words at the occupied places: the same stack.     *)
LEMMA SameContents ==
  ASSUME StackInv, StackInv', StackDepth' = StackDepth,
         \A n \in 1 .. StackDepth : mem'[Slot(n)] = mem[Slot(n)]
  PROVE  StackContents' = StackContents
  <1>1. ContentsFacts /\ ContentsFacts'
    BY ContentsHold, ContentsHoldNext
  <1>2. /\ StackContents \in Seq(Words) /\ StackContents' \in Seq(Words)
        /\ Len(StackContents) = Len(StackContents')
        /\ \A n \in 1 .. Len(StackContents) : StackContents'[n] = StackContents[n]
    BY <1>1 DEF ContentsFacts
  <1> QED
    BY <1>2, SeqEqual

(* A step that keeps the stack register and the words of the stack.        *)
LEMMA StackKept ==
  ASSUME StackInv, StackInv', phase # "boot", phase' # "boot", regs'[SP] = regs[SP],
         \A a \in MappedWords \cap StackChunk : mem'[a] = mem[a]
  PROVE  StackContents' = StackContents
  <1>1. StackDepth' = StackDepth
    BY DEF StackDepth, StackAddr, StackRegisterHigh, kWordSize
  <1>2. \A n \in 1 .. StackDepth : mem'[Slot(n)] = mem[Slot(n)]
    BY ContentsHold, SlotType, CapacityType DEF ContentsFacts
  <1> QED
    BY <1>1, <1>2, SameContents

(* The words pushed: one more place holds one more word.                   *)
LEMMA StackGrows ==
  ASSUME StackInv, StackInv', phase # "boot", phase' # "boot",
         StackAddr' = StackAddr - 4, StackDepth < Capacity, NEW w \in Words,
         mem' = [mem EXCEPT ![LogicalToPhysical(StackAddr)] = w]
  PROVE  StackContents' = Append(StackContents, w)
  <1> DEFINE d == StackDepth
  <1>1. ContentsFacts /\ ContentsFacts'
    BY ContentsHold, ContentsHoldNext
  <1>2. d \in Nat /\ d + 1 \in 1 .. Capacity
    BY <1>1, CapacityType DEF ContentsFacts
  <1>3. StackDepth' = d + 1
    <2>1. StackDepth' \in Nat /\ Slot(StackDepth' + 1) = Slot(d + 1) - 4
      BY <1>1, CapacityType DEF ContentsFacts
    <2> QED
      BY <1>2, <2>1, SlotMoves
  <1>4. mem' = [mem EXCEPT ![Slot(d + 1)] = w] /\ Slot(d + 1) \in MappedWords
    BY <1>1, <1>2, SlotType DEF ContentsFacts
  <1>5. mem'[Slot(d + 1)] = w
    BY <1>4 DEF StackInv, TypeOK
  <1>6. \A n \in 1 .. d : mem'[Slot(n)] = mem[Slot(n)]
    <2> TAKE n \in 1 .. d
    <2>1. Slot(n) # Slot(d + 1)
      BY <1>2, StackBounds DEF Slot
    <2>2. Slot(n) \in MappedWords
      <3>1. n \in 1 .. Capacity
        BY <1>2, CapacityType
      <3> QED
        BY <3>1, SlotType
    <2> QED
      BY <1>4, <2>1, <2>2 DEF StackInv, TypeOK
  <1> HIDE DEF d
  <1>7. /\ Append(StackContents, w) \in Seq(Words)
        /\ Len(Append(StackContents, w)) = d + 1
        /\ \A n \in 1 .. d : Append(StackContents, w)[n] = mem[Slot(n)]
        /\ Append(StackContents, w)[d + 1] = w
    BY <1>1, <1>2 DEF ContentsFacts, d
  <1>8. /\ StackContents' \in Seq(Words) /\ Len(StackContents') = d + 1
        /\ \A n \in 1 .. d + 1 : StackContents'[n] = mem'[Slot(n)]
    BY <1>1, <1>3 DEF ContentsFacts
  <1>9. \A n \in 1 .. d + 1 : StackContents'[n] = Append(StackContents, w)[n]
    BY <1>2, <1>5, <1>6, <1>7, <1>8
  <1> QED
    BY <1>7, <1>8, <1>9, SeqEqual

(* The words popped: the last place is given up, its word delivered.       *)
LEMMA StackShrinks ==
  ASSUME StackInv, StackInv', phase # "boot", phase' # "boot", ~Underflow,
         StackAddr' = StackAddr + 4, mem' = mem
  PROVE  /\ StackContents # << >>
         /\ StackContents' = SubSeq(StackContents, 1, Len(StackContents) - 1)
         /\ PoppedWord = StackContents[Len(StackContents)]
         /\ PopErrors = << >>
  <1> DEFINE d == StackDepth
  <1>1. ContentsFacts /\ ContentsFacts'
    BY ContentsHold, ContentsHoldNext
  <1>2. d \in 1 .. Capacity
    BY <1>1, DepthFacts, CapacityType DEF ContentsFacts
  <1>3. StackDepth' = d - 1
    <2>1. StackDepth' \in Nat /\ Slot(StackDepth' + 1) = Slot(d + 1) + 4
      BY <1>1, CapacityType DEF ContentsFacts
    <2>2. d \in Nat
      BY <1>2, CapacityType
    <2> HIDE DEF d
    <2> QED
      BY <2>1, <2>2, SlotMoves
  <1>4. PoppedAddr = Slot(d)
    <2>1. PoppedAddr = Slot(d + 1) + 4
      BY <1>1, PopMoves DEF ContentsFacts
    <2> QED
      BY <1>2, <2>1, StackBounds, CapacityType DEF Slot
  <1>5. PoppedWord = mem[Slot(d)] /\ PopErrors = << >>
    <2>1. LogicalToPhysical(Slot(d)) = Slot(d) /\ PageOfAddr(Slot(d)) \in MappedPages
      BY <1>2, SlotType DEF MappedWords
    <2> QED
      BY <1>4, <2>1 DEF PoppedWord, PopErrors, Load, Exceptions, PageFault
  <1> HIDE DEF d
  <1>6. /\ StackContents \in Seq(Words) /\ Len(StackContents) = d
        /\ \A n \in 1 .. d : StackContents[n] = mem[Slot(n)]
    BY <1>1 DEF ContentsFacts, d
  <1>7. /\ StackContents' \in Seq(Words) /\ Len(StackContents') = d - 1
        /\ \A n \in 1 .. d - 1 : StackContents'[n] = mem[Slot(n)]
    BY <1>1, <1>3 DEF ContentsFacts
  <1>8. /\ SubSeq(StackContents, 1, d - 1) \in Seq(Words)
        /\ Len(SubSeq(StackContents, 1, d - 1)) = d - 1
        /\ \A n \in 1 .. d - 1 : SubSeq(StackContents, 1, d - 1)[n] = mem[Slot(n)]
    BY <1>2, <1>6, CapacityType
  <1>9. StackContents' = SubSeq(StackContents, 1, d - 1)
    BY <1>7, <1>8, SeqEqual
  <1>10. StackContents # << >>
    BY <1>2, <1>6, CapacityType
  <1> QED
    BY <1>2, <1>5, <1>6, <1>9, <1>10
-----------------------------------------------------------------------------
(* The steps of the abstract machine.                                      *)

Bank == [r \in Regs \ {SP} |-> regs[r]]

(* A step that raises no exception leaves the machine running.             *)
LEMMA StillRunning ==
  ASSUME TypeOK, Executing
  PROVE  /\ errors = << >> /\ ~HasErrors
         /\ \A es \in Seq(Messages) : errors \o es = es
         /\ phase = "run"
  BY DEF Executing, HasErrors

(* Two steps with the same registers below the stack register.             *)
LEMMA BankKept ==
  ASSUME \A r \in Regs \ {SP} : regs'[r] = regs[r]
  PROVE  Bank' = Bank
  BY DEF Bank, Regs, SP

(* A push with room for the word is the abstract push (or call).           *)
LEMMA PushRefines ==
  ASSUME StackInv, StackInv', Executing, phase' # "boot", NEW w \in Words, PushWord(w)
  PROVE  \/ /\ StackDepth < Capacity
            /\ StackContents' = Append(StackContents, w)
            /\ Bank' = Bank
            /\ ~HasErrors'
         \/ /\ StackDepth = Capacity
            /\ StackContents' = StackContents
            /\ Bank' = Bank
            /\ HasErrors'
  <1>1. phase # "boot" /\ errors = << >>
    BY StillRunning DEF StackInv
  <1>2. /\ StackDepth \in 0 .. Capacity
        /\ StackAddr < StackRegisterLow <=> StackDepth = Capacity
        /\ StackAddr = Slot(StackDepth + 1)
        /\ StackAddr \in Nat
    BY <1>1, DepthFacts, StackAddrType, Sizes DEF StackInv
  <1>3. CASE StackAddr < StackRegisterLow
    <2>1. regs' = regs /\ mem' = mem /\ errors' # errors
      BY <1>1, <1>2, <1>3, PushMoves, StackBounds
    <2>2. StackContents' = StackContents
      BY <1>1, <2>1, StackKept
    <2> QED
      BY <1>1, <1>2, <1>3, <2>1, <2>2, BankKept DEF HasErrors
  <1>4. CASE ~(StackAddr < StackRegisterLow)
    <2>1. /\ StackAddr' = StackAddr - 4
          /\ \A r \in Regs \ {SP} : regs'[r] = regs[r]
          /\ mem' = [mem EXCEPT ![LogicalToPhysical(StackAddr)] = w]
          /\ errors' = errors \o Exceptions(StackAddr)
      BY <1>1, <1>4, PushMoves
    <2>2. StackDepth < Capacity /\ StackDepth + 1 \in 1 .. Capacity
      BY <1>2, <1>4, CapacityType
    <2>3. StackContents' = Append(StackContents, w)
      BY <1>1, <2>1, <2>2, StackGrows
    <2>4. Exceptions(StackAddr) = << >>
      BY <1>2, <2>2, SlotType DEF Exceptions, PageFault, MappedWords
    <2>5. errors' = << >>
      BY <1>1, <2>1, <2>4
    <2> QED
      BY <2>1, <2>2, <2>3, <2>5, BankKept DEF HasErrors
  <1> QED
    BY <1>3, <1>4

(* A step of any other instruction leaves the occupied places alone.       *)
LEMMA OthersKeepStack ==
  ASSUME StackInv, StackInv', phase # "boot", phase' # "boot",
         InvalidOpCode \/ Stop \/ LeaveLoop \/ NoVerdict \/ CompilerTest
           \/ JumpInstruction \/ DataInstruction \/ AluInstruction
  PROVE  StackContents' = StackContents
  <1>1. regs'[SP] = regs[SP]
    BY OthersKeepStackRegister
  <1>2. \A a \in MappedWords \cap StackChunk : mem'[a] = mem[a]
    <2>1. CASE ~DataInstruction
      <3>1. mem' = mem
        BY <2>1 DEF InvalidOpCode, Stop, LeaveLoop, NoVerdict, CompilerTest, JumpInstruction,
             Jump, JumpC, AluInstruction, InstTypeArihmetic, InstTypeComparison,
             InstTypeLogic, Compute, DivTrap, ArithI, OpNotFound
      <3> QED
        BY <3>1
    <2>2. CASE LoadI \/ Lea \/ LoadW \/ LoadB
      BY <2>2 DEF LoadI, Lea, LoadW, LoadB, LoadFrom
    <2>3. CASE StoreB
      <3>1. Instruction.op # "STOREB"
        BY <2>3, DisciplinedFetch DEF StoreB, Fetched, StackInv, LeavesStackAlone
      <3> QED
        BY <2>3, <3>1 DEF StoreB, Fetched
    <2>4. CASE StoreW
      <3> DEFINE p == LogicalToPhysical(Addr(Instruction.lit))
      <3>1. p \notin StackChunk
        BY <2>4, DisciplinedFetch
           DEF StoreW, Fetched, StackInv, LeavesStackAlone, LogicalToPhysical
      <3>2. mem' = [mem EXCEPT ![p] = regs[Instruction.reg]]
        BY <2>4 DEF StoreW, StoreTo, Store
      <3> HIDE DEF p
      <3> QED
        BY <3>1, <3>2 DEF StackInv, TypeOK
    <2> QED
      BY <2>1, <2>2, <2>3, <2>4 DEF DataInstruction
  <1> QED
    BY <1>1, <1>2, StackKept
LEMMA BankType == TypeOK => Bank \in [Regs \ {SP} -> Words]
  BY DEF TypeOK, Bank

LEMMA BankTypeNext == TypeOK' => Bank' \in [Regs \ {SP} -> Words]
  BY DEF TypeOK, Bank, SP, Regs

LEMMA RefineInit == Init => SM!Init
  <1> SUFFICES ASSUME Init PROVE SM!Init
    OBVIOUS
  <1>1. StackDepth = 0
    BY DEF Init, StackDepth
  <1>2. StackContents = << >>
    BY <1>1 DEF StackContents
  <1>3. Bank \in [Regs \ {SP} -> Words]
    BY Sizes DEF Init, Bank
  <1> QED
    BY <1>2, <1>3 DEF SM!Init, Init, HasErrors, Bank

(* A step in which no instruction executes: the loop is entered or left,   *)
(* or the verdict is read.                                                 *)
LEMMA WindDownRefines ==
  ASSUME StackInv, StackInv',
         ColdBoot \/ InvalidOpCode \/ LeaveLoop \/ NoVerdict \/ CompilerTest
  PROVE  SM!WindDown
  <1>1. StackUse = "nothing"
    BY DEF StackUse, Executing, HasErrors, ColdBoot, InvalidOpCode, LeaveLoop, NoVerdict,
           CompilerTest
  <1>2. ip' = ip
    BY DEF ColdBoot, InvalidOpCode, LeaveLoop, NoVerdict, CompilerTest
  <1>3. StackContents' = StackContents
    <2>1. CASE ColdBoot
      <3>1. phase = "boot" /\ StackInv'
        BY <2>1 DEF ColdBoot
      <3>2. regs'[SP] = ToWord(StackRegisterHigh)
        BY <2>1, Sizes DEF ColdBoot, StackInv, TypeOK
      <3>3. StackRegisterHigh \in Addresses
        BY StackBounds, Sizes DEF Addresses, kMaxAddress
      <3>4. StackAddr' = StackRegisterHigh
        BY <3>2, <3>3, AddrOfToWord DEF StackAddr
      <3>5. StackDepth' = 0 /\ StackDepth = 0
        BY <2>1, <3>4, StackBounds DEF ColdBoot, StackDepth, StackRegisterHigh, kWordSize
      <3> QED
        BY <3>5, SameContents
    <2>2. CASE InvalidOpCode \/ LeaveLoop \/ NoVerdict \/ CompilerTest
      BY <2>2, OthersKeepStack DEF InvalidOpCode, LeaveLoop, NoVerdict, CompilerTest
    <2> QED
      BY <2>1, <2>2
  <1>4. \E w \in Words : Bank' \in {Bank, [Bank EXCEPT ![0] = w]}
    <2>1. CASE CompilerTest
      <3>1. PICK w \in Words : regs' = [regs EXCEPT ![0] = w]
        <4>1. kTestBoolAddress \in Addresses
          BY Sizes DEF kTestBoolAddress, kMaxAddress, Addresses, kWordSize
        <4> QED
          BY <2>1, <4>1, LoadType DEF CompilerTest, StackInv
      <3>2. Bank' = [Bank EXCEPT ![0] = w]
        BY <3>1, Sizes DEF Bank, StackInv, TypeOK, SP, Regs
      <3> QED
        BY <3>2
    <2>2. CASE ColdBoot \/ InvalidOpCode \/ LeaveLoop \/ NoVerdict
      <3>1. \A r \in Regs \ {SP} : regs'[r] = regs[r]
        BY <2>2, Sizes DEF ColdBoot, InvalidOpCode, LeaveLoop, NoVerdict, StackInv, TypeOK
      <3> QED
        BY <3>1, BankKept, Sizes
    <2> QED
      BY <2>1, <2>2
  <1>5. HasErrors' \in {HasErrors, TRUE}
    <2>1. CASE CompilerTest \/ InvalidOpCode
      <3>1. PICK es : errors' = errors \o es /\ es \in Seq(Messages)
        <4> DEFINE verdict == IF regs'[0] = 0 THEN <<"Compiler injected tests failed">> ELSE << >>
        <4>1. verdict \in Seq(Messages)
          BY ExceptionsType DEF Messages
        <4>2. Exceptions(kTestBoolAddress) \o verdict \in Seq(Messages)
          <5> HIDE DEF verdict
          <5> QED
            BY <4>1, ExceptionsType
        <4>3. CASE CompilerTest
          BY <4>2, <4>3 DEF CompilerTest, Raise
        <4>4. CASE InvalidOpCode
          BY <4>4, ExceptionsType DEF InvalidOpCode, Raise, Messages
        <4> QED
          BY <2>1, <4>3, <4>4
      <3>2. errors # << >> => errors' # << >>
        BY <3>1, ConcatEqualEmpty DEF StackInv, TypeOK
      <3> QED
        BY <3>2 DEF HasErrors
    <2>2. CASE ColdBoot \/ LeaveLoop \/ NoVerdict
      BY <2>2 DEF ColdBoot, LeaveLoop, NoVerdict, HasErrors
    <2> QED
      BY <2>1, <2>2
  <1> QED
    BY <1>1, <1>2, <1>3, <1>4, <1>5 DEF SM!WindDown, Bank
LEMMA PushStepRefines ==
  ASSUME StackInv, StackInv', Push
  PROVE  SM!Next
  <1> DEFINE r == Instruction.reg
  <1>1. Executing /\ phase' # "boot" /\ ip' = ip + 1 /\ PushWord(regs[r])
    BY StillRunning DEF StackInv, Push, Fetched, NextOpCode
  <1>2. r \in Regs \ {SP} /\ ip + 1 \in Addresses
    BY <1>1, FetchType, DisciplinedFetch DEF StackInv, Push, Fetched, LeavesStackAlone
  <1>3. regs[r] \in Words /\ Bank[r] = regs[r]
    BY <1>2 DEF StackInv, TypeOK, Bank
  <1>4. StackUse = "push" /\ ~HasErrors /\ Len(StackContents) = StackDepth
    BY <1>1, StillRunning, ContentsHold DEF StackUse, Push, Fetched, StackInv, ContentsFacts
  <1>5. CASE StackDepth < Capacity
    <2>1. /\ StackContents' = Append(StackContents, Bank[r]) /\ Bank' = Bank /\ ~HasErrors'
      BY <1>1, <1>3, <1>5, PushRefines, CapacityType
    <2>2. SM!Push(r)
      BY <1>1, <1>4, <1>5, <2>1 DEF SM!Push, SM!HasRoom, Capacity, Bank, HasErrors
    <2> QED
      BY <1>2, <2>2 DEF SM!Next
  <1>6. CASE ~(StackDepth < Capacity)
    <2>1. StackContents' = StackContents /\ HasErrors'
      BY <1>1, <1>3, <1>6, PushRefines
    <2>2. Bank' \in [Regs \ {SP} -> Words]
      BY BankTypeNext DEF StackInv
    <2>3. SM!Refuse
      BY <1>1, <1>2, <1>4, <1>6, <2>1, <2>2 DEF SM!Refuse, SM!HasRoom, Capacity, Bank
    <2> QED
      BY <2>3 DEF SM!Next
  <1> QED
    BY <1>5, <1>6

LEMMA CallStepRefines ==
  ASSUME StackInv, StackInv', Call
  PROVE  SM!Next
  <1> DEFINE t == Addr(Instruction.lit)
             w == ToWord(ip + 1)
  <1>1. Executing /\ phase' # "boot" /\ ip' = t /\ PushWord(w)
    BY StillRunning DEF StackInv, Call, Fetched, ModifyIP
  <1>2. t \in Addresses
    BY <1>1, FetchType, AddrType DEF StackInv
  <1>3. w \in Words
    <2>1. ip + 1 \in Int
      BY Sizes DEF StackInv, TypeOK
    <2> QED
      BY <2>1, ToWordType
  <1>4. StackUse = "call" /\ ~HasErrors /\ Len(StackContents) = StackDepth
    BY <1>1, StillRunning, ContentsHold DEF StackUse, Call, Fetched, StackInv, ContentsFacts
  <1>5. CASE StackDepth < Capacity
    <2>1. StackContents' = Append(StackContents, w) /\ Bank' = Bank /\ ~HasErrors'
      BY <1>1, <1>3, <1>5, PushRefines, CapacityType
    <2>2. SM!Call(t)
      BY <1>1, <1>4, <1>5, <2>1 DEF SM!Call, SM!HasRoom, Capacity, Bank, HasErrors
    <2> QED
      BY <1>2, <2>2 DEF SM!Next
  <1>6. CASE ~(StackDepth < Capacity)
    <2>1. StackContents' = StackContents /\ HasErrors'
      BY <1>1, <1>3, <1>6, PushRefines
    <2>2. Bank' \in [Regs \ {SP} -> Words]
      BY BankTypeNext DEF StackInv
    <2>3. SM!Refuse
      BY <1>1, <1>2, <1>4, <1>6, <2>1, <2>2 DEF SM!Refuse, SM!HasRoom, Capacity, Bank
    <2> QED
      BY <2>3 DEF SM!Next
  <1> QED
    BY <1>5, <1>6
(* A pop or a return of a stack that is not empty, and of one that is.     *)
LEMMA PopEffect ==
  ASSUME StackInv, StackInv', Executing, phase' # "boot",
         regs'[SP] = AfterPop[SP], mem' = mem, Raise(PopErrors)
  PROVE  \/ /\ StackContents # << >>
            /\ StackContents' = SubSeq(StackContents, 1, Len(StackContents) - 1)
            /\ PoppedWord = StackContents[Len(StackContents)]
            /\ ~HasErrors'
         \/ /\ StackContents = << >>
            /\ StackContents' = StackContents
            /\ HasErrors'
  <1>1. phase # "boot" /\ errors = << >>
    BY StillRunning DEF StackInv
  <1>2. CASE Underflow
    <2>1. StackContents = << >>
      BY <1>1, <1>2, DepthFacts, ContentsHold, EmptySeq DEF ContentsFacts
    <2>2. regs'[SP] = regs[SP]
      BY <1>2 DEF AfterPop
    <2>3. StackContents' = StackContents
      BY <1>1, <2>2, StackKept
    <2>4. HasErrors'
      <3>1. errors' = errors \o <<"Stack underflow">>
        BY <1>2 DEF Raise, PopErrors
      <3>2. "Stack underflow" \in Messages /\ errors \in Seq(Messages)
        BY DEF Messages, StackInv, TypeOK
      <3> QED
        BY <3>1, <3>2, OneMore DEF HasErrors
    <2> QED
      BY <2>1, <2>3, <2>4
  <1>3. CASE ~Underflow
    <2>1. StackAddr' = StackAddr + 4
      BY <1>1, <1>3, PopMoves DEF StackAddr
    <2>2. /\ StackContents # << >>
          /\ StackContents' = SubSeq(StackContents, 1, Len(StackContents) - 1)
          /\ PoppedWord = StackContents[Len(StackContents)]
          /\ PopErrors = << >>
      BY <1>1, <1>3, <2>1, StackShrinks
    <2>3. errors' = << >>
      BY <1>1, <2>2 DEF Raise
    <2> QED
      BY <2>2, <2>3 DEF HasErrors
  <1> QED
    BY <1>2, <1>3

LEMMA PopStepRefines ==
  ASSUME StackInv, StackInv', Pop
  PROVE  SM!Next
  <1>0. PICK r \in Regs \ {SP} : r = Instruction.reg
    BY FetchType, DisciplinedFetch DEF StackInv, Pop, Fetched, LeavesStackAlone
  <1>1. Executing /\ phase # "boot" /\ phase' # "boot" /\ ip' = ip + 1 /\ mem' = mem
        /\ Raise(PopErrors) /\ regs' = [AfterPop EXCEPT ![r] = PoppedWord]
    BY <1>0, StillRunning DEF StackInv, Pop, Fetched, NextOpCode
  <1>2. ip + 1 \in Addresses
    BY <1>1, FetchType DEF StackInv
  <1>3. StackUse = "pop" /\ ~HasErrors
    BY <1>1, StillRunning DEF StackUse, Pop, Fetched, StackInv
  <1>4. regs'[SP] = AfterPop[SP]
    BY <1>1, PopRegister
  <1>5. Bank' = [Bank EXCEPT ![r] = PoppedWord]
    <2>1. AfterPop \in [Regs -> Words] /\ \A x \in Regs \ {SP} : AfterPop[x] = regs[x]
      BY PopType, Sizes DEF StackInv, AfterPop, TypeOK
    <2>2. \A x \in Regs \ {SP} : regs'[x] = IF x = r THEN PoppedWord ELSE regs[x]
      BY <1>1, <2>1
    <2>3. Bank' = [x \in Regs \ {SP} |-> IF x = r THEN PoppedWord ELSE regs[x]]
      BY <2>2 DEF Bank, SP, Regs
    <2> QED
      BY <1>2, <2>3 DEF Bank
  <1>6. CASE StackContents # << >>
    <2>1. SM!Pop(r)
      BY <1>1, <1>3, <1>4, <1>5, <1>6, PopEffect
         DEF SM!Pop, SM!AllButTop, SM!Top, Bank, HasErrors
    <2> QED
      BY <2>1 DEF SM!Next
  <1>7. CASE StackContents = << >>
    <2>1. StackContents' = StackContents /\ HasErrors'
      BY <1>1, <1>4, <1>7, PopEffect
    <2>2. Bank' \in [Regs \ {SP} -> Words]
      BY BankTypeNext DEF StackInv
    <2>3. SM!Refuse
      BY <1>1, <1>2, <1>3, <1>7, <2>1, <2>2 DEF SM!Refuse, Bank
    <2> QED
      BY <2>3 DEF SM!Next
  <1> QED
    BY <1>6, <1>7

LEMMA ReturnStepRefines ==
  ASSUME StackInv, StackInv', Return
  PROVE  SM!Next
  <1>1. Executing /\ phase # "boot" /\ phase' # "boot" /\ ip' = Addr(PoppedWord)
        /\ mem' = mem /\ Raise(PopErrors) /\ regs' = AfterPop
    BY StillRunning DEF StackInv, Return, Fetched, ModifyIP
  <1>2. Addr(PoppedWord) \in Addresses
    BY PopType, AddrType DEF StackInv
  <1>3. StackUse = "return" /\ ~HasErrors
    BY <1>1, StillRunning DEF StackUse, Return, Fetched, StackInv
  <1>4. Bank' = Bank
    <2>1. \A x \in Regs \ {SP} : AfterPop[x] = regs[x]
      BY Sizes DEF StackInv, AfterPop, TypeOK
    <2> QED
      BY <1>1, <2>1, BankKept
  <1>5. CASE StackContents # << >>
    <2>1. SM!Return
      BY <1>1, <1>3, <1>4, <1>5, PopEffect
         DEF SM!Return, SM!AllButTop, SM!Top, Bank, HasErrors
    <2> QED
      BY <2>1 DEF SM!Next
  <1>6. CASE StackContents = << >>
    <2>1. StackContents' = StackContents /\ HasErrors'
      BY <1>1, <1>6, PopEffect
    <2>2. Bank' \in [Regs \ {SP} -> Words]
      BY BankTypeNext DEF StackInv
    <2>3. SM!Refuse
      BY <1>1, <1>2, <1>3, <1>6, <2>1, <2>2 DEF SM!Refuse, Bank
    <2> QED
      BY <2>3 DEF SM!Next
  <1> QED
    BY <1>5, <1>6

LEMMA OtherStepRefines ==
  ASSUME StackInv, StackInv', Stop \/ JumpInstruction \/ DataInstruction \/ AluInstruction
  PROVE  SM!Compute
  <1>1. /\ Executing /\ phase # "boot" /\ phase' # "boot"
        /\ Instruction.op \notin {"PUSH", "POP", "CALL", "RET"}
    BY StillRunning
       DEF Stop, JumpInstruction, DataInstruction, AluInstruction, Jump, JumpC, LoadI, Lea,
           LoadW, LoadB, LoadFrom, StoreW, StoreB, StoreTo, InstTypeArihmetic,
           InstTypeComparison, InstTypeLogic, Compute, DivTrap, ArithI, OpNotFound, Fetched,
           Divides, StackInv
  <1>2. StackUse = "other" /\ ~HasErrors
    BY <1>1, StillRunning DEF StackUse, StackInv
  <1>3. StackContents' = StackContents
    BY <1>1, OthersKeepStack
  <1>4. Bank' \in [Regs \ {SP} -> Words] /\ ip' \in Addresses
    BY BankTypeNext DEF StackInv, TypeOK
  <1>5. HasErrors' \in BOOLEAN
    BY DEF HasErrors
  <1> QED
    BY <1>2, <1>3, <1>4, <1>5 DEF SM!Compute, Bank

LEMMA RefineStep == StackInv /\ StackInv' /\ [Next]_vars => [SM!Next]_(SM!svars)
  <1> SUFFICES ASSUME StackInv, StackInv', [Next]_vars
               PROVE  SM!Next \/ UNCHANGED SM!svars
    OBVIOUS
  <1>1. CASE ColdBoot \/ InvalidOpCode \/ LeaveLoop \/ NoVerdict \/ CompilerTest
    BY <1>1, WindDownRefines DEF SM!Next
  <1>2. CASE StackInstruction
    BY <1>2, PushStepRefines, PopStepRefines, CallStepRefines, ReturnStepRefines
       DEF StackInstruction
  <1>3. CASE Stop \/ JumpInstruction \/ DataInstruction \/ AluInstruction
    BY <1>3, OtherStepRefines DEF SM!Next
  <1>4. CASE UNCHANGED vars
    BY <1>4 DEF vars, SM!svars, StackContents, StackDepth, StackAddr, StackUse, Executing,
                HasErrors, NextOpCodeIsValid, Instruction, StackRegisterHigh
  <1> QED
    BY <1>1, <1>2, <1>3, <1>4 DEF Next

(* For every disciplined program the machine implements the abstract       *)
(* stack machine: each of its steps is a step of that machine or none.     *)
THEOREM ImplementsStackMachine == DisciplinedSpec => IsStackMachine
  <1>1. DisciplinedSpec => SM!Init
    BY RefineInit DEF DisciplinedSpec, DisciplinedInit
  <1>2. [][Next]_vars /\ []StackInv => [][SM!Next]_(SM!svars)
    BY RefineStep, PTL
  <1> QED
    BY <1>1, <1>2, StackInvariant, PTL DEF DisciplinedSpec, IsStackMachine, SM!Spec

-----------------------------------------------------------------------------
(* What exceptions do to the machine: they spare its memory, and a run      *)
(* without one has passed its test.                                         *)

(* Nothing is logged before the machine has booted.                        *)
BootIsClean == phase = "boot" => ~HasErrors

(* The loop is left, without an exception, by a STOP only; the stream and  *)
(* the instruction pointer stay as they were then, and so does the word of *)
(* the verdict.                                                            *)
CleanlyStopped ==
  ~HasErrors =>
    /\ phase \in {"test", "end"} => NextOpCodeIsValid /\ Instruction.op = "STOP"
    /\ phase = "end" /\ CompilerTested => Load(kTestBoolAddress) # 0

RunInv == TypeOK /\ BootIsClean /\ CleanlyStopped

(* A concatenation is empty only if both parts are.                        *)
LEMMA EmptyConcat ==
  ASSUME NEW S, NEW s \in Seq(S), NEW t \in Seq(S), s \o t = << >>
  PROVE  s = << >> /\ t = << >>
  <1>1. Len(s \o t) = Len(s) + Len(t) /\ Len(s) \in Nat /\ Len(t) \in Nat /\ Len(<< >>) = 0
    OBVIOUS
  <1>2. Len(s) = 0 /\ Len(t) = 0
    BY <1>1
  <1> QED
    BY <1>2, EmptySeq

(* An instruction leaves the loop running, or traps.                       *)
LEMMA InstructionsStayInTheLoop ==
  ASSUME StackInstruction \/ JumpInstruction \/ DataInstruction \/ AluInstruction
  PROVE  phase' \in {"run", "trapped"} /\ Executing
  BY DEF StackInstruction, Push, Pop, Call, Return, JumpInstruction, Jump, JumpC,
         DataInstruction, LoadI, Lea, LoadW, LoadB, StoreW, StoreB, LoadFrom, StoreTo,
         AluInstruction, InstTypeArihmetic, InstTypeComparison, InstTypeLogic, Compute,
         DivTrap, ArithI, OpNotFound, Fetched, Executing

LEMMA RunStep == RunInv /\ [Next]_vars => RunInv'
  <1> SUFFICES ASSUME RunInv, [Next]_vars PROVE RunInv'
    OBVIOUS
  <1>t. TypeOK'
    BY TypeStep DEF RunInv
  <1>1. CASE ColdBoot
    BY <1>t, <1>1 DEF RunInv, BootIsClean, CleanlyStopped, ColdBoot
  <1>2. CASE InvalidOpCode
    <2>1. errors' # <<>>
      <3>1. /\ errors' = errors \o <<"Next opcode invalid">> /\ errors = << >>
            /\ errors \in Seq(Messages) /\ <<"Next opcode invalid">> \in Seq(Messages)
        <4>1. "Next opcode invalid" \in Messages
          BY DEF Messages
        <4>2. <<"Next opcode invalid">> \in Seq(Messages)
          BY <4>1, ExceptionsType
        <4> QED
          BY <1>2, <4>2 DEF InvalidOpCode, Raise, HasErrors, RunInv, TypeOK
      <3>2. <<"Next opcode invalid">> # << >>
        OBVIOUS
      <3> QED
        BY <3>1, <3>2, EmptyConcat
    <2> QED
      BY <1>t, <1>2, <2>1 DEF RunInv, BootIsClean, CleanlyStopped, InvalidOpCode, HasErrors
  <1>3. CASE Stop
    BY <1>t, <1>3 DEF RunInv, BootIsClean, CleanlyStopped, Stop, Fetched, Executing,
                      HasErrors, NextOpCodeIsValid, Instruction
  <1>4. CASE LeaveLoop
    BY <1>t, <1>4 DEF RunInv, BootIsClean, CleanlyStopped, LeaveLoop, HasErrors
  <1>5. CASE NoVerdict
    BY <1>t, <1>5 DEF RunInv, BootIsClean, CleanlyStopped, NoVerdict, HasErrors,
                      NextOpCodeIsValid, Instruction
  <1>6. CASE CompilerTest
    <2> DEFINE e == Exceptions(kTestBoolAddress)
               verdict == IF regs'[0] = 0 THEN <<"Compiler injected tests failed">> ELSE <<>>
    <2>1. e \in Seq(Messages) /\ verdict \in Seq(Messages) /\ errors \in Seq(Messages)
      BY ExceptionsType DEF Messages, RunInv, TypeOK
    <2>2. errors' = errors \o (e \o verdict)
      BY <1>6 DEF CompilerTest, Raise
    <2>3. ASSUME errors' = <<>> PROVE errors = <<>> /\ verdict = <<>>
      <3> HIDE DEF e, verdict
      <3>1. e \o verdict \in Seq(Messages)
        BY <2>1
      <3>2. errors = <<>> /\ e \o verdict = <<>>
        BY <2>1, <2>2, <2>3, <3>1, EmptyConcat
      <3> QED
        BY <2>1, <3>2, EmptyConcat
    <2>4. ASSUME errors' = <<>> PROVE Load(kTestBoolAddress) # 0
      <3>0. 0 \in Regs
        BY MachineAssumption DEF Regs
      <3>1. regs' = [regs EXCEPT ![0] = Load(kTestBoolAddress)] /\ 0 \in DOMAIN regs
        BY <3>0, <1>6 DEF CompilerTest, RunInv, TypeOK
      <3>2. regs'[0] = Load(kTestBoolAddress)
        BY <3>1
      <3>3. regs'[0] # 0
        BY <2>3, <2>4
      <3> QED
        BY <3>2, <3>3
    <2>5. Load(kTestBoolAddress)' = Load(kTestBoolAddress)
      BY <1>6 DEF CompilerTest, Load
    <2>6. NextOpCodeIsValid' = NextOpCodeIsValid /\ Instruction' = Instruction
      BY <1>6 DEF CompilerTest, NextOpCodeIsValid, Instruction
    <2>7. phase = "test" /\ phase' = "end"
      BY <1>6 DEF CompilerTest
    <2> HIDE DEF verdict, e
    <2>8. CleanlyStopped'
      BY <2>3, <2>4, <2>5, <2>6, <2>7 DEF RunInv, CleanlyStopped, HasErrors
    <2> QED
      BY <1>t, <2>7, <2>8 DEF RunInv, BootIsClean
  <1>7. CASE StackInstruction \/ JumpInstruction \/ DataInstruction \/ AluInstruction
    BY <1>t, <1>7, InstructionsStayInTheLoop DEF RunInv, BootIsClean, CleanlyStopped
  <1>8. CASE UNCHANGED vars
    BY <1>t, <1>8 DEF vars, RunInv, BootIsClean, CleanlyStopped, HasErrors,
                      NextOpCodeIsValid, Instruction, Load
  <1> QED
    BY <1>1, <1>2, <1>3, <1>4, <1>5, <1>6, <1>7, <1>8 DEF Next

LEMMA RunInvariant == Spec => []RunInv
  <1>1. Init => RunInv
    <2>1. << >> \in Seq(Messages)
      BY ExceptionsType
    <2>2. Init => TypeOK
      BY <2>1, Sizes DEF Init, TypeOK, Phases, Addresses, kMaxAddress
    <2> QED
      BY <2>2 DEF RunInv, Init, BootIsClean, CleanlyStopped, HasErrors
  <1> QED
    BY <1>1, RunStep, PTL DEF Spec

(* A run reported free of errors has reached a STOP and, if the byte code  *)
(* asks for the test of the compiler, the word of the verdict is not zero. *)
THEOREM CleanRunsPassed == Spec => []CleanRunPassedItsTest
  <1>1. RunInv => CleanRunPassedItsTest
    BY DEF RunInv, CleanlyStopped, CleanRunPassedItsTest
  <1> QED
    BY <1>1, RunInvariant, PTL

(* Reporting nothing changes nothing.                                      *)
LEMMA NothingRaised ==
  ASSUME TypeOK, NEW x, ~PageFault(x), errors' = errors \o Exceptions(x)
  PROVE  errors' = errors
  BY DEF TypeOK, Exceptions

(* A store to an address that faults goes to the first word of the default *)
(* stack, and no other word changes.                                       *)
LEMMA StoreSpares ==
  ASSUME TypeOK, NEW x, NEW w, mem' = [mem EXCEPT ![LogicalToPhysical(x)] = w],
         errors' = errors \o Exceptions(x), errors' # errors
  PROVE  \A a \in MappedWords \ {WordOfAddr(DefaultStackLow)} : mem'[a] = mem[a]
  <1>1. PageFault(x)
    BY NothingRaised
  <1>2. LogicalToPhysical(x) = WordOfAddr(DefaultStackLow)
    BY <1>1 DEF LogicalToPhysical
  <1> QED
    BY <1>2 DEF TypeOK

LEMMA PushSpares ==
  ASSUME TypeOK, NEW w, PushWord(w), errors' # errors
  PROVE  \A a \in MappedWords \ {WordOfAddr(DefaultStackLow)} : mem'[a] = mem[a]
  <1>1. CASE StackAddr < StackRegisterLow
    BY <1>1 DEF PushWord
  <1>2. CASE ~(StackAddr < StackRegisterLow)
    BY <1>2, StoreSpares DEF PushWord, Store, Raise
  <1> QED
    BY <1>1, <1>2

(* An instruction that raises an exception changes no word of memory but   *)
(* the one that faults are sent to.                                        *)
THEOREM MemoryIsSpared == Spec => ExceptionsSpareMemory
  <1>1. ASSUME TypeOK, [Next]_vars, errors' # errors
        PROVE  \A a \in MappedWords \ {WordOfAddr(DefaultStackLow)} : mem'[a] = mem[a]
    <2>1. CASE Push \/ Call
      BY <1>1, <2>1, PushSpares DEF Push, Call
    <2>2. CASE StoreW \/ StoreB
      BY <1>1, <2>2, StoreSpares DEF StoreW, StoreB, StoreTo, Store, Raise
    <2>3. CASE \/ ColdBoot \/ InvalidOpCode \/ Stop \/ LeaveLoop \/ NoVerdict \/ CompilerTest
               \/ Pop \/ Return \/ JumpInstruction \/ LoadI \/ Lea \/ LoadW \/ LoadB
               \/ AluInstruction \/ UNCHANGED vars
      BY <2>3
         DEF ColdBoot, InvalidOpCode, Stop, LeaveLoop, NoVerdict, CompilerTest, Pop, Return,
             JumpInstruction, Jump, JumpC, LoadI, Lea, LoadW, LoadB, LoadFrom, AluInstruction,
             InstTypeArihmetic, InstTypeComparison, InstTypeLogic, Compute, DivTrap, ArithI,
             OpNotFound, vars
    <2> QED
      BY <1>1, <2>1, <2>2, <2>3 DEF Next, StackInstruction, DataInstruction
  <1>2. TypeOK /\ [Next]_vars =>
          [errors' # errors =>
             \A a \in MappedWords \ {WordOfAddr(DefaultStackLow)} : mem'[a] = mem[a]]_vars
    BY <1>1
  <1> QED
    BY <1>2, TypeCorrect, PTL DEF Spec, ExceptionsSpareMemory
=============================================================================
