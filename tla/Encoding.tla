------------------------------- MODULE Encoding -------------------------------
(***************************************************************************)
(* The 32-bit instruction words of DAVM: IRDefinition (the widths of the    *)
(* fields), IRCodification (packing and unpacking them) and IRBuilder's     *)
(* patching of targets.  An instruction is the record DavmVM executes; a    *)
(* word is a natural number below 2^32.                                     *)
(***************************************************************************)
EXTENDS Integers

kClassNumBits    == 2
kRegisterNumBits == 4
kLiteralNumBits  == 16
kSubtypeNumBits  == 3

(* The number of bits of the type, by class of instructions, from class 0.  *)
kInstTypeNumBits == [class \in 0..3 |-> <<3, 3, 1, 2>>[class + 1]]
kOpcodeNumBits(class) == kClassNumBits + kInstTypeNumBits[class]

kLiteralSignPosition == kLiteralNumBits - 1
MaxLiteral == 2^kLiteralSignPosition - 1    \* kLiteralUnsignedMask

(* Class and type of every instruction the compiler emits. *)
IRCodf ==
  [ STOP |-> <<0, 1>>, JMP |-> <<0, 3>>, CALL |-> <<0, 4>>, RET |-> <<0, 6>>,
    LOAD |-> <<1, 0>>, LOADI |-> <<1, 1>>, STORE |-> <<1, 2>>, LOADB |-> <<1, 3>>,
    STOREB |-> <<1, 4>>, PUSH |-> <<1, 5>>, POP |-> <<1, 6>>, LEA |-> <<1, 7>>,
    JMPC |-> <<2, 0>>, ARII |-> <<2, 1>>,
    ARI |-> <<3, 0>>, CMP |-> <<3, 1>>, LOGIC |-> <<3, 2>> ]

(* Subtypes are numbered within their instruction. *)
Subtypes ==
  [ ARI |-> <<"ADD", "SUB", "MUL", "DIV", "MOV">>,
    ARII |-> <<"ADD", "SUB", "MUL", "DIV", "MOV">>,
    CMP |-> <<"NOT", "EQT", "LST", "LTE">>,
    LOGIC |-> <<"OR", "AND">>,
    JMPC |-> <<"FALSE", "TRUE">> ]

ClassOf(op) == IRCodf[op][1]
OpCode(op) == ClassOf(op) + IRCodf[op][2] * 2^kClassNumBits
SubtypeCode(op, sub) == (CHOOSE n \in DOMAIN Subtypes[op] : Subtypes[op][n] = sub) - 1

(* The k bits of a word from bit n up. *)
Bits(word, n, k) == (word \div 2^n) % 2^k

-----------------------------------------------------------------------------
(* Literals: a sign and a magnitude, of which the low bits are kept. *)

Magnitude(literal) == (IF literal < 0 THEN -literal ELSE literal) % (MaxLiteral + 1)
Code(literal) == Magnitude(literal) + (IF literal < 0 THEN 2^kLiteralSignPosition ELSE 0)

(* Faulty: the sign is lost. *)
DecodeUnsigned(literal) == Bits(literal, 0, kLiteralSignPosition)

Decode(literal) ==
  LET magnitude == Bits(literal, 0, kLiteralSignPosition)
  IN  IF Bits(literal, kLiteralSignPosition, 1) = 0 THEN magnitude ELSE -magnitude

-----------------------------------------------------------------------------
(* A word, from the opcode up: by class, the literal; two registers and the *)
(* literal; subtype, register and literal; subtype and three registers.     *)

CodeClass0(literal, type) == type + Code(literal) * 2^kOpcodeNumBits(0)

CodeClass1(reg_dst, reg_base, literal, type) ==
  type + reg_dst * 2^kOpcodeNumBits(1)
       + reg_base * 2^(kOpcodeNumBits(1) + kRegisterNumBits)
       + Code(literal) * 2^(kOpcodeNumBits(1) + 2 * kRegisterNumBits)

CodeClass2(reg_dst, literal, type, subtype) ==
  type + subtype * 2^kOpcodeNumBits(2)
       + reg_dst * 2^(kOpcodeNumBits(2) + kSubtypeNumBits)
       + Code(literal) * 2^(kOpcodeNumBits(2) + kSubtypeNumBits + kRegisterNumBits)

CodeClass3(reg_src1, reg_src2, reg_dst, type, subtype) ==
  type + subtype * 2^kOpcodeNumBits(3)
       + reg_src1 * 2^(kOpcodeNumBits(3) + kSubtypeNumBits)
       + reg_src2 * 2^(kOpcodeNumBits(3) + kSubtypeNumBits + kRegisterNumBits)
       + reg_dst * 2^(kOpcodeNumBits(3) + kSubtypeNumBits + 2 * kRegisterNumBits)

(* IRBuilder's Jump, Load, Push, Arith... *)
Encoded(i) ==
  LET class == ClassOf(i.op)
      type == OpCode(i.op)
  IN  CASE class = 0 -> CodeClass0(i.lit, type)
        [] class = 1 -> CodeClass1(i.reg, i.reg2, i.lit, type)
        [] class = 2 -> CodeClass2(i.reg, i.lit, type, SubtypeCode(i.op, i.sub))
        [] class = 3 -> CodeClass3(i.reg, i.reg2, i.dst, type, SubtypeCode(i.op, i.sub))

(* checkIRCodification: every class fits a word. *)
CodificationIsWellFormed ==
  /\ kOpcodeNumBits(0) + kRegisterNumBits + kLiteralNumBits <= 32
  /\ kOpcodeNumBits(1) + 2 * kRegisterNumBits + kLiteralNumBits <= 32
  /\ kOpcodeNumBits(2) + kRegisterNumBits + kLiteralNumBits + kSubtypeNumBits <= 32
  /\ kOpcodeNumBits(3) + 3 * kRegisterNumBits + kSubtypeNumBits <= 32

-----------------------------------------------------------------------------
DecodeClass(word) == Bits(word, 0, kClassNumBits)
DecodeType(word, class) == Bits(word, kClassNumBits, kInstTypeNumBits[class])
DecodeOpCode(class, type) == class + type * 2^kClassNumBits

(* A register, a subtype or the literal that begins at a bit of a word. *)
RegAt(word, n) == Bits(word, n, kRegisterNumBits)
SubtypeAt(word, n) == Bits(word, n, kSubtypeNumBits)
LiteralAt(word, n) == Decode(Bits(word, n, kLiteralNumBits))

Blank == [op |-> "NOT_FOUND", reg |-> 0, reg2 |-> 0, dst |-> 0, lit |-> 0, sub |-> "NONE"]

DecodeClass0(word) == [Blank EXCEPT !.lit = LiteralAt(word, kOpcodeNumBits(0))]

DecodeClass1(word) ==
  LET n == kOpcodeNumBits(1)
  IN  [Blank EXCEPT !.reg = RegAt(word, n),
                    !.reg2 = RegAt(word, n + kRegisterNumBits),
                    !.lit = LiteralAt(word, n + 2 * kRegisterNumBits)]

SubtypeNamed(op, code) ==
  IF code + 1 \in DOMAIN Subtypes[op] THEN Subtypes[op][code + 1] ELSE "NONE"

DecodeClass2(word, op) ==
  LET n == kOpcodeNumBits(2)
  IN  [Blank EXCEPT !.sub = SubtypeNamed(op, SubtypeAt(word, n)),
                    !.reg = RegAt(word, n + kSubtypeNumBits),
                    !.lit = LiteralAt(word, n + kSubtypeNumBits + kRegisterNumBits)]

DecodeClass3(word, op) ==
  LET n == kOpcodeNumBits(3) + kSubtypeNumBits
  IN  [Blank EXCEPT !.sub = SubtypeNamed(op, SubtypeAt(word, kOpcodeNumBits(3))),
                    !.reg = RegAt(word, n),
                    !.reg2 = RegAt(word, n + kRegisterNumBits),
                    !.dst = RegAt(word, n + 2 * kRegisterNumBits)]

(* What ExecProcess makes of a word. *)
Decoded(word) ==
  LET class == DecodeClass(word)
      code == DecodeOpCode(class, DecodeType(word, class))
      named == {op \in DOMAIN IRCodf : OpCode(op) = code}
      op == CHOOSE o \in named : TRUE
  IN  IF named = {} THEN Blank
      ELSE [ CASE class = 0 -> DecodeClass0(word)
               [] class = 1 -> DecodeClass1(word)
               [] class = 2 -> DecodeClass2(word, op)
               [] class = 3 -> DecodeClass3(word, op) EXCEPT !.op = op ]

-----------------------------------------------------------------------------
(* Targets. *)

HasOpCode(word, op) == Bits(word, 0, kOpcodeNumBits(ClassOf(op))) = OpCode(op)

IsJump(word) == HasOpCode(word, "JMP") \/ HasOpCode(word, "JMPC")
IsCall(word) == HasOpCode(word, "CALL")
TargetOf(word) == Decoded(word).lit

(* Faulty: a conditional jump becomes one on the register 0. *)
PatchJumpRegisterLost(word, target) ==
  IF HasOpCode(word, "JMP") THEN CodeClass0(target, OpCode("JMP"))
  ELSE CodeClass2(0, target, OpCode("JMPC"), SubtypeAt(word, kOpcodeNumBits(2)))

PatchJump(word, target) ==
  IF HasOpCode(word, "JMP") THEN CodeClass0(target, OpCode("JMP"))
  ELSE CodeClass2(Decoded(word).reg, target, OpCode("JMPC"),
                  SubtypeAt(word, kOpcodeNumBits(2)))

PatchCall(word, target) == CodeClass0(target, OpCode("CALL"))
===============================================================================
