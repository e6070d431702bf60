------------------------------ MODULE MCDavmVM ------------------------------
(* Small machines for DavmVM: a few registers, pages of two to four words,  *)
(* and every short program over a pool of instructions.                     *)
EXTENDS DavmVM, SequencesExt, Bitwise

CONSTANT MaxProgram    (* bound: instructions of an enumerated program      *)

MCBitOr(x, y)  == ToWord(Addr(x) | Addr(y))
MCBitAnd(x, y) == ToWord(Addr(x) & Addr(y))

Inst(op, reg, reg2, dst, lit, sub) ==
  [op |-> op, reg |-> reg, reg2 |-> reg2, dst |-> dst, lit |-> lit, sub |-> sub]
C0(op, lit)          == Inst(op, 0, 0, 0, lit, "NONE")
C1(op, reg, reg2, lit) == Inst(op, reg, reg2, 0, lit, "NONE")
C2(op, reg, lit, sub)  == Inst(op, reg, 0, 0, lit, sub)
C3(op, reg, reg2, dst, sub) == Inst(op, reg, reg2, dst, 0, sub)

LowestWord == -(AddrSpace \div 2)

-----------------------------------------------------------------------------
(* Any program: the stack register may be written, addresses may fault.     *)

UnruledPool ==
  { C0("STOP", 0), C0("RET", 0), C0("CALL", 0), C0("JMP", 0), C0("JMP", 9),
    C1("LOADI", 0, 0, -5), C1("LOADI", 1, 0, -1),
    C1("LOAD", 1, 0, 8), C1("LOADB", 0, 1, 4),
    C1("STORE", 0, 0, -4), C1("STORE", 0, 0, 8), C1("STOREB", 1, 2, 1),
    C1("PUSH", 0, 0, 0), C1("POP", 1, 0, 0), C1("POP", 2, 0, 0),
    C1("LEA", 2, 2, -4), C1("LEA", 2, 2, 8),
    C2("JMPC", 0, 0, "TRUE"), C2("JMPC", 0, 2, "FALSE"), C2("ARII", 0, 1, "ADD"),
    C3("ARI", 0, 1, 0, "DIV"), C3("ARI", 0, 1, 2, "SUB"), C3("CMP", 0, 1, 1, "LTE") }

(* The other codes and subtypes, on a pair of words, ending in a verdict.   *)
AluProgram(v, w, i) ==
  << C1("LOADI", 0, 0, v), C1("LOADI", 1, 0, w), i, C1("STORE", 0, 0, -4), C0("STOP", 0) >>
AluPool ==
  { C0("NOT_FOUND", 0), C3("CMP", 0, 1, 0, "ADD"), C3("LOGIC", 0, 1, 0, "NONE"),
    C3("ARI", 0, 1, 0, "OR") }
    \cup {C3("ARI", 0, 1, 0, s) : s \in ArithSubtypes}
    \cup {C3("CMP", 1, 0, 0, s) : s \in CompSubtypes}
    \cup {C3("LOGIC", 0, 1, 0, s) : s \in LogicSubtypes}
AluPrograms ==
  {AluProgram(v, w, i) : v \in {-5, LowestWord}, w \in {-1, 0, 3}, i \in AluPool}

UnruledPrograms == AluPrograms \cup BoundedSeq(UnruledPool, MaxProgram)
UnruledUser     == {[low |-> 0, high |-> 7], [low |-> 24, high |-> 31]}
UnruledStack    == [low |-> 16, high |-> 23]

-----------------------------------------------------------------------------
(* Programs for the stack machine: stores only below the stack.             *)

StackPool ==
  { C0("STOP", 0), C0("RET", 0), C0("CALL", 0), C0("CALL", 1), C0("CALL", 3),
    C0("JMP", 2), C1("LOADI", 0, 0, 2), C1("STORE", 0, 0, 4), C1("LOAD", 1, 0, 4),
    C1("PUSH", 0, 0, 0), C1("PUSH", 1, 0, 0), C1("PUSH", 2, 0, 0),
    C1("POP", 0, 0, 0), C1("POP", 1, 0, 0),
    C2("JMPC", 1, 1, "TRUE"), C3("ARI", 0, 1, 0, "SUB") }

StackPrograms == BoundedSeq(StackPool, MaxProgram)
StackUser     == {[low |-> 0, high |-> 7]}
StackMem      == [low |-> 32, high |-> 47]
=============================================================================
