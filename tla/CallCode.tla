-------------------------------- MODULE CallCode --------------------------------
(***************************************************************************)
(* The code of functions: what IRGenerator makes of declarations, of        *)
(* assignments, calls, returns and ifs, and what BackendDAVM makes of that, *)
(* with the prologue and epilogue of every function and the instructions    *)
(* around a call.                                                           *)
(*                                                                          *)
(* An entry stands for one instruction of the intermediate code: the        *)
(* machine instructions it becomes, and beside each of them what it is for  *)
(* in the source program.  Each statement counts its registers from 1: which*)
(* register a value gets is RegisterAllocator's matter, and no value here   *)
(* outlives its statement.                                                  *)
(***************************************************************************)
EXTENDS FrameLayout, ObjectRecords, SequencesExt

CONSTANTS
  NumRegs,     \* machine registers
  LastWord     \* MemChunk::LastWord(), as the word it is given to Store as

MRegRetValue == 0
MRegStackPtr == NumRegs - 1
MRegArpPtr   == NumRegs - 2
MRegThisPtr  == NumRegs - 3

(* IRBuilder *)
I(op, reg, reg2, dst, lit, sub) ==
  [op |-> op, reg |-> reg, reg2 |-> reg2, dst |-> dst, lit |-> lit, sub |-> sub]
Stop == I("STOP", 0, 0, 0, 0, "NONE")
Return == I("RET", 0, 0, 0, 0, "NONE")
Call(target) == I("CALL", 0, 0, 0, target, "NONE")
Jump(target) == I("JMP", 0, 0, 0, target, "NONE")
JumpIf(reg, target, sub) == I("JMPC", reg, 0, 0, target, sub)
Load(reg, lit) == I("LOAD", reg, 0, 0, lit, "NONE")
LoadI(reg, lit) == I("LOADI", reg, 0, 0, lit, "NONE")
LoadB(reg, base, lit) == I("LOADB", reg, base, 0, lit, "NONE")
Store(reg, lit) == I("STORE", reg, 0, 0, lit, "NONE")
StoreB(reg, base, lit) == I("STOREB", reg, base, 0, lit, "NONE")
Push(reg) == I("PUSH", reg, 0, 0, 0, "NONE")
Pop(reg) == I("POP", reg, 0, 0, 0, "NONE")
ArithI(reg, lit, sub) == I("ARII", reg, 0, 0, lit, sub)
Arith(reg1, reg2, dst, sub) == I("ARI", reg1, reg2, dst, 0, sub)
Move(src, dst) == Arith(src, 0, dst, "MOV")
Logic(reg1, reg2, dst, sub) == I("LOGIC", reg1, reg2, dst, 0, sub)

-----------------------------------------------------------------------------
(* What an instruction is for: nothing the source program can tell, or to   *)
(* give variable `to` the value of `e`, to call, to set the value to be     *)
(* returned, or to return.                                                  *)
Means(does, to, e, call) == [does |-> does, to |-> to, e |-> e, call |-> call]

NoExpr == [kind |-> "none", lit |-> 0, var |-> "", object |-> ""]
Result == [NoExpr EXCEPT !.kind = "result"]
NoCall == [callee |-> 0, object |-> "", args |-> <<>>]
Nothing == Means("nothing", "", NoExpr, NoCall)

Entry(insts) == [insts |-> insts, means |-> [n \in DOMAIN insts |-> Nothing]]
EntryFor(inst, m) == [insts |-> <<inst>>, means |-> <<m>>]

-----------------------------------------------------------------------------
(* Addresses.  What a function can name: its variables and parameters, in   *)
(* the function the language library adds main's __test_result, and the     *)
(* variables of the objects of its class, whose names win (VarIsMember).    *)

Function(p, f) == p.functions[f]

(* FunctionManager: members and functions share one table by name, whose    *)
(* last entry counts.                                                       *)
GetFunc(p, name) == Max({f \in DOMAIN p.functions : p.functions[f].name = name})
TestResult == "__test_result"

(* The names a function's body takes for members of its class. *)
MemberVars(function, records) ==
  IF IsMember(function) THEN DOMAIN records[function.class].scope ELSE {}

AddressTable(p, f, records) ==
  LET function == Function(p, f)
      main == LocalVars(Function(p, 1), TRUE).table
  IN  [v \in MemberVars(function, records) |->
         MemAddr("this", MemberVarOffset(records[function.class], v))]
        @@ LocalVars(function, f = 1).table @@ Params(function, f = 1)
        @@ (TestResult :> main[TestResult])

(* What the generator knows in a function: the program p, the address table *)
(* addr, main's address table main, the records of the classes.             *)
RecordOf(t, object) == t.records[t.p.class_of[object]]

BaseReg(label) == IF label = "arp" THEN MRegArpPtr ELSE MRegThisPtr

LoadCallBack(reg, addr) ==
  IF addr.label = "MainDS" THEN Load(reg, addr.offset)
  ELSE LoadB(reg, BaseReg(addr.label), addr.offset)

(* Faulty: what is at run time in a frame is looked for in main's segment. *)
StoreCallBackAbsolute(reg, addr) == Store(reg, addr.offset)

StoreCallBack(reg, addr) ==
  IF addr.label = "MainDS" THEN Store(reg, addr.offset)
  ELSE StoreB(reg, BaseReg(addr.label), addr.offset)

-----------------------------------------------------------------------------
(* Expressions: the code, and the register the value is in.  An argument    *)
(* that came in a register is used from there (GetArg).                     *)

Value(code, reg) == [code |-> code, reg |-> reg]

VarValue(t, var, r) ==
  LET addr == t.addr[var]
  IN  IF addr.label = "ArgReg" THEN Value(<<Entry(<<>>)>>, addr.offset)
      ELSE Value(<<Entry(<<LoadCallBack(r, addr)>>)>>, r)

(* RefOp, and the left-hand side of a dot: only main has objects here. *)
PtrElem(t, object, r) == Entry(<<LoadI(r, t.main[object].offset)>>)

LiteralCode(lit, r) == Entry(<<LoadI(r, lit)>>)
AndCode(reg1, reg2, r) == Entry(<<Logic(reg1, reg2, r, "AND")>>)
FieldCode(base, offset, r) == Entry(<<LoadB(r, base, offset)>>)

FieldValue(t, e, r) ==
  Value(<<PtrElem(t, e.object, r),
          FieldCode(r, MemberVarOffset(RecordOf(t, e.object), e.var), r + 1)>>, r + 1)

Evaluate(t, e, r) ==
  CASE e.kind = "lit" -> Value(<<LiteralCode(e.lit, r)>>, r)
    [] e.kind = "var" -> VarValue(t, e.var, r)
    [] e.kind = "and" ->
         LET lhs == VarValue(t, TestResult, r)
             rhs == VarValue(t, e.var, r + 1)
         IN  Value(lhs.code \o rhs.code \o <<AndCode(lhs.reg, rhs.reg, r + 2)>>, r + 2)
    [] e.kind = "dot" -> FieldValue(t, e, r)

-----------------------------------------------------------------------------
(* Calls.  The arguments are evaluated, then set; the object comes last.    *)

RECURSIVE Arguments(_, _, _)
Arguments(t, args, r) ==
  IF args = <<>> THEN [code |-> <<>>, regs |-> <<>>]
  ELSE LET first == Evaluate(t, Head(args), r)
           rest == Arguments(t, Tail(args), r + 2)
       IN  [code |-> first.code \o rest.code, regs |-> <<first.reg>> \o rest.regs]

(* Faulty: every argument is moved to the register of the first. *)
SetArgUnpushed(reg, is_first_arg) == Entry(<<Move(reg, MRegRetValue)>>)

SetArg(reg, is_first_arg) ==
  IF ~is_first_arg THEN Entry(<<Push(reg)>>)
  ELSE Entry(IF reg = MRegRetValue THEN <<>> ELSE <<Move(reg, MRegRetValue)>>)

SetArgs(regs) == [n \in DOMAIN regs |-> SetArg(regs[n], n = 1)]

(* DotOp with a function: the address of the object, moved to the parent's  *)
(* part of it, is set as an argument after the others.                      *)
SetThis(t, c, r, is_first_arg) ==
  LET record == RecordOf(t, c.object)
      name == Function(t.p, c.callee).name
  IN  <<PtrElem(t, c.object, r)>> \o
      (IF name \in DOMAIN record.offset_of_func
       THEN <<Entry(<<LoadI(r + 1, FuncPtrThisAdjust(record, name))>>),
              Entry(<<Arith(r, r + 1, r + 2, "ADD")>>),
              SetArg(r + 2, is_first_arg)>>
       ELSE <<SetArg(r, is_first_arg)>>)

Pushed(c) == Len(c.args) + (IF c.object = "" THEN 0 ELSE 1) - 1

(* The pushed arguments would be dropped by an instruction the machine has  *)
(* no effect for.  A function that is not a member is found by its name.    *)
CallEntry(p, c) ==
  LET drop == IF Pushed(c) > 0 THEN <<ArithI(MRegStackPtr, Pushed(c), "ADD")>> ELSE <<>>
      called == IF c.object = "" THEN GetFunc(p, Function(p, c.callee).name) ELSE c.callee
  IN  [ insts |-> <<Call(called)>> \o drop,
        means |-> <<Means("call", "", NoExpr, c)>> \o [n \in DOMAIN drop |-> Nothing] ]

CallCodeOf(t, c) ==
  LET arguments == Arguments(t, c.args, 1)
      r == 2 * Len(c.args) + 1
  IN  arguments.code \o SetArgs(arguments.regs)
        \o (IF c.object = "" THEN <<>> ELSE SetThis(t, c, r, c.args = <<>>))
        \o <<CallEntry(t.p, c)>>

GetRetVal(r) == Entry(<<Move(MRegRetValue, r)>>)
SetRetVal(reg, e) == EntryFor(Move(reg, MRegRetValue), Means("result", "", e, NoCall))

(* The value of a call, in register 1. *)
CallResult(t, c) == CallCodeOf(t, c) \o <<GetRetVal(1)>>

ReturnCode(code, reg, e) == code \o <<SetRetVal(reg, e)>>

ConditionalJump(reg, target, sub) == Entry(<<JumpIf(reg, target, sub)>>)
JumpTo(target) == Entry(<<Jump(target)>>)

-----------------------------------------------------------------------------
(* Statements, from the address `at` of the intermediate code on. *)

StoreTo(t, reg, var, e) ==
  EntryFor(StoreCallBack(reg, t.addr[var]), Means("set", var, e, NoCall))

RECURSIVE BlockCode(_, _, _)
BlockCode(t, stmts, at) ==
  IF stmts = <<>> THEN <<>>
  ELSE LET s == Head(stmts)
           value == Evaluate(t, s.e, 1)
           code ==
             CASE s.kind = "decl" -> <<>>
               [] s.kind = "assign" ->
                    value.code \o <<StoreTo(t, value.reg, s.var, s.e)>>
               [] s.kind = "call" -> CallCodeOf(t, s.call)
               [] s.kind = "assign_call" ->
                    CallResult(t, s.call) \o <<StoreTo(t, 1, s.var, Result)>>
               [] s.kind = "return_call" -> ReturnCode(CallResult(t, s.call), 1, Result)
               [] s.kind = "return" -> ReturnCode(value.code, value.reg, s.e)
               [] s.kind = "if" ->
                    LET then_at == at + Len(value.code) + 2
                        then == BlockCode(t, s.then, then_at)
                        else_at == then_at + Len(then) + 1
                        else == BlockCode(t, s.else, else_at)
                        after == else_at + Len(else) + 1
                    IN  value.code
                          \o <<ConditionalJump(value.reg, then_at, "TRUE"),
                               ConditionalJump(value.reg, else_at, "FALSE")>>
                          \o then \o <<JumpTo(after)>>
                          \o else \o <<JumpTo(after)>>
       IN  code \o BlockCode(t, Tail(stmts), at + Len(code))

(* The stream of a function: its body, and Return or ReturnMain. *)
StreamOf(t, f) ==
  BlockCode(t, Function(t.p, f).body, 0)
    \o <<Entry(IF f = 1 THEN <<Stop>> ELSE <<>>)>>

-----------------------------------------------------------------------------
UsesArp(f) == HasLocals(f, FALSE) \/ HasArguments(f)

(* Faulty: the frame begins before the caller's ARP is saved. *)
FuncPrologueMoveFirst(f) ==
  (IF IsMember(f) THEN <<Push(MRegThisPtr)>> ELSE <<>>)
    \o (IF UsesArp(f)
        THEN <<Move(MRegStackPtr, MRegArpPtr), Push(MRegArpPtr)>> ELSE <<>>)

FuncPrologue(f) ==
  (IF IsMember(f) THEN <<Push(MRegThisPtr)>> ELSE <<>>)
    \o (IF UsesArp(f)
        THEN <<Push(MRegArpPtr), Move(MRegStackPtr, MRegArpPtr)>> ELSE <<>>)
    \o (IF HasLocals(f, FALSE)
        THEN <<ArithI(MRegStackPtr, LocalsSize(f), "SUB")>> ELSE <<>>)

(* Faulty: the stack pointer is not taken back to the frame's beginning. *)
FuncEpilogueWithoutMove(f) ==
  (IF UsesArp(f) THEN <<Pop(MRegArpPtr)>> ELSE <<>>)
    \o (IF IsMember(f) THEN <<Pop(MRegThisPtr)>> ELSE <<>>)
    \o <<Return>>

FuncEpilogue(f) ==
  (IF UsesArp(f)
   THEN <<Move(MRegArpPtr, MRegStackPtr), Pop(MRegArpPtr)>> ELSE <<>>)
    \o (IF IsMember(f) THEN <<Pop(MRegThisPtr)>> ELSE <<>>)
    \o <<Return>>

InitTest == <<LoadI(0, 1), Store(0, LastWord)>>
===============================================================================
