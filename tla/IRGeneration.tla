----------------------------- MODULE IRGeneration -----------------------------
(***************************************************************************)
(* IRGenerator: the walk over the syntax tree that writes the intermediate  *)
(* code, one stream per function, and back patches its jumps.               *)
(*                                                                          *)
(* A jump to a node that comes later is appended without a target and       *)
(* remembered under the node in back_patch_; visiting the node in a block   *)
(* fills in the address reached by then.  Addresses count from the start    *)
(* of the stream, from 0.  Every visit is handed the node that follows, its *)
(* successor, which is null at the end of a function.                       *)
(*                                                                          *)
(* The recursion is the agenda `todo' of visits and of the parts of visits  *)
(* that come after a nested one.  Of an expression the walk keeps one       *)
(* instruction; jumps, calls and returns are those of the code.             *)
(***************************************************************************)
EXTENDS Integers, Sequences

CONSTANTS
  Statement,   \* the statements programs are built from, with their blocks
  Programs     \* the programs: one body per function, that of main first

Kinds == {"decl", "simple", "return", "call", "if", "while"}

(* What the parser builds: see StructuredProgram for the fields. *)
ASSUME StatementAssumption ==
  \A s \in Statement : /\ s.kind \in Kinds
                       /\ s.then \in Seq(Statement)
                       /\ s.else \in Seq(Statement)
                       /\ s.callee \in Nat

ASSUME ProgramsAssumption == Programs \subseteq Seq(Seq(Statement))

VARIABLES
  program,     \* the program being compiled
  todo,        \* what is left of the visits of the current function
  streams,     \* the streams of the functions visited so far, the last current
  back_patch,  \* pairs of a node and the address of a jump waiting for it
  aborted      \* did the compiler end on a null node or a bad cast?

ir_vars == <<program, todo, streams, back_patch, aborted>>

NoNode == <<>>      \* the null successor
Unpatched == -1     \* the target of an inconditional jump before its patch

(* What the runtime library appends to main: the declaration of the         *)
(* variable that keeps the test's verdict.                                  *)
TestDecl == [kind |-> "decl", then |-> <<>>, else |-> <<>>, callee |-> 0]
Body(n) == IF n = 1 THEN Append(program[n], TestDecl) ELSE program[n]

Inst(op, node, target) == [op |-> op, at |-> node, to |-> target]
Jumps == {"jt", "jf", "jmp"}

Visit(what, node, stmts, succ, addr) ==
  [do |-> what, at |-> node, stmts |-> stmts, succ |-> succ, addr |-> addr]

stream == streams[Len(streams)]

(* Faulty: the address of the last instruction. *)
LastAddress(s) == Len(s) - 1

NextAddress(s) == Len(s)

-----------------------------------------------------------------------------
(* Back patching. *)

Waiting(node) == {b \in back_patch : b[1] = node}

(* Faulty: patched jumps go on waiting. *)
WaitingForever(node) == {}

NoLongerWaiting(node) == Waiting(node)

(* BackPatch: the jumps that wait for the node get the next address. *)
Patched(node) ==
  [i \in DOMAIN stream |->
     IF <<node, i - 1>> \in back_patch THEN [stream[i] EXCEPT !.to = NextAddress(stream)]
                                       ELSE stream[i]]

(* The reference cast of BackPatch throws on anything but a jump. *)
BadCast(node) ==
  \E b \in Waiting(node) : b[2] + 1 \notin DOMAIN stream \/ stream[b[2] + 1].op \notin Jumps

SetStream(s) == streams' = [streams EXCEPT ![Len(streams)] = s]

-----------------------------------------------------------------------------
Init ==
  /\ program \in Programs
  /\ todo = <<>>
  /\ streams = <<>>
  /\ back_patch = {}
  /\ aborted = FALSE

Generated == todo = <<>> /\ Len(streams) = Len(program)

(* Visit(ProgBody), one function; main is the first. *)
NewStream ==
  LET n == Len(streams) + 1
  IN  /\ ~aborted /\ todo = <<>>
      /\ n <= Len(program)
      /\ streams' = Append(streams, <<>>)
      /\ todo' = << Visit("block", <<n>>, Body(n), NoNode, 0),
                    Visit("end", <<n>>, <<>>, NoNode, 0) >>
      /\ UNCHANGED <<program, back_patch, aborted>>

Visiting(what) == ~aborted /\ todo # <<>> /\ todo[1].do = what

AppendReturn ==
  /\ Visiting("end")
  /\ SetStream(Append(stream, Inst(IF Len(streams) = 1 THEN "retmain" ELSE "ret", NoNode, 0)))
  /\ todo' = Tail(todo)
  /\ UNCHANGED <<program, back_patch, aborted>>

(* Faulty: the block's own successor is handed to every statement. *)
SameSuccessor(v, j) == v.succ

SuccessorIn(v, j) ==
  IF j < Len(v.stmts) THEN Append(v.at, j + 1) ELSE v.succ

(* Visit(Block): the block is patched, then each statement patched and      *)
(* visited.                                                                 *)
VisitBlock ==
  LET v == todo[1]
  IN  /\ Visiting("block")
      /\ SetStream(Patched(v.at))
      /\ back_patch' = back_patch \ NoLongerWaiting(v.at)
      /\ aborted' = BadCast(v.at)
      /\ todo' = [j \in DOMAIN v.stmts |->
                    Visit("stmt", Append(v.at, j), <<v.stmts[j]>>, SuccessorIn(v, j), 0)]
                 \o Tail(todo)
      /\ UNCHANGED program

(* The patching of a statement and its visit: the code it appends, the      *)
(* jumps that wait, the visits it makes.                                    *)
VisitStmt(kind, code, waits, visits) ==
  LET v == todo[1]
  IN  /\ v.stmts[1].kind = kind
      /\ SetStream(Patched(v.at) \o code)
      /\ back_patch' = (back_patch \ NoLongerWaiting(v.at)) \cup waits
      /\ aborted' = BadCast(v.at)
      /\ todo' = visits \o Tail(todo)
      /\ UNCHANGED program

VisitDecl ==
  Visiting("stmt") /\ VisitStmt("decl", <<>>, {}, <<>>)

VisitAssign ==
  Visiting("stmt") /\ VisitStmt("simple", <<Inst("do", todo[1].at, 0)>>, {}, <<>>)

(* Visit(ReturnStmt) sets the value; no jump leaves the function. *)
VisitReturn ==
  Visiting("stmt") /\ VisitStmt("return", <<Inst("do", todo[1].at, 0)>>, {}, <<>>)

VisitCall ==
  /\ Visiting("stmt")
  /\ VisitStmt("call", <<Inst("call", todo[1].at, todo[1].stmts[1].callee)>>, {}, <<>>)

(* The condition and the two jumps on it; their addresses are those after   *)
(* the condition.                                                           *)
Branch(node) == << Inst("test", node, 0), Inst("jt", node, 0), Inst("jf", node, 0) >>
JumpIfTrueAddress == NextAddress(stream) + 1

HasElse(s) == s.else # <<>>
ElseOf(node) == Append(node, 2)
ThenOf(node) == Append(node, 1)

VisitIf ==
  LET v == todo[1]
      s == v.stmts[1]
      jt == JumpIfTrueAddress
      otherwise == IF HasElse(s) THEN ElseOf(v.at) ELSE v.succ
  IN  /\ Visiting("stmt")
      /\ VisitStmt("if", Branch(v.at),
                   {<<ThenOf(v.at), jt>>, <<otherwise, jt + 1>>},
                   << Visit("block", ThenOf(v.at), s.then, v.succ, 0),
                      Visit("else", v.at, s.else, v.succ, 0) >>)

AppendExit(v) ==
  /\ SetStream(Append(stream, Inst("jmp", v.at, Unpatched)))
  /\ back_patch' = back_patch \cup {<<v.succ, NextAddress(stream)>>}

(* The exit of the then-block, and the visit of the else-block, which the   *)
(* code makes whether there is one or not.                                  *)
VisitElse ==
  LET v == todo[1]
  IN  /\ Visiting("else")
      /\ AppendExit(v)
      /\ aborted' = (v.stmts = <<>>)
      /\ todo' = << Visit("block", ElseOf(v.at), v.stmts, v.succ, 0),
                    Visit("exit", v.at, <<>>, v.succ, 0) >> \o Tail(todo)
      /\ UNCHANGED program

ExitElse ==
  /\ Visiting("exit")
  /\ AppendExit(todo[1])
  /\ todo' = Tail(todo)
  /\ UNCHANGED <<program, aborted>>

(* Faulty: the loop goes back to its jumps, not to its condition. *)
ReentryAfterCond == NextAddress(stream) + 1

reentry_addr == NextAddress(stream)

VisitWhile ==
  LET v == todo[1]
      jt == JumpIfTrueAddress
  IN  /\ Visiting("stmt")
      /\ VisitStmt("while", Branch(v.at),
                   {<<ThenOf(v.at), jt>>, <<v.succ, jt + 1>>},
                   << Visit("block", ThenOf(v.at), v.stmts[1].then, v.succ, 0),
                      Visit("loop", v.at, <<>>, v.succ, reentry_addr) >>)

Loop ==
  /\ Visiting("loop")
  /\ SetStream(Append(stream, Inst("jmp", todo[1].at, todo[1].addr)))
  /\ todo' = Tail(todo)
  /\ UNCHANGED <<program, back_patch, aborted>>

Generate ==
  \/ NewStream
  \/ AppendReturn
  \/ VisitBlock
  \/ VisitDecl
  \/ VisitAssign
  \/ VisitReturn
  \/ VisitCall
  \/ VisitIf
  \/ VisitElse
  \/ ExitElse
  \/ VisitWhile
  \/ Loop

Spec == Init /\ [][Generate]_ir_vars

-----------------------------------------------------------------------------
(* Properties. *)

Visits == [ do : {"block", "stmt", "else", "exit", "loop", "end"}, at : Seq(Nat),
            stmts : Seq(Statement \cup {TestDecl}), succ : Seq(Nat), addr : Nat ]
Insts == [ op : Jumps \cup {"do", "call", "test", "ret", "retmain"}, at : Seq(Nat), to : Int ]

TypeOK ==
  /\ program \in Programs
  /\ todo \in Seq(Visits)
  /\ streams \in Seq(Seq(Insts))
  /\ back_patch \in SUBSET (Seq(Nat) \X Nat)
  /\ aborted \in BOOLEAN

(* The address kept for a node is that of a jump of the stream being        *)
(* written: BackPatch indexes the current stream with it and casts what it  *)
(* finds to a jump, with no way to tell an address of another function.     *)
PatchesFindTheirJumps ==
  \A b \in back_patch : b[1] # NoNode =>
    b[2] + 1 \in DOMAIN stream /\ stream[b[2] + 1].op \in Jumps

(* No jump is left without its target: when a function's stream is          *)
(* complete every node a jump waits for has been visited, and in main,      *)
(* where the library's declaration comes last, no jump waits for the null   *)
(* node either.                                                             *)
NoJumpIsForgotten ==
  todo = <<>> => \A b \in back_patch : b[1] = NoNode /\ Len(streams) > 1
===============================================================================
