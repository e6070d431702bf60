-------------------------------- MODULE CodeGen --------------------------------
(***************************************************************************)
(* From the syntax tree to a run of the byte code: IRGeneration, then the   *)
(* basic blocks of IRUnit, then the DAVM back end, which places the code of *)
(* every stream, prologue and epilogue included, and translates the targets *)
(* of jumps and calls; then the virtual machine runs the result, next to    *)
(* the source program.                                                      *)
(*                                                                          *)
(* An instruction of the intermediate code becomes one of the machine, but  *)
(* a Return none and a Call two (the pushed arguments are dropped after     *)
(* it).  What an instruction computes is left out: conditions go either way.*)
(***************************************************************************)
EXTENDS IRGeneration, SequencesExt

CONSTANT
  MaxDepth     \* bound: calls under way

VARIABLES
  phase,            \* "generate", "emit", "run", "done", or "lost" off the source's way
  is_begin_bb,      \* addresses, over all streams, where a basic block begins
  code,             \* the byte code, at addresses from 0
  call_translation, \* the address of each function
  jump_translation, \* the address of each instruction of the intermediate code
  pc, flag, returns, \* the machine: next address, last condition, return addresses
  left              \* what is left of the source program

code_vars == <<phase, is_begin_bb, code, call_translation, jump_translation>>
run_vars == <<pc, flag, returns, left>>
vars == <<ir_vars, code_vars, run_vars>>

Source == INSTANCE StructuredProgram

CodeInit ==
  /\ Init
  /\ phase = "generate"
  /\ is_begin_bb = {}
  /\ code = <<>>
  /\ call_translation = <<>>
  /\ jump_translation = <<>>
  /\ pc = 0
  /\ flag = FALSE
  /\ returns = <<>>
  /\ left = Source!ItemsOf(<<1>>, program[1])

GenerateIR ==
  /\ phase = "generate"
  /\ Generate
  /\ UNCHANGED <<code_vars, run_vars>>

-----------------------------------------------------------------------------
(* IRUnit. *)

Offset(n) == Len(FlattenSeq(SubSeq(streams, 1, n - 1)))
AllInsts == FlattenSeq(streams)
Targets == {AllInsts[i].to : i \in {j \in DOMAIN AllInsts : AllInsts[j].op \in Jumps}}

(* Faulty: only the functions' first instructions begin a block. *)
BlockStartsAtEntries == {Offset(n) : n \in DOMAIN streams}

BlockStarts == {Offset(n) : n \in DOMAIN streams} \cup Targets

(* An unpatched target is an index far outside the table, and later one the *)
(* translation throws on: no code comes out of it.                          *)
ComputeBeginBB ==
  /\ phase = "generate"
  /\ Generated /\ ~aborted
  /\ IF Unpatched \in Targets
     THEN aborted' = TRUE /\ UNCHANGED <<phase, is_begin_bb>>
     ELSE phase' = "emit" /\ is_begin_bb' = BlockStarts /\ UNCHANGED aborted
  /\ UNCHANGED <<program, todo, streams, back_patch, code, call_translation,
                 jump_translation, run_vars>>

-----------------------------------------------------------------------------
(* BackendDAVM. *)

Nop == Inst("nop", NoNode, 0)
InitTest == <<Nop, Nop>>
FuncPrologue == <<Nop, Nop>>
FuncEpilogue == <<Nop, Nop, Inst("ret", NoNode, 0)>>

Translated(i) ==
  CASE i.op = "ret" -> <<>>
    [] i.op = "retmain" -> <<Inst("stop", NoNode, 0)>>
    [] i.op = "call" -> <<i, Nop>>
    [] OTHER -> <<i>>

VMCode(insts) == FlattenSeq([i \in DOMAIN insts |-> Translated(insts[i])])

(* Faulty: translates as if every instruction became one. *)
AddressInOrder(first, insts, i) == first + i - 1

AddressOf(first, insts, i) == first + Len(VMCode(SubSeq(insts, 1, i - 1)))

(* Visit(IRStream). *)
EmitStream ==
  LET n == Len(call_translation) + 1
      prologue == IF n = 1 THEN InitTest ELSE FuncPrologue
      epilogue == IF n = 1 THEN <<>> ELSE FuncEpilogue
      first == Len(code) + Len(prologue)
  IN  /\ phase = "emit"
      /\ n <= Len(streams)
      /\ call_translation' = Append(call_translation, Len(code))
      /\ jump_translation' =
           jump_translation \o
             [i \in DOMAIN streams[n] |-> AddressOf(first, streams[n], i)]
      /\ code' = code \o prologue \o VMCode(streams[n]) \o epilogue
      /\ UNCHANGED <<ir_vars, phase, is_begin_bb, run_vars>>

(* BackpathCallTargets. *)
PatchTargets ==
  /\ phase = "emit"
  /\ Len(call_translation) = Len(streams)
  /\ code' = [a \in DOMAIN code |->
       CASE code[a].op \in Jumps -> [code[a] EXCEPT !.to = jump_translation[@ + 1]]
         [] code[a].op = "call" -> [code[a] EXCEPT !.to = call_translation[@]]
         [] OTHER -> code[a]]
  /\ phase' = "run"
  /\ UNCHANGED <<ir_vars, is_begin_bb, call_translation, jump_translation, run_vars>>

-----------------------------------------------------------------------------
(* The machine.  An instruction that the source program can tell takes the  *)
(* source's next step, or the run is lost.                                  *)

Running(ops) == phase = "run" /\ pc + 1 \in DOMAIN code /\ code[pc + 1].op \in ops
Now == code[pc + 1]
Go(a) == pc' = a

Lost ==
  /\ phase' = "lost"
  /\ UNCHANGED <<ir_vars, is_begin_bb, code, call_translation, jump_translation, run_vars>>

Stay == UNCHANGED <<phase, is_begin_bb, code, call_translation, jump_translation,
                    todo, streams, back_patch, aborted>>

Skip ==
  /\ Running({"nop"})
  /\ Go(pc + 1)
  /\ Stay /\ UNCHANGED <<program, flag, returns, left>>

Do ==
  /\ Running({"do"})
  /\ \/ /\ Source!Simple(Now.at) \/ Source!Return(Now.at)
        /\ Go(pc + 1)
        /\ Stay /\ UNCHANGED <<flag, returns>>
     \/ /\ ~Source!At(Now.at, {"simple", "return"})
        /\ Lost

Test ==
  /\ Running({"test"})
  /\ \/ \E holds \in BOOLEAN :
          /\ Source!Test(Now.at, holds)
          /\ Go(pc + 1)
          /\ flag' = holds
          /\ Stay /\ UNCHANGED returns
     \/ /\ ~Source!At(Now.at, {"if", "while"})
        /\ Lost

Taken == Now.op = "jmp" \/ (Now.op = "jt") = flag

Jump ==
  /\ Running(Jumps)
  /\ Go(IF Taken THEN Now.to ELSE pc + 1)
  /\ Stay /\ UNCHANGED <<program, flag, returns, left>>

Call ==
  /\ Running({"call"})
  /\ \/ /\ Len(returns) < MaxDepth
        /\ Source!Call(Now.at)
        /\ Go(Now.to)
        /\ returns' = Append(returns, pc + 1)
        /\ Stay /\ UNCHANGED flag
     \/ /\ ~Source!At(Now.at, {"call"})
        /\ Lost

Ret ==
  /\ Running({"ret"})
  /\ IF returns = <<>> THEN Lost
     ELSE /\ Go(Last(returns))
          /\ returns' = Front(returns)
          /\ Stay /\ UNCHANGED <<program, flag, left>>

(* The machine stops; it also does when it runs off its code. *)
Stop ==
  /\ phase = "run"
  /\ pc + 1 \in DOMAIN code => Now.op = "stop"
  /\ IF pc + 1 \in DOMAIN code /\ Source!Finished
     THEN /\ phase' = "done"
          /\ UNCHANGED <<ir_vars, is_begin_bb, code, call_translation,
                         jump_translation, run_vars>>
     ELSE Lost

Next ==
  \/ GenerateIR
  \/ ComputeBeginBB
  \/ EmitStream
  \/ PatchTargets
  \/ Skip
  \/ Do
  \/ Test
  \/ Jump
  \/ Call
  \/ Ret
  \/ Stop

CodeSpec == CodeInit /\ [][Next]_vars /\ WF_vars(Next)

-----------------------------------------------------------------------------
(* Properties. *)

StatementsIn(stmts) ==
  LET within[s \in Statement] ==
        {s} \cup UNION {within[t] : t \in ToSet(s.then) \cup ToSet(s.else)}
  IN  UNION {within[s] : s \in ToSet(stmts)}

Branches == {"if", "while"}

(* The programs the compiler gets right: every if has an else, no while     *)
(* ends in an if or a while, only main branches, and a return comes last.   *)
Supported(p) ==
  \A n \in DOMAIN p :
    /\ \A s \in StatementsIn(p[n]) :
         /\ s.kind = "if" => s.else # <<>>
         /\ s.kind = "while" => Last(s.then).kind \notin Branches
         /\ n > 1 => s.kind \notin Branches
         /\ "return" \notin {t.kind : t \in ToSet(s.then) \cup ToSet(s.else)}
    /\ \A j \in 1..Len(p[n]) - 1 : p[n][j].kind # "return"

(* The byte code of a supported program runs the source's statements, calls *)
(* and conditions in the source's order and stops where the source ends:    *)
(* back patching, block starts, the translation of addresses and the        *)
(* placement of functions together put every jump where it belongs.         *)
FollowsSource == Supported(program) => phase # "lost" /\ ~aborted

(* The machine runs on what registers hold at the start of a basic block    *)
(* only: whenever it arrives by a jump or a call, it is at the address of   *)
(* an instruction that IRUnit marked, where the allocator was flushed.      *)
MarkedAddresses == {jump_translation[g + 1] : g \in is_begin_bb}
JumpsEnterBlocks ==
  [][Jump /\ Taken => pc' \in MarkedAddresses]_vars

(* The code of a supported program never spins without running any of the   *)
(* source's statements or conditions.                                       *)
KeepsGoing ==
  []<>(Supported(program) => phase # "run" \/ Now.op \in {"do", "test", "call"})

(* "Jumps refer to their IR address, and will have to be translated later   *)
(* to the VM address where the original instruction was placed" (the back   *)
(* end): in the code of a function a jump leads to that function's code.    *)
JumpsStayInTheirFunction ==
  phase \in {"run", "done"} =>
    \A a \in DOMAIN code : code[a].op \in Jumps =>
      {f \in DOMAIN call_translation : call_translation[f] < a}
        = {f \in DOMAIN call_translation : call_translation[f] <= code[a].to}
===============================================================================
