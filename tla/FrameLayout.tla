------------------------------ MODULE FrameLayout ------------------------------
(***************************************************************************)
(* Where variables and parameters live: LocalVarOffsets, the pass that      *)
(* walks a function and gives each of them a label and an offset.           *)
(*                                                                          *)
(* A function is a record: class (0, or the class it is a member of),       *)
(* params, body.  Functions are numbered; the first one is main.            *)
(***************************************************************************)
EXTENDS Integers, Sequences, FiniteSetsExt, TLC

kNumArgsInRegister == 1

MemAddr(label, offset) == [label |-> label, offset |-> offset]

(* The walk: offset_, comp_private_offset_, the table of addresses and the  *)
(* bytes it holds.                                                          *)
Start == [offset |-> 0, private |-> 0, table |-> <<>>, size |-> 0]

LocalsLabel(is_main) == IF is_main THEN "MainDS" ELSE "arp"

(* Faulty: the offset stays where it was. *)
VarDeclUncounted(L, s, is_main) ==
  [ L EXCEPT !.table =
      (s.var :> MemAddr(LocalsLabel(is_main), IF is_main THEN L.offset ELSE -L.offset)) @@ @ ]

VarDecl(L, s, is_main) ==
  LET offset == IF s.private THEN L.private - s.size
                ELSE IF is_main THEN L.offset ELSE -L.offset
  IN  [ L EXCEPT !.table = (s.var :> MemAddr(LocalsLabel(is_main), offset)) @@ @,
                 !.size = @ + s.size,
                 !.private = IF s.private THEN @ - s.size ELSE @,
                 !.offset = IF s.private THEN @ ELSE @ + s.size ]

RECURSIVE Walk(_, _, _)
Walk(L, stmts, is_main) ==
  IF stmts = <<>> THEN L
  ELSE LET s == Head(stmts)
           then == Walk(L, s.then, is_main)
           else == Walk([then EXCEPT !.offset = L.offset], s.else, is_main)
       IN  Walk(CASE s.kind = "decl" -> VarDecl(L, s, is_main)
                  [] s.kind = "if" ->
                       [else EXCEPT !.offset = Max({then.offset, else.offset})]
                  [] OTHER -> L,
                Tail(stmts), is_main)

LocalVars(f, is_main) == Walk(Start, f.body, is_main)

HasLocals(f, is_main) == LocalVars(f, is_main).table # <<>>
HasArguments(f) == f.params # <<>>
IsMember(f) == f.class # 0

(* ComputeLocalVarOffsets walks a member with the functions of the unit and *)
(* again with those of its class: its bytes are counted twice.              *)
LocalsSize(f) == LocalVars(f, FALSE).size * (IF IsMember(f) THEN 2 ELSE 1)

(* The first parameters come in registers; the others are on the stack, the *)
(* last one nearest.                                                        *)
ParamAddr(f, is_main, position) ==
  LET k == Len(f.params) - 1
      args_base == 2 + (IF HasLocals(f, is_main) THEN 1 ELSE 0)
                     + (IF IsMember(f) THEN 1 ELSE 0)
  IN  IF position < kNumArgsInRegister THEN MemAddr("ArgReg", position)
      ELSE MemAddr("arp", (k - position) + args_base)

Params(f, is_main) ==
  [ p \in {f.params[i] : i \in DOMAIN f.params} |->
      ParamAddr(f, is_main, (CHOOSE i \in DOMAIN f.params : f.params[i] = p) - 1) ]
===============================================================================
