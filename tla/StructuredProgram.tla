--------------------------- MODULE StructuredProgram ---------------------------
(***************************************************************************)
(* What the control flow of a source program means, without jumps: the      *)
(* statements that are left to run, in order.  A while is left in place     *)
(* while its body runs; a call runs the callee's body and then what was     *)
(* left of the caller.                                                      *)
(*                                                                          *)
(* A statement is known by its place: function i is <<i>>, the j-th         *)
(* statement of a block at p is p \o <<j>>, the then-block or body of a     *)
(* statement at p is p \o <<1>> and its else-block p \o <<2>>.  A statement   *)
(* has a kind, blocks `then' (also the body of a while) and `else', both    *)
(* <<>> when there is none, and the function a call is to.                  *)
(***************************************************************************)
EXTENDS Naturals, Sequences, FiniteSetsExt

CONSTANT
  Programs     \* the programs: one body per function, that of main first

VARIABLES
  program,     \* the program that runs
  left         \* what is left of it: statements and their places

EndOfFunction == [at |-> <<>>, stmt |-> [kind |-> "end"]]

ItemsOf(p, stmts) ==
  [j \in DOMAIN stmts |-> [at |-> Append(p, j), stmt |-> stmts[j]]]

(* Declarations and the ends of functions do nothing a program can observe. *)
Observable(l) == {i \in DOMAIN l : l[i].stmt.kind \notin {"decl", "end"}}
Upcoming == SubSeq(left, Min(Observable(left)), Len(left))

Finished == Observable(left) = {}

At(p, kinds) ==
  ~Finished /\ Upcoming[1].at = p /\ Upcoming[1].stmt.kind \in kinds

Init ==
  /\ program \in Programs
  /\ left = ItemsOf(<<1>>, program[1])

Simple(p) ==
  /\ At(p, {"simple"})
  /\ left' = Tail(Upcoming)
  /\ UNCHANGED program

(* A return leaves the innermost function, whatever it is nested in. *)
Return(p) ==
  LET ends == {i \in DOMAIN Upcoming : Upcoming[i].stmt.kind = "end"}
  IN  /\ At(p, {"return"})
      /\ left' = IF ends = {} THEN <<>> ELSE SubSeq(Upcoming, Min(ends) + 1, Len(Upcoming))
      /\ UNCHANGED program

Call(p) ==
  /\ At(p, {"call"})
  /\ LET f == Upcoming[1].stmt.callee
     IN  left' = ItemsOf(<<f>>, program[f]) \o <<EndOfFunction>> \o Tail(Upcoming)
  /\ UNCHANGED program

Test(p, holds) ==
  /\ At(p, {"if", "while"})
  /\ LET s == Upcoming[1].stmt
         block == IF holds THEN ItemsOf(Append(p, 1), s.then)
                  ELSE ItemsOf(Append(p, 2), s.else)
     IN  left' = block \o (IF s.kind = "while" /\ holds THEN Upcoming ELSE Tail(Upcoming))
  /\ UNCHANGED program
===============================================================================
