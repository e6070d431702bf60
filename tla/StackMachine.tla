---------------------------- MODULE StackMachine ----------------------------
(***************************************************************************)
(* What the DAVM promises to a program that leaves the stack to the push,  *)
(* pop, call and return instructions: a register machine with a bounded    *)
(* last-in-first-out stack.  A return goes back to the instruction after   *)
(* its call, a pop delivers the word that was pushed last, nothing else    *)
(* touches the stack, exhausting the stack or reading it when it is empty  *)
(* fails the machine, and a machine that has failed executes nothing more. *)
(***************************************************************************)
EXTENDS Integers, Sequences

CONSTANTS
  Values,      (* machine words                                             *)
  Names,       (* the registers a program may name (not the stack register) *)
  Targets,     (* addresses in code memory                                  *)
  Capacity,    (* how many words fit in the stack                           *)
  Verdict,     (* the register the test verdict is read into                *)
  AsTarget(_), (* the code address a word stands for                        *)
  AsWord(_)    (* the word that stands for a code address                   *)

VARIABLES
  stack,       (* the words pushed and not popped yet, oldest first         *)
  pc,          (* address of the next instruction                           *)
  doing,       (* the next instruction: its use of the stack, or "nothing"  *)
  bank,        (* contents of the registers                                 *)
  failed       (* an exception has been raised                              *)

svars == <<stack, pc, doing, bank, failed>>

StackUses == {"push", "pop", "call", "return", "other", "nothing"}

Top       == stack[Len(stack)]
AllButTop == SubSeq(stack, 1, Len(stack) - 1)
HasRoom   == Len(stack) < Capacity

Init ==
  /\ stack = <<>>
  /\ pc = 0
  /\ bank \in [Names -> Values]
  /\ failed = FALSE

(* Work that leaves the stack alone; it may raise an exception.            *)
Compute ==
  /\ ~failed
  /\ doing = "other"
  /\ stack' = stack
  /\ bank' \in [Names -> Values]
  /\ pc' \in Targets
  /\ failed' \in BOOLEAN

Push(r) ==
  /\ ~failed
  /\ doing = "push"
  /\ HasRoom
  /\ stack' = Append(stack, bank[r])
  /\ pc' = pc + 1
  /\ UNCHANGED <<bank, failed>>

Pop(r) ==
  /\ ~failed
  /\ doing = "pop"
  /\ stack # <<>>
  /\ stack' = AllButTop
  /\ bank' = [bank EXCEPT ![r] = Top]
  /\ pc' = pc + 1
  /\ UNCHANGED failed

Call(t) ==
  /\ ~failed
  /\ doing = "call"
  /\ HasRoom
  /\ stack' = Append(stack, AsWord(pc + 1))
  /\ pc' = t
  /\ UNCHANGED <<bank, failed>>

Return ==
  /\ ~failed
  /\ doing = "return"
  /\ stack # <<>>
  /\ stack' = AllButTop
  /\ pc' = AsTarget(Top)
  /\ UNCHANGED <<bank, failed>>

(* A push or call on a full stack, a pop or return on an empty one: the    *)
(* instruction commits (registers, program counter) but the stack does not *)
(* move, and the machine has failed.                                       *)
Refuse ==
  /\ ~failed
  /\ \/ doing \in {"push", "call"} /\ ~HasRoom
     \/ doing \in {"pop", "return"} /\ stack = <<>>
  /\ stack' = stack
  /\ bank' \in [Names -> Values]
  /\ pc' \in Targets
  /\ failed' = TRUE

(* Entering and leaving the run, reading the verdict: one register at most. *)
WindDown ==
  /\ doing = "nothing"
  /\ \E w \in Values : bank' \in {bank, [bank EXCEPT ![Verdict] = w]}
  /\ failed' \in {failed, TRUE}
  /\ UNCHANGED <<stack, pc>>

Next ==
  \/ Compute
  \/ \E r \in Names : Push(r) \/ Pop(r)
  \/ \E t \in Targets : Call(t)
  \/ Return
  \/ Refuse
  \/ WindDown

Spec == Init /\ [][Next]_svars
=============================================================================
