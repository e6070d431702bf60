------------------------------ MODULE ScopeChain ------------------------------
(***************************************************************************)
(* What block scoping promises a program, with no table to keep up to date: *)
(* a chain of scopes from the global one to the innermost, each with its    *)
(* own definitions, and a name that means what the innermost scope defining *)
(* it says.                                                                 *)
(***************************************************************************)
EXTENDS Integers, Sequences, FiniteSetsExt

CONSTANTS
  Names,      \* the names a program may declare
  Symbols,    \* the definitions
  None        \* no definition

VARIABLES
  chain,      \* from the global scope inwards: the definition of each name
  visible     \* what each name means at this point of the program

vars == <<chain, visible>>

Undefined == [x \in Names |-> None]

(* The depths at which x is defined. *)
Depths(c, x) == {i \in DOMAIN c : c[i][x] # None}

Nearest(c) ==
  [x \in Names |-> IF Depths(c, x) = {} THEN None ELSE c[Max(Depths(c, x))][x]]

Init ==
  /\ chain = <<Undefined>>
  /\ visible = Nearest(chain)

Open ==
  /\ chain' = Append(chain, Undefined)
  /\ visible' = Nearest(chain')

Close ==
  /\ Len(chain) > 1
  /\ chain' = SubSeq(chain, 1, Len(chain) - 1)
  /\ visible' = Nearest(chain')

Fresh(d) == \A i \in DOMAIN chain, x \in Names : chain[i][x] # d

(* Variables are declared in the innermost scope; functions and classes are *)
(* declared in the global scope, functions when their own is already open.  *)
Declare(i, x, d) ==
  /\ chain[i][x] = None
  /\ Fresh(d)
  /\ chain' = [chain EXCEPT ![i][x] = d]
  /\ visible' = Nearest(chain')

Next ==
  \/ Open
  \/ Close
  \/ \E i \in {1, Len(chain)}, x \in Names, d \in Symbols : Declare(i, x, d)

Spec == Init /\ [][Next]_vars
===============================================================================
