----------------------------- MODULE ObjectRecords -----------------------------
(***************************************************************************)
(* The members of a class (HierarchicalScope.hpp) and the layout of its     *)
(* objects (Class.hpp): which variable a name means, where the variables of *)
(* the class and of its parents are, which function a name calls, and what  *)
(* is added to "this" before the call of a parent's function.               *)
(*                                                                          *)
(* A class is a record of the names of its own variables and functions and  *)
(* of its parents, which are classes defined before it.  A variable's       *)
(* symbol is the pair of the class that declares it and its name.           *)
(***************************************************************************)
EXTENDS Naturals, Sequences, SequencesExt

CONSTANT Basic    \* TypesSize::kBasic: bytes of an int, a bool or a pointer

NoRecord ==
  [ scope |-> <<>>,              \* GetHScope(): the symbol a variable's name finds
    offset_of_var |-> <<>>,      \* of a symbol, own or inherited
    offset_of_func |-> <<>>,     \* what "this" moves by, for inherited functions
    function_by_name |-> <<>>,   \* the class whose function the name calls
    size |-> 0 ]

(* Own names are found first, then those of the first parent that has them. *)
Find(scope, parent_scope) == scope @@ parent_scope

InsertOwnVar(record, symbol) ==
  [ record EXCEPT !.scope = Find(symbol[2] :> symbol, @),
                  !.offset_of_var = (symbol :> record.size) @@ @, !.size = @ + Basic ]

(* Faulty: the variables of every parent begin where the first's do. *)
InsertParentAtTop(record, parent) ==
  [ scope |-> Find(record.scope, parent.scope),
    offset_of_var |-> parent.offset_of_var @@ record.offset_of_var,
    offset_of_func |->
      [f \in DOMAIN parent.function_by_name |-> record.size] @@ record.offset_of_func,
    function_by_name |-> parent.function_by_name @@ record.function_by_name,
    size |-> record.size + parent.size ]

InsertParent(record, parent) ==
  [ scope |-> Find(record.scope, parent.scope),
    offset_of_var |->
      [v \in DOMAIN parent.offset_of_var |-> parent.offset_of_var[v] + record.size]
        @@ record.offset_of_var,
    offset_of_func |->
      [f \in DOMAIN parent.function_by_name |-> record.size] @@ record.offset_of_func,
    function_by_name |-> parent.function_by_name @@ record.function_by_name,
    size |-> record.size + parent.size ]

(* The records of all classes, by class. *)
RECURSIVE Records(_)
Records(classes) ==
  IF classes = <<>> THEN <<>>
  ELSE LET before == Records(Front(classes))
           class == Last(classes)
           inherited == FoldLeft(LAMBDA r, p : InsertParent(r, before[p]),
                                 NoRecord, class.parents)
           own == [n \in DOMAIN class.vars |-> <<Len(classes), class.vars[n]>>]
           whole == FoldLeft(InsertOwnVar, inherited, own)
       IN  Append(before,
             [whole EXCEPT !.function_by_name =
                [f \in ToSet(class.funcs) |-> Len(classes)] @@ @])

MemberVarOffset(record, name) == record.offset_of_var[record.scope[name]]

(* What the caller adds to the address of the object. *)
FuncPtrThisAdjust(record, f) ==
  IF f \in DOMAIN record.offset_of_func THEN record.offset_of_func[f] ELSE 0

(* IsDeclValid of a member: a name the class inherits is found, and then    *)
(* looked for among the declarations of the class, where it is not: the     *)
(* compiler does not survive the declaration.                               *)
Declarable(classes) ==
  LET records == Records(classes)
  IN  \A c \in DOMAIN classes : \A p \in ToSet(classes[c].parents) :
        /\ ToSet(classes[c].vars) \cap DOMAIN records[p].scope = {}
        /\ ToSet(classes[c].funcs) \cap DOMAIN records[p].function_by_name = {}

-----------------------------------------------------------------------------
(* What a name means for the source: the variable of the class itself, or   *)
(* the one its first parent that has the name means by it.                  *)
RECURSIVE HasVariable(_, _, _)
HasVariable(classes, c, name) ==
  \/ name \in ToSet(classes[c].vars)
  \/ \E p \in ToSet(classes[c].parents) : HasVariable(classes, p, name)

RECURSIVE VariableMeant(_, _, _)
VariableMeant(classes, c, name) ==
  IF name \in ToSet(classes[c].vars) THEN <<c, name>>
  ELSE VariableMeant(classes,
         SelectSeq(classes[c].parents, LAMBDA p : HasVariable(classes, p, name))[1], name)

(* The hierarchies that are laid out right: no variable and no function's   *)
(* name comes to a class twice, and functions come from first parents only, *)
(* but for those of the class's own parents.                                *)
PlainHierarchy(classes) ==
  LET records == Records(classes)
  IN  \A c \in DOMAIN classes :
        /\ \A i, j \in DOMAIN classes[c].parents : i # j =>
             LET one == records[classes[c].parents[i]]
                 other == records[classes[c].parents[j]]
             IN  /\ DOMAIN one.function_by_name \cap DOMAIN other.function_by_name = {}
                 /\ DOMAIN one.offset_of_var \cap DOMAIN other.offset_of_var = {}
        /\ \A p \in ToSet(classes[c].parents) :
             \A f \in DOMAIN records[p].function_by_name :
               FuncPtrThisAdjust(records[p], f) = 0

(* Every variable a name of a class means has a place of its own in the     *)
(* object, and every function a class has finds each variable of the class  *)
(* it is from where the object keeps that variable.                         *)
MembersInPlace(classes) ==
  LET records == Records(classes)
  IN  \A c \in DOMAIN classes :
        LET record == records[c]
            offset == record.offset_of_var
        IN  /\ Range(record.scope) \subseteq DOMAIN offset
            /\ IsInjective(offset)
            /\ \A f \in DOMAIN record.function_by_name :
                 LET own == records[record.function_by_name[f]].offset_of_var
                 IN  \A v \in DOMAIN own :
                       own[v] + FuncPtrThisAdjust(record, f) = offset[v]
===============================================================================
