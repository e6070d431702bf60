---------------------------- MODULE LexicalScopes ----------------------------
(***************************************************************************)
(* The lexical scopes of a compilation unit while the recursive descent     *)
(* parser builds it (DACOMPILER LexicalScope, ScopeManager; RecDescent).    *)
(*                                                                          *)
(* All scopes share one symbol table, name to current symbol.  A scope only *)
(* records what its declarations hid, and puts that back when it is left.   *)
(* The parser declares into the scope it is handed down (scope_inht), while *)
(* leaving a scope undoes whatever scope is current: the two agree only as  *)
(* long as every function of the parser restores what it opened.            *)
(*                                                                          *)
(* The input program is the choice among the actions.  Types, labels and    *)
(* AST nodes are left out, as are the names of the runtime library, which   *)
(* start with two underscores and are registered before parsing starts.     *)
(***************************************************************************)
EXTENDS Integers, Sequences, FiniteSets, FiniteSetsExt

CONSTANTS
  Names,           \* the names the program declares
  MaxSymbols,      \* bound: symbol ids the program may use
  MaxScopes,       \* bound: scopes the program may open
  OwnNameParams,   \* do programs give a parameter the name of its function?
  LeakyErrors      \* do programs hold the errors that make the parser return early?

ASSUME NamesAssumption == MaxSymbols \in Nat /\ MaxScopes \in Nat
ASSUME ProgramsAssumption == OwnNameParams \in BOOLEAN /\ LeakyErrors \in BOOLEAN

Global == 0
NoScope == -1
None == 0                         \* the code's -1: no symbol of that name
SymbolIds == 1..MaxSymbols
ScopeIds == Global..MaxScopes
NoName == "no name"

VARIABLES
  symbol_table,      \* SymbolTable, shared: the current symbol of each name
  declared_in,       \* DeclarationTable, shared: the scope of each symbol
  symbols,           \* per scope: what each of its declarations hid, in order
  post_parse_table,  \* per scope: its own definitions, kept after it is left
  alive,             \* from the global scope to current_scope_, by parent_
  free_scope_id, free_symbol_id,
  frames,            \* the parser's activations that own a scope, innermost last
  func,              \* name, symbol and membership of the function being parsed
  class,             \* the class being parsed, or NoName
  members,           \* names in the hierarchical scope of that class
  name_types,        \* names of classes, which the tokenizer no longer reads as names
  broken             \* the current token starts no statement and closes no block

tables == <<symbol_table, declared_in, symbols, post_parse_table>>
vars == <<tables, alive, free_scope_id, free_symbol_id, frames, func, class,
          members, name_types, broken>>

Kinds == {"parameters", "body", "then", "while", "else"}
Undo == [name : Names, previous : SymbolIds \cup {None}]
NoFunc == [name |-> NoName, symbol |-> None, member |-> FALSE]

Init ==
  /\ symbol_table = [x \in Names |-> None]
  /\ declared_in = [d \in SymbolIds |-> NoScope]
  /\ symbols = [s \in ScopeIds |-> <<>>]
  /\ post_parse_table = [s \in ScopeIds |-> [x \in Names |-> None]]
  /\ alive = <<Global>>
  /\ free_scope_id = Global + 1
  /\ free_symbol_id = 1
  /\ frames = <<>>
  /\ func = NoFunc
  /\ class = NoName
  /\ members = {}
  /\ name_types = {}
  /\ broken = FALSE

-----------------------------------------------------------------------------
(* LexicalScope. *)

IsDeclValid(x, s) ==
  symbol_table[x] # None => declared_in[symbol_table[x]] # s

HasDecl(x) == symbol_table[x] # None

(* Faulty: every declaration looks like the first of its name. *)
PreviousForgotten(x) == None

Previous(x) == symbol_table[x]

RegisterDecl(x, s, d) ==
  IF IsDeclValid(x, s)
  THEN /\ symbol_table' = [symbol_table EXCEPT ![x] = d]
       /\ declared_in' = [declared_in EXCEPT ![d] = s]
       /\ symbols' = [symbols EXCEPT ![s] =
                        Append(@, [name |-> x, previous |-> Previous(x)])]
       /\ post_parse_table' = [post_parse_table EXCEPT ![s][x] = d]
  ELSE UNCHANGED tables

(* The declarations of x in scope s, as positions in its symbols_. *)
DeclsOf(x, s) == {i \in DOMAIN symbols[s] : symbols[s][i].name = x}

(* Faulty: erases a hidden name instead of putting it back. *)
UndoErases(s) ==
  [x \in Names |-> IF DeclsOf(x, s) = {} THEN symbol_table[x] ELSE None]

(* UndoTables runs through symbols_ in order, so the last entry of a name   *)
(* decides.                                                                 *)
UndoTables(s) ==
  [x \in Names |-> IF DeclsOf(x, s) = {} THEN symbol_table[x]
                   ELSE symbols[s][Max(DeclsOf(x, s))].previous]

-----------------------------------------------------------------------------
(* ScopeManager and CompilationUnit. *)

current_scope == alive[Len(alive)]

FreeScopeId == free_scope_id

NewNestedScope ==
  /\ free_scope_id <= MaxScopes
  /\ free_scope_id' = free_scope_id + 1
  /\ alive' = Append(alive, FreeScopeId)

(* Faulty: leaves the scope without undoing its declarations. *)
RestoreScopePointer ==
  /\ alive' = SubSeq(alive, 1, Len(alive) - 1)
  /\ UNCHANGED tables

RestoreScope ==
  /\ symbol_table' = UndoTables(current_scope)
  /\ alive' = SubSeq(alive, 1, Len(alive) - 1)
  /\ UNCHANGED <<declared_in, symbols, post_parse_table>>

(* Faulty: increments before the value is taken. *)
PreIncrementedId == free_symbol_id + 1

FreeSymbolId == free_symbol_id

TakeSymbolId ==
  /\ free_symbol_id <= MaxSymbols
  /\ free_symbol_id' = free_symbol_id + 1

-----------------------------------------------------------------------------
(* The parser. *)

AtTopLevel == frames = <<>> /\ class = NoName
AtMember == frames = <<>> /\ class # NoName
Frame == frames[Len(frames)]
InFrame(kinds) == frames # <<>> /\ Frame.kind \in kinds
scope_inht == Frame.scope
Push(kind) == Append(frames, [kind |-> kind, scope |-> FreeScopeId])
Popped == SubSeq(frames, 1, Len(frames) - 1)
Blocks == {"body", "then", "while", "else"}

(* ParseFuncDef up to its parameter list, of a function or of a member      *)
(* function.                                                                *)
OpenFunction(x, member) ==
  /\ IF member THEN AtMember ELSE AtTopLevel
  /\ ~broken
  /\ NewNestedScope
  /\ TakeSymbolId
  /\ frames' = Push("parameters")
  /\ func' = [name |-> x, symbol |-> FreeSymbolId, member |-> member]
  /\ UNCHANGED <<tables, class, members, name_types, broken>>

(* BuildNameDecl, of a parameter or of a local variable. *)
DeclareName(x) ==
  /\ InFrame(Kinds)
  /\ ~broken
  /\ Frame.kind = "parameters" /\ x = func.name => OwnNameParams
  /\ IsDeclValid(x, scope_inht)
  /\ TakeSymbolId
  /\ RegisterDecl(x, scope_inht, FreeSymbolId)
  /\ UNCHANGED <<alive, free_scope_id, frames, func, class, members, name_types, broken>>

(* BuildVar: outside classes, an undeclared name is declared on its use. *)
UseUndeclared(x) ==
  /\ InFrame(Blocks)
  /\ ~broken
  /\ ~HasDecl(x)
  /\ ~func.member
  /\ IsDeclValid(x, scope_inht)
  /\ TakeSymbolId
  /\ RegisterDecl(x, scope_inht, FreeSymbolId)
  /\ UNCHANGED <<alive, free_scope_id, frames, func, class, members, name_types, broken>>

(* ParseFuncDef after the parameter list: the function itself is declared,  *)
(* in the scope it was found in, with its own scope already current.        *)
FuncDeclIsValid ==
  IF func.member THEN func.name \notin members ELSE IsDeclValid(func.name, Global)

EnterBody ==
  /\ InFrame({"parameters"})
  /\ FuncDeclIsValid
  /\ frames' = Append(Popped, [kind |-> "body", scope |-> scope_inht])
  /\ IF func.member
     THEN members' = members \cup {func.name} /\ UNCHANGED tables
     ELSE RegisterDecl(func.name, Global, func.symbol) /\ UNCHANGED members
  /\ UNCHANGED <<alive, free_scope_id, free_symbol_id, func, class, name_types, broken>>

(* ParseFuncDef returns early on a function defined twice. *)
DuplicateFunction ==
  /\ LeakyErrors
  /\ InFrame({"parameters"})
  /\ ~FuncDeclIsValid
  /\ frames' = Popped
  /\ func' = NoFunc
  /\ UNCHANGED <<tables, alive, free_scope_id, free_symbol_id, class, members, name_types, broken>>

(* Stmt and IfElse: the block of an if, while or else. *)
OpenBlock(kind) ==
  /\ InFrame(Blocks)
  /\ ~broken
  /\ NewNestedScope
  /\ frames' = Push(kind)
  /\ UNCHANGED <<tables, free_symbol_id, func, class, members, name_types, broken>>

(* The closing brace of a block or of a function body. *)
CloseBlock ==
  /\ InFrame(Blocks)
  /\ ~broken
  /\ RestoreScope
  /\ frames' = Popped
  /\ func' = IF Frame.kind = "body" THEN NoFunc ELSE func
  /\ UNCHANGED <<free_scope_id, free_symbol_id, class, members, name_types, broken>>

(* Stmts finds a token that neither starts a statement nor closes the block *)
(* and consumes nothing: every activation up to the function fails.         *)
BreakBlock ==
  /\ LeakyErrors
  /\ InFrame(Blocks)
  /\ ~broken
  /\ broken' = TRUE
  /\ UNCHANGED <<tables, alive, free_scope_id, free_symbol_id, frames, func, class, members, name_types>>

(* Stmt gives up an if or a while without restoring the scope it opened. *)
AbandonBlock ==
  /\ broken
  /\ InFrame({"then", "while"})
  /\ frames' = Popped
  /\ UNCHANGED <<tables, alive, free_scope_id, free_symbol_id, func, class, members, name_types, broken>>

(* IfElse and ParseFuncDef report the error and restore. *)
CloseBroken ==
  /\ broken
  /\ InFrame({"else", "body"})
  /\ RestoreScope
  /\ frames' = Popped
  /\ func' = IF Frame.kind = "body" THEN NoFunc ELSE func
  /\ UNCHANGED <<free_scope_id, free_symbol_id, class, members, name_types, broken>>

(* ClassDef_ up to its member list; `class' is the one token that starts no *)
(* statement and that DefList goes on from.                                 *)
OpenClass(x) ==
  /\ AtTopLevel
  /\ IsDeclValid(x, Global)
  /\ free_scope_id <= MaxScopes
  /\ free_scope_id' = free_scope_id + 1
  /\ class' = x
  /\ members' = {}
  /\ broken' = FALSE
  /\ UNCHANGED <<tables, alive, free_symbol_id, frames, func, name_types>>

(* Member: a data member. *)
DeclareMember(x) ==
  /\ AtMember
  /\ ~broken
  /\ x \notin members
  /\ TakeSymbolId
  /\ members' = members \cup {x}
  /\ UNCHANGED <<tables, alive, free_scope_id, frames, func, class, name_types, broken>>

(* ClassDef_ goes on to declare the class even when its member list failed. *)
CloseClass ==
  /\ AtMember
  /\ TakeSymbolId
  /\ RegisterDecl(class, Global, FreeSymbolId)
  /\ class' = NoName
  /\ members' = {}
  /\ name_types' = name_types \cup {class}
  /\ UNCHANGED <<alive, free_scope_id, frames, func, broken>>

Next ==
  \/ \E x \in Names \ name_types :
       \/ \E member \in BOOLEAN : OpenFunction(x, member)
       \/ DeclareName(x)
       \/ UseUndeclared(x)
       \/ OpenClass(x)
       \/ DeclareMember(x)
  \/ \E kind \in {"then", "while", "else"} : OpenBlock(kind)
  \/ EnterBody
  \/ DuplicateFunction
  \/ CloseBlock
  \/ BreakBlock
  \/ AbandonBlock
  \/ CloseBroken
  \/ CloseClass

Spec == Init /\ [][Next]_vars

-----------------------------------------------------------------------------
(* Properties. *)

TypeOK ==
  /\ symbol_table \in [Names -> SymbolIds \cup {None}]
  /\ declared_in \in [SymbolIds -> ScopeIds \cup {NoScope}]
  /\ symbols \in [ScopeIds -> Seq(Undo)]
  /\ post_parse_table \in [ScopeIds -> [Names -> SymbolIds \cup {None}]]
  /\ alive \in Seq(ScopeIds) \ {<<>>}
  /\ free_scope_id \in 1..(MaxScopes + 1)
  /\ free_symbol_id \in 1..(MaxSymbols + 1)
  /\ frames \in Seq([kind : Kinds, scope : ScopeIds])
  /\ func \in [name : Names, symbol : SymbolIds, member : BOOLEAN] \cup {NoFunc}
  /\ class \in Names \cup {NoName}
  /\ members \in SUBSET Names
  /\ name_types \in SUBSET Names
  /\ broken \in BOOLEAN

(* UndoTables erases the name of every declaration that hid nothing with    *)
(* `symbol_table_.erase(symbol_table_.find(name))', which is undefined when *)
(* the name is not in the table.  Whatever the parser does to the scopes,   *)
(* leaked ones and redeclared names included, the name is there: it is in   *)
(* the table when the undoing starts, or an earlier declaration of the same *)
(* scope has just put it back.                                              *)
EraseFindsItsName(s, i) ==
  LET x == symbols[s][i].name
      earlier == {j \in DeclsOf(x, s) : j < i}
  IN IF earlier = {} THEN HasDecl(x) ELSE symbols[s][Max(earlier)].previous # None

UndoFindsItsNames ==
  \A i \in DOMAIN symbols[current_scope] :
    symbols[current_scope][i].previous = None => EraseFindsItsName(current_scope, i)

(* The scopes a reader of the program sees at this point. *)
ScopesInView == <<Global>> \o [i \in DOMAIN frames |-> frames[i].scope]

Chain == INSTANCE ScopeChain WITH
           Symbols <- SymbolIds,
           chain <- [i \in DOMAIN ScopesInView |-> post_parse_table[ScopesInView[i]]],
           visible <- symbol_table

(* The one shared table, kept up to date by declaring and undoing, is block *)
(* scoping: what a name means is what the nearest scope in view says, and   *)
(* leaving a scope brings back what it hid.                                 *)
IsScopeChain == Chain!Spec

(* "within current scope lookup by name gives the nearest scope definition  *)
(* of the symbol" (DACOMPILER/doc/SymbolTable.txt).                         *)
NearestDefinition ==
  symbol_table =
    Chain!Nearest([i \in DOMAIN ScopesInView |-> post_parse_table[ScopesInView[i]]])

(* Between two top level definitions nothing of the functions parsed so far *)
(* is left: the scope that is current is the global one and the table holds *)
(* its definitions ("When parsing ends, the only scope alive is the global  *)
(* scope, and the only definitions there are the module's functions",       *)
(* SymbolTable.txt).                                                        *)
NothingLeftBehind ==
  frames = <<>> => alive = <<Global>> /\ symbol_table = post_parse_table[Global]

===============================================================================
