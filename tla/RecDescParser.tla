---------------------------- MODULE RecDescParser ----------------------------
(***************************************************************************)
(* The parser of the compiler (ParserLL1RecDesc): one function for each    *)
(* nonterminal, which looks at one token.  A call is a frame: what the     *)
(* function has left to do, an item at a time, and how complete the nodes  *)
(* are it has collected.  A frame with nothing left to do is gone, so a    *)
(* function's last call takes its place.                                   *)
(* Scopes and the symbol table are left to LexicalScopes: whether a        *)
(* declaration, a name or a call fits what is declared is a choice, also   *)
(* after other errors: where a name is missing the functions go on with    *)
(* the name before.  What dereferences a null pointer, or asks a map for   *)
(* what it does not have, ends the parser (Die).                           *)
(***************************************************************************)
EXTENDS BaseParser

CONSTANT Texts          \* the files that are parsed

ASSUME TextsAssumption == Texts \subseteq Seq(STRING)

VARIABLES frames,                       \* the frame of the running function first
          made,                         \* what the last function that ended returns
          func_defs,                    \* functions that made it into the tree
          tree,                         \* how complete the definitions are
          ast,                          \* and the tree handed to the unit
          class_name_inht_, inside_member_function_definition_, defer_build_call_,
          parents,                      \* of the class that is read, by name
          null_members                  \* the kinds of its members that are null

treeVars == <<func_defs, tree, ast>>
classVars == <<class_name_inht_, parents, null_members>>
contextVars == <<classVars, inside_member_function_definition_, defer_build_call_>>
parserVars == <<frames, made, treeVars, contextVars>>
vars == <<baseVars, parserVars>>

(* A node is no node at all, has a null pointer below it, or is whole.  Of *)
(* a list nothing was collected yet.                                       *)
Null == 0
Holed == 1
Whole == 2
Nothing == 3
Lower(a, b) == IF a < b THEN a ELSE b

set_types_ == {"void", "int", "bool", "ntype"}
set_expr_ == {"amps", "astk", "false", "lpar", "name", "not", "numr", "true"}
set_stmts_ == {"if", "return", "while"} \cup set_types_ \cup set_expr_
set_ifelse_ == {"rcbr"} \cup set_stmts_
set_argm_before_comparisons == {"and", "comma", "equl", "or", "plus", "rpar", "semi"}
set_argm_ == {"and", "comma", "equalto", "equl", "lessthan", "or", "plus", "rpar", "semi"}

(* The levels of expressions: the function one level below, the operators, *)
(* the function that parses an operator's right side, and the tokens an    *)
(* expression of this level may end before.                                *)
Below == [Expr |-> "AndExpr", AndExpr |-> "RelExpr", RelExpr |-> "NumExpr", NumExpr |-> "Term"]
Operators == [Expr |-> {"or"}, AndExpr |-> {"and"}, RelExpr |-> {"lessthan", "equalto"},
              NumExpr |-> {"plus"}]
Operand == [Below EXCEPT !.RelExpr = "Term"]
delimiters == {"comma", "equl", "rpar", "semi"}
Delimiters == [Expr |-> delimiters, AndExpr |-> delimiters \cup {"or"},
               RelExpr |-> delimiters \cup {"or", "and"},
               NumExpr |-> delimiters \cup {"or", "and", "lessthan", "equalto"}]

-----------------------------------------------------------------------------
(* Items: the name of what to do and what it is done with.                 *)
Item(do, with) == [do |-> do, with |-> with]
Call(f) == Item("Call", f)              \* call a function
Pass(f) == Item("Pass", f)              \* the same, and hand it what was collected
Prime(f) == Item("Prime", f)            \* the primed function of a level, the same way
Operator(f) == Item("Operator", f)      \* the same if an operator follows
Take(t) == Item("Accept", t)            \* accept the token or report its absence
Need(t) == Item("Need", t)              \* without it return null
Try(t) == Item("Try", t)                \* accept the token when it is there
Expect(ts) == Item("Expect", ts)        \* look at it only; without it return null
Give(v) == Item("Give", v)              \* return a node
Recover(f) == Item("Recover", f)        \* skip a token and call, unless to stop
Fail == Item("Fail", 0)                 \* report an error
Missed == Item("Missed", 0)             \* report that a null was returned
Valid == Item("Valid", 0)               \* pass a null on
Unless == Item("Unless", 0)             \* return what is not null
Collect == Item("Collect", 0)           \* add the node that was returned
Build == Item("Build", 0)               \* return a node of what was collected
Fatal == Item("Fatal", 0)               \* report that a function has no body
BuildIf == Item("BuildIf", 0)           \* the same for an if, its else just returned
NoReturn == Item("NoReturn", 0)         \* leave a function without a return
Unreported(kind) == Item("Unreported", kind)    \* what is wrong and not reported
PlainType == Item("PlainType", 0)       \* a class's type, or a pointer to it
Declare(what) == Item("Declare", what)  \* check and register a declaration
BuildVar == Item("BuildVar", 0)         \* find the declaration of a name
Deferred(b) == Item("Deferred", b)      \* set defer_build_call_
Inside(b) == Item("Inside", b)          \* set inside_member_function_definition_
BuildCall(dotted) == Item("BuildCall", dotted)
ConsumeUntil(t) == Item("ConsumeUntil", t)
ClassName == Item("ClassName", 0)       \* accept the name of a class
Parent == Item("Parent", 0)             \* add the class whose type was returned
NewClassDecl == Item("NewClassDecl", 0) \* find the parents
NewClass == Item("NewClass", 0)         \* find the members; the name is a type now
KeepFunction == Item("KeepFunction", 0)
KeepMember(kind) == Item("KeepMember", kind)
Finish == Item("Finish", 0)             \* hand the tree to the unit
Begin == Item("Begin", 0)               \* look at the first token
Died == Item("Died", 0)                 \* nothing any more

Frame(todo, collected) == [todo |-> todo, collected |-> collected]
Top == Head(frames)
item == Head(Top.todo)
Done == frames = <<>>

Doing(do) == ~Done /\ item.do = do
Dead == Doing("Died")
Calling(f) == ~Done /\ item.do \in {"Call", "Pass"} /\ item.with = f

(* The frames once the running one goes on with the given items first.     *)
With(items, collected) ==
    LET todo == items \o Tail(Top.todo)
    IN  IF todo = <<>> THEN Tail(frames) ELSE <<Frame(todo, collected)>> \o Tail(frames)
Go(items) == frames' = With(items, Top.collected)
Return(v) == frames' = Tail(frames) /\ made' = v
Die == frames' = <<Frame(<<Died>>, Nothing)>> /\ UNCHANGED made

(* The body of a function on the token it is called at.                    *)
Enter(todo) ==
    /\ frames' = IF todo = <<>> THEN With(<<>>, Top.collected)
                 ELSE <<Frame(todo, IF item.do = "Call" THEN Nothing ELSE Top.collected)>>
                        \o With(<<>>, Top.collected)
    /\ UNCHANGED <<baseVars, made, treeVars, contextVars>>

-----------------------------------------------------------------------------
(* Definitions.  A function that is no function is left out, its errors    *)
(* reported; a member is listed even when it is null.                      *)
DefList ==
    /\ Calling("DefList")
    /\ Enter(CASE Check(set_types_)        -> <<Call("FuncDef_"), KeepFunction, Call("DefList")>>
               [] Check({"class"})         -> <<Call("ClassDef_"), Call("DefList")>>
               [] Check({"eof"})           -> <<>>
               [] OTHER                    -> <<Fail>>)

FuncDef_ ==
    /\ Calling("FuncDef_")
    /\ Enter(<<Call("Type"), Take("name"), Take("lpar"), Call("ParseFuncDef")>>)

ParseFuncDef ==
    /\ Calling("ParseFuncDef")
    /\ Enter(<<Call("ParList"), Take("rpar"), Declare("function"), Take("lcbr"), Call("Stmts"), Fatal,
               Collect, Take("rcbr"), Build>>)

(* After a comma the same: a parameter if there is a type, or nothing.     *)
ParList ==
    /\ Calling("ParList")
    /\ Enter(IF Check(set_types_)
             THEN <<Call("Type"), Call("NameDecl"), Valid, Call("ParListPrime")>> ELSE <<>>)

ParListPrime ==
    /\ Calling("ParListPrime")
    /\ Enter(IF Check({"rpar"}) THEN <<>> ELSE <<Take("comma"), Call("ParList")>>)

ClassDef_ ==
    /\ Calling("ClassDef_")
    /\ Enter(<<Need("class"), ClassName, Declare("class"), Call("InhtList"), NewClassDecl, Take("lcbr"),
               Call("MemberList"), Take("rcbr"), NewClass>>)

InhtList ==
    /\ Calling("InhtList")
    /\ Enter(IF Check({"colon"})
             THEN <<Take("colon"), Call("Type"), Parent, Call("InhtListPrime")>> ELSE <<>>)

InhtListPrime ==
    /\ Calling("InhtListPrime")
    /\ Enter(IF Check({"lcbr"}) THEN <<>>
             ELSE <<Need("comma"), Call("Type"), Parent, Call("InhtListPrime")>>)

MemberList ==
    /\ Calling("MemberList")
    /\ Enter(CASE Check({"rcbr"})     -> <<>>
               [] Check(set_types_)   -> <<Call("Type"), Take("name"), Expect({"semi", "lpar"}),
                                           Call("Member"), Call("MemberList")>>
               [] OTHER               -> <<Fail>>)

Member ==
    /\ Calling("Member")
    /\ Enter(IF Check({"semi"}) THEN <<Take("semi"), Call("BuildNameDecl"), KeepMember("variable")>>
             ELSE <<Take("lpar"), Inside(TRUE), Call("ParseFuncDef"), Inside(FALSE), KeepMember("function")>>)

(* The declaration of a member; NameDecl has its own.                      *)
BuildNameDecl ==
    /\ Calling("BuildNameDecl")
    /\ Enter(<<Declare("member"), Give(Whole)>>)

-----------------------------------------------------------------------------
(* Declarations.  Of a type the caller may ask whether it is a class's:    *)
(* it is when the function returns whole.                                  *)
Type ==
    /\ Calling("Type")
    /\ Enter(CASE Check({"void"})          -> <<Take("void"), Give(Null)>>
               [] Check({"int", "bool"})   -> <<Take(token_), Try("astk"), Give(Null)>>
               [] Check({"ntype"})         -> <<Take("ntype"), PlainType>>
               [] OTHER                    -> <<Fail, Give(Null)>>)

(* Without a name there is no return: what the caller then sees is not     *)
(* defined, and no error is reported.                                      *)
NameDecl ==
    /\ Calling("NameDecl")
    /\ Enter(IF Check({"name"}) THEN <<Take("name"), Declare("variable"), Give(Whole)>> ELSE <<Unreported("undefined"), NoReturn>>)

(* Tokens before the first name are skipped without an error.              *)
NameList ==
    /\ Calling("NameList")
    /\ Enter(IF Check({"name"})
             THEN <<Call("NameDecl"), Valid, Collect, Pass("NameListPrime"), Unless, Recover("NameList")>>
             ELSE <<Unreported("skipped"), Recover("NameList")>>)

(* A missing comma before a name is reported and put in.                   *)
NameListPrime ==
    /\ Calling("NameListPrime")
    /\ Enter(CASE Check({"comma"})   -> <<Take("comma"), Pass("NameAfterComma")>>
               [] Check({"name"})    -> <<Fail, Pass("NameAfterComma")>>
               [] OTHER              -> <<Pass("NameListEnd")>>)

NameAfterComma ==
    /\ Calling("NameAfterComma")
    /\ Enter(IF Check({"name"})
             THEN <<Call("NameDecl"), Valid, Collect, Pass("NameListPrime"), Unless, Pass("NameListEnd")>>
             ELSE <<Pass("NameListEnd")>>)

NameListEnd ==
    /\ Calling("NameListEnd")
    /\ Enter(IF Check({"semi"}) THEN <<Build>> ELSE <<Fail, Recover("NameListPrime")>>)

-----------------------------------------------------------------------------
(* Statements.  Both functions go on when the parser is to stop.           *)
Stmts ==
    /\ Calling("Stmts")
    /\ Enter(IF Check(set_stmts_) THEN <<Call("Stmt"), Collect, Pass("Stmts")>>
             ELSE <<Expect({"rcbr"}), Build>>)

IfStmt ==
    /\ Calling("Stmt") /\ Check({"if"})
    /\ Enter(<<Take("if"), Need("lpar"), Call("Expr"), Missed, Collect, Need("rpar"), Need("lcbr"),
               Call("Stmts"), Missed, Valid, Collect, Need("rcbr"), Call("IfElse"), BuildIf>>)

WhileStmt ==
    /\ Calling("Stmt") /\ Check({"while"})
    /\ Enter(<<Take("while"), Need("lpar"), Call("Expr"), Missed, Collect, Need("rpar"), Need("lcbr"),
               Call("Stmts"), Missed, Valid, Collect, Need("rcbr"), Build>>)

DeclStmt ==
    /\ Calling("Stmt") /\ Check(set_types_)
    /\ Enter(<<Call("Type"), Call("NameList"), Collect, Take("semi"), Build>>)

AssignStmtTrySemicolon ==
    /\ Calling("Stmt") /\ Check(set_expr_)
    /\ Enter(<<Call("Expr"), Collect, Need("equl"), Call("Expr"), Collect, Try("semi"), Build>>)
AssignStmt ==
    /\ Calling("Stmt") /\ Check(set_expr_)
    /\ Enter(<<Call("Expr"), Collect, Need("equl"), Call("Expr"), Collect, Take("semi"), Build>>)

ReturnStmt ==
    /\ Calling("Stmt") /\ Check({"return"})
    /\ Enter(<<Take("return"), Call("Expr"), Collect, Take("semi"), Build>>)

IfElse ==
    /\ Calling("IfElse")
    /\ Enter(IF ~continue_parsing_ THEN <<Give(Null)>>
             ELSE IF Check({"else"})
             THEN <<Take("else"), Take("lcbr"), Call("Stmts"), Missed, Collect, Take("rcbr"), Build>>
             ELSE <<Expect(set_ifelse_), Give(Null)>>)

-----------------------------------------------------------------------------
(* Expressions, the same on every level but for the tables above.          *)
Level ==
    /\ ~Done /\ item.do = "Call" /\ item.with \in DOMAIN Below
    /\ Enter(<<Call(Below[item.with]), Collect, Valid, Operator(item.with)>>)

ExprPrime ==
    /\ Doing("Prime")
    /\ LET f == item.with
       IN  Enter(IF Check(Operators[f])
                 THEN <<Take(token_), Call(Operand[f]), Collect, Prime(f), Missed>>
                 ELSE <<Expect(Delimiters[f]), Build>>)

Factor ==
    /\ Calling("Term") \/ Calling("Factor")
    /\ Enter(IF Check({"astk", "amps"}) THEN <<Take(token_), Call("FactorPrime")>>
                                        ELSE <<Call("FactorPrime")>>)

FactorPrime ==
    /\ Calling("FactorPrime")
    /\ Enter(CASE Check({"numr", "true", "false"}) -> <<Take(token_), Give(Whole)>>
               [] Check({"name"})                  -> <<Take("name"), BuildVar, Call("Argm")>>
               [] Check({"lpar"})                  -> <<Take("lpar"), Call("Expr"), Collect,
                                                        Take("rpar"), Build>>
               [] OTHER                            -> <<Fail, Recover("Factor")>>)

(* The arguments of a call are followed by building it; behind a dot the   *)
(* name called is a member's.                                              *)
Argm ==
    /\ Calling("Argm") \/ Calling("ArgmOfMember")
    /\ Enter(CASE Check(set_argm_)   -> <<Give(Whole)>>
               [] Check({"lpar"})    -> <<Take("lpar"), Deferred(TRUE), Call("ArgList"),
                                          BuildCall(item.with = "ArgmOfMember"), Collect,
                                          Take("rpar"), Deferred(FALSE), Build>>
               [] Check({"dot"})     -> <<Take("dot"), Need("name"), Call("ArgmOfMember")>>
               [] OTHER              -> <<Fail, Give(Null)>>)

ArgList ==
    /\ Calling("ArgList")
    /\ Enter(IF Check({"rpar"}) THEN <<>> ELSE <<Call("Argument")>>)

ArgListPrime ==
    /\ Calling("ArgListPrime")
    /\ Enter(CASE Check({"rpar"})    -> <<>>
               [] Check({"comma"})   -> <<Take("comma"), Call("Argument")>>
               [] OTHER              -> <<Fail, ConsumeUntil("rpar")>>)

Argument ==
    /\ Calling("Argument")
    /\ Enter(IF Check(set_expr_) THEN <<Call("Expr"), Call("ArgListPrime")>>
                                 ELSE <<Fail, ConsumeUntil("rpar")>>)

-----------------------------------------------------------------------------
(* Items that look at the token.                                           *)
ReadFirst == Doing("Begin") /\ NextToken /\ Go(<<>>) /\ UNCHANGED <<made, treeVars, contextVars>>

AcceptToken ==
    /\ Doing("Accept")
    /\ Accept(item.with)
    /\ Go(<<>>) /\ UNCHANGED <<made, treeVars, contextVars>>

NeedToken ==
    /\ Doing("Need")
    /\ Accept(item.with)
    /\ IF Check({item.with}) THEN Go(<<>>) /\ UNCHANGED made ELSE Return(Null)
    /\ UNCHANGED <<treeVars, contextVars>>

TryToken ==
    /\ Doing("Try")
    /\ TryAndAccept(item.with)
    /\ Go(<<>>) /\ UNCHANGED <<made, treeVars, contextVars>>

ExpectToken ==
    /\ Doing("Expect")
    /\ AcceptEmpty(item.with)
    /\ IF Check(item.with) THEN Go(<<>>) /\ UNCHANGED made ELSE Return(Null)
    /\ UNCHANGED <<treeVars, contextVars>>

(* The parser's way out of an error: the token is skipped and the function *)
(* tried again, as long as parsing is to go on.                            *)
RecoverAlways ==
    /\ Doing("Recover")
    /\ NextToken /\ Go(<<Pass(item.with)>>)
    /\ UNCHANGED <<made, treeVars, contextVars>>
RecoverOrStop ==
    /\ Doing("Recover")
    /\ IF continue_parsing_ THEN NextToken /\ Go(<<Pass(item.with)>>) /\ UNCHANGED made
                            ELSE Return(Null) /\ UNCHANGED baseVars
    /\ UNCHANGED <<treeVars, contextVars>>

ConsumeTokensUntil ==
    /\ Doing("ConsumeUntil")
    /\ IF ~Check({item.with}) /\ continue_parsing_ THEN NextToken /\ UNCHANGED frames
                                                   ELSE Go(<<>>) /\ UNCHANGED baseVars
    /\ UNCHANGED <<made, treeVars, contextVars>>

PlainTypeOrPointer ==
    /\ Doing("PlainType")
    /\ TryAndAccept("astk")
    /\ Return(IF Check({"astk"}) THEN Null ELSE Whole)
    /\ UNCHANGED <<treeVars, contextVars>>

EndOperands ==
    /\ Doing("Operator")
    /\ IF Check(Operators[item.with]) THEN Go(<<Prime(item.with)>>) /\ UNCHANGED made
                                      ELSE Return(Top.collected)
    /\ UNCHANGED <<baseVars, treeVars, contextVars>>

-----------------------------------------------------------------------------
(* Items that report.                                                      *)
ReportError ==
    /\ Doing("Fail") \/ Doing("Missed")
    /\ IF item.do = "Missed" /\ made # Null THEN UNCHANGED baseVars ELSE Error("syntax")
    /\ Go(<<>>) /\ UNCHANGED <<made, treeVars, contextVars>>

ReportNoBody ==
    /\ Doing("Fatal")
    /\ IF made = Null THEN FatalError ELSE UNCHANGED baseVars
    /\ Go(<<>>) /\ UNCHANGED <<made, treeVars, contextVars>>

DeclarationFits ==
    /\ Doing("Declare")
    /\ Go(<<>>) /\ UNCHANGED <<baseVars, made, treeVars, contextVars>>
DeclarationClashes ==
    /\ Doing("Declare")
    /\ Error("meaning") /\ Return(Null) /\ UNCHANGED <<treeVars, contextVars>>

(* The name of a member that an ancestor has is found there, and its       *)
(* symbol looked for among the class's own, where it is null.              *)
DeclarationIsInherited ==
    /\ Doing("Declare") /\ parents # {}
    /\ item.with = "member" \/ (item.with = "function" /\ inside_member_function_definition_)
    /\ Die /\ UNCHANGED <<baseVars, treeVars, contextVars>>

(* In a member function any name may be a member's that is still to come.  *)
NameKnown ==
    /\ Doing("BuildVar")
    /\ Go(<<>>) /\ UNCHANGED <<baseVars, made, treeVars, contextVars>>
NameUnknown ==
    /\ Doing("BuildVar") /\ ~inside_member_function_definition_
    /\ Error("meaning")
    /\ Go(<<>>) /\ UNCHANGED <<made, treeVars, contextVars>>

(* A call is left to a later pass unless a call among its arguments has    *)
(* cleared the flag.  Then the callee's type is asked for, which behind a  *)
(* dot is the object's; too few arguments undo the call, too many do not.  *)
BuildFunctionCall ==
    /\ Doing("BuildCall")
    /\ \/ /\ defer_build_call_ \/ ~item.with
          /\ made' = Whole /\ UNCHANGED baseVars
       \/ /\ ~defer_build_call_
          /\ Error("meaning")
          /\ made' \in IF item.with THEN {Null} ELSE {Null, Whole}
    /\ Go(<<>>) /\ UNCHANGED <<treeVars, contextVars>>

LeaveUnreported ==
    /\ Doing("Unreported")
    /\ blamed' = IF blamed = "none" THEN item.with ELSE blamed
    /\ Go(<<>>)
    /\ UNCHANGED <<text, scanVars, name_types_, num_errors_, num_fatal_errors_, continue_parsing_,
                   made, treeVars, contextVars>>

LeaveWithoutReturn ==
    /\ Doing("NoReturn")
    /\ \E v \in {Null, Whole} : Return(v)
    /\ UNCHANGED <<baseVars, treeVars, contextVars>>

-----------------------------------------------------------------------------
(* Items that make nodes.  A node is not made when one it is made of is    *)
(* null; only an if with an else is made without looking.                  *)
GiveNode ==
    /\ Doing("Give")
    /\ Return(item.with) /\ UNCHANGED <<baseVars, treeVars, contextVars>>

PassNullOn ==
    /\ Doing("Valid")
    /\ IF made = Null THEN Return(Null) ELSE Go(<<>>) /\ UNCHANGED made
    /\ UNCHANGED <<baseVars, treeVars, contextVars>>

ReturnUnlessNull ==
    /\ Doing("Unless")
    /\ IF made # Null THEN Return(made) ELSE Go(<<>>) /\ UNCHANGED made
    /\ UNCHANGED <<baseVars, treeVars, contextVars>>

CollectNode ==
    /\ Doing("Collect")
    /\ frames' = With(<<>>, Lower(Top.collected, made))
    /\ UNCHANGED <<baseVars, made, treeVars, contextVars>>

NewNodeOfAnything(collected) ==
    CASE collected = Nothing -> Null [] collected = Null -> Holed [] OTHER -> collected
NewNode(collected) == IF collected = Nothing THEN Null ELSE collected
BuildNode ==
    /\ Doing("Build")
    /\ Return(NewNode(Top.collected)) /\ UNCHANGED <<baseVars, treeVars, contextVars>>

NewIfStmt(parts, otherwise) ==
    IF otherwise = Null THEN parts ELSE IF parts = Null THEN Holed ELSE Lower(parts, otherwise)
BuildIfNode ==
    /\ Doing("BuildIf")
    /\ Return(NewIfStmt(Top.collected, made)) /\ UNCHANGED <<baseVars, treeVars, contextVars>>

(* What is kept of the definitions, and the tree in the end.               *)
KeepDefinition ==
    /\ Doing("KeepFunction")
    /\ IF made = Null THEN UNCHANGED <<tree, func_defs>>
       ELSE tree' = Lower(tree, made) /\ func_defs' = 1
    /\ Go(<<>>) /\ UNCHANGED <<baseVars, made, ast, contextVars>>

KeepClassMember ==
    /\ Doing("KeepMember")
    /\ IF made = Null THEN null_members' = null_members \cup {item.with} /\ UNCHANGED tree
       ELSE tree' = Lower(tree, made) /\ UNCHANGED null_members
    /\ Go(<<>>)
    /\ UNCHANGED <<baseVars, made, func_defs, ast, class_name_inht_, parents,
                   inside_member_function_definition_, defer_build_call_>>

EndProg ==
    /\ Doing("Finish")
    /\ LET missing == (IF func_defs = 0 THEN 1 ELSE 0) + num_fatal_errors_
           more == IF missing = 0 /\ ~Check({"eof"}) THEN 1 ELSE 0
       IN  /\ IF missing + more > 0
              THEN Report(missing + more, "syntax", TRUE) /\ UNCHANGED num_fatal_errors_
              ELSE UNCHANGED errorVars
           /\ ast' = IF missing > 0 THEN Null ELSE tree
    /\ Go(<<>>) /\ UNCHANGED <<text, scanVars, name_types_, made, func_defs, tree, contextVars>>

-----------------------------------------------------------------------------
(* What the functions keep outside of their calls.                         *)
SetDeferred ==
    /\ Doing("Deferred")
    /\ defer_build_call_' = item.with
    /\ Go(<<>>)
    /\ UNCHANGED <<baseVars, made, treeVars, classVars, inside_member_function_definition_>>

SetInside ==
    /\ Doing("Inside")
    /\ inside_member_function_definition_' = item.with
    /\ Go(<<>>) /\ UNCHANGED <<baseVars, made, treeVars, classVars, defer_build_call_>>

AcceptClassName ==
    /\ Doing("ClassName")
    /\ Accept("name")
    /\ class_name_inht_' = IF Check({"name"}) THEN prev_token_string_value_'
                           ELSE <<"class_name_not_parsed">>
    /\ parents' = {} /\ null_members' = {}
    /\ Go(<<>>)
    /\ UNCHANGED <<made, treeVars, inside_member_function_definition_, defer_build_call_>>

AddParent ==
    /\ Doing("Parent")
    /\ IF made = Null THEN Error("syntax") /\ UNCHANGED parents
       ELSE parents' = parents \cup {prev_token_string_value_} /\ UNCHANGED baseVars
    /\ Go(<<>>)
    /\ UNCHANGED <<made, treeVars, class_name_inht_, null_members, inside_member_function_definition_,
                   defer_build_call_>>

(* A type at the end of the file is taken for the name before it, which    *)
(* need not be a class.                                                    *)
FindParents ==
    /\ Doing("NewClassDecl")
    /\ IF parents \subseteq name_types_ THEN Go(<<>>) /\ UNCHANGED made ELSE Die
    /\ UNCHANGED <<baseVars, treeVars, contextVars>>

(* The members are looked up by their nodes.  A function without a body    *)
(* was entered with a null one, a variable has no name then.               *)
IsNeverFound(kind) == FALSE
IsFound(kind) == kind = "function" /\ num_fatal_errors_ > 0

(* The token after the class was scanned before its name became a type.    *)
EndClass ==
    /\ Doing("NewClass")
    /\ RegNameType(class_name_inht_)
    /\ IF \A kind \in null_members : IsFound(kind)
       THEN /\ tree' = IF null_members = {} THEN tree ELSE Lower(tree, Holed)
            /\ Go(<<>>) /\ UNCHANGED made
       ELSE Die /\ UNCHANGED tree
    /\ UNCHANGED <<func_defs, ast, contextVars>>

-----------------------------------------------------------------------------
Init ==
    /\ BaseInit(Texts)
    /\ frames = <<Frame(<<Begin, Call("DefList"), Finish>>, Nothing)>>
    /\ made = Null
    /\ func_defs = 0 /\ tree = Nothing /\ ast = Null
    /\ class_name_inht_ = <<>> /\ parents = {} /\ null_members = {}
    /\ inside_member_function_definition_ = FALSE /\ defer_build_call_ = FALSE

Definitions == DefList \/ FuncDef_ \/ ParseFuncDef \/ ParList \/ ParListPrime \/ ClassDef_
                 \/ InhtList \/ InhtListPrime \/ MemberList \/ Member \/ BuildNameDecl
Declarations == Type \/ NameDecl \/ NameList \/ NameListPrime \/ NameAfterComma \/ NameListEnd
Statements == Stmts \/ IfStmt \/ WhileStmt \/ DeclStmt \/ AssignStmt \/ ReturnStmt \/ IfElse
Expressions == Level \/ ExprPrime \/ Factor \/ FactorPrime \/ Argm \/ ArgList \/ ArgListPrime \/ Argument
Tokens == ReadFirst \/ AcceptToken \/ NeedToken \/ TryToken \/ ExpectToken \/ RecoverOrStop
            \/ ConsumeTokensUntil \/ PlainTypeOrPointer \/ EndOperands
Reports == ReportError \/ ReportNoBody \/ DeclarationFits \/ DeclarationClashes
             \/ DeclarationIsInherited \/ NameKnown \/ NameUnknown \/ BuildFunctionCall
             \/ LeaveUnreported \/ LeaveWithoutReturn
Nodes == GiveNode \/ PassNullOn \/ ReturnUnlessNull \/ CollectNode \/ BuildNode \/ BuildIfNode
           \/ KeepDefinition \/ KeepClassMember \/ EndProg
Context == SetDeferred \/ SetInside \/ AcceptClassName \/ AddParent \/ FindParents \/ EndClass

Parse == Definitions \/ Declarations \/ Statements \/ Expressions \/ Tokens \/ Reports \/ Nodes \/ Context
Next == Parse \/ ((Done \/ Dead) /\ UNCHANGED vars)

(* One thread runs the parser: it takes its next step as long as there is  *)
(* one.                                                                    *)
Fairness == WF_vars(Parse)
Spec == Init /\ [][Next]_vars /\ Fairness

=============================================================================
