------------------------------ MODULE Grammars ------------------------------
(***************************************************************************)
(* The grammars the tools are run on, as their sources build them          *)
(* (Common/src/lib/grammars): the registered terminals and nonterminals,   *)
(* the rules in the order of their registration (the first is the starting *)
(* rule), and the function that is called last: Analyze computes the sets, *)
(* BuildTables the LR tables as well.  A symbol is the name it is compared *)
(* by, written shorter where the name plays no part; `order' lists the     *)
(* symbols of the grammars tables are built for in the order of names.     *)
(***************************************************************************)
EXTENDS Naturals, Sequences

Empty == "EMPTY"
Eof == "EOF"
StackTop == "STACKTOP"

(* A rule: its head and the symbols derived from it. *)
Rule(head, derived) == [head |-> head, derived |-> derived]

(* The helper every grammar starts with registers the empty word and the   *)
(* end of the input as terminals.                                          *)
Grammar(terminals, nonterminals, rules, order) ==
    [terminals |-> terminals \cup {Empty, Eof}, nonterminals |-> nonterminals,
     rules |-> rules, order |-> order]

(***************************************************************************)
(* Nested pairs of parentheses: the grammar of the LR(1) tests.            *)
(***************************************************************************)
Pars == Grammar({"LPAR", "RPAR"}, {"PROG", "LIST", "PAIR"},
    << Rule("PROG", <<"LIST">>),
       Rule("LIST", <<"LIST", "PAIR">>), Rule("LIST", <<"PAIR">>),
       Rule("PAIR", <<"LPAR", "PAIR", "RPAR">>), Rule("PAIR", <<"LPAR", "RPAR">>) >>,
    <<"EMPTY", "EOF", "LIST", "LPAR", "PAIR", "PROG", "RPAR", "STACKTOP">>)

(* The example of the LALR tests. *)
Dragon == Grammar({"c", "d"}, {"S'", "S", "C"},
    << Rule("S'", <<"S">>), Rule("S", <<"C", "C">>),
       Rule("C", <<"c", "C">>), Rule("C", <<"d">>) >>,
    <<"C", "EMPTY", "EOF", "S", "S'", "STACKTOP", "c", "d">>)

(* Written for control flow and never finished: no rule has the head STMTS. *)
ControlFlow == Grammar({"LPAR", "RPAR"}, {"PROG", "STMTS"},
    << Rule("PROG", <<"STMTS">>) >>,
    <<"EMPTY", "EOF", "LPAR", "PROG", "RPAR", "STACKTOP", "STMTS">>)

(* Expressions; the nonterminal T' is used and never registered. *)
Expr == Grammar({"LPAR", "RPAR", "PLUS", "MINU", "MULT", "DIVI", "NUM", "NAM"},
                {"PROG", "E", "E'", "T", "F"},
    << Rule("PROG", <<"E">>),
       Rule("E", <<"T", "E'">>), Rule("E'", <<"PLUS", "T", "E'">>),
       Rule("E'", <<"MINU", "T", "E'">>), Rule("E'", <<Empty>>),
       Rule("T", <<"F", "T''">>), Rule("T''", <<"MULT", "F", "T''">>),
       Rule("T''", <<"DIVI", "F", "T''">>), Rule("T''", <<Empty>>),
       Rule("F", <<"LPAR", "E", "RPAR">>), Rule("F", <<"NUM">>), Rule("F", <<"NAM">>) >>,
    <<>>)

ExprSimple == Grammar({"LPAR", "RPAR", "PLUS", "NUM"}, {"PROG", "E", "E'", "T", "F"},
    << Rule("PROG", <<"E">>),
       Rule("E", <<"T", "E'">>), Rule("E'", <<"PLUS", "T", "E'">>), Rule("E'", <<Empty>>),
       Rule("T", <<"F">>), Rule("F", <<"LPAR", "E", "RPAR">>), Rule("F", <<"NUM">>) >>,
    <<"E", "E'", "EMPTY", "EOF", "F", "LPAR", "NUM", "PLUS", "PROG", "RPAR", "STACKTOP", "T">>)

(***************************************************************************)
(* The language of the compiler.                                           *)
(***************************************************************************)
DalangTerminals ==
    {"semi", "comma", "lpar", "rpar", "plus", "minu", "astk", "div", "numr", "name",
     "lcbr", "rcbr", "equl", "lessthan", "equalto", "amps", "dot", "colon",
     "if", "else", "while", "return", "class", "int", "bool", "void", "ntype",
     "true", "false", "or", "and", "not"}

DalangNonterminals ==
    {"P", "DEFL", "FDEF", "CDEF", "MEMBER_LIST", "MEMBER", "INHT_LIST", "INHT_LISTP",
     "ARGL", "ARGLP", "PARL", "PARLP", "PAR", "STMTS", "STMT", "IFELSE", "DECL", "RETURN",
     "E", "EP", "AE", "AEP", "RE", "REP", "NE", "NEP", "T", "TP", "F", "NOT_E", "FP",
     "ARGM", "TYPE", "TYPEP", "NAME_LIST", "NAME_LISTP"}

DefinitionRules ==
    << Rule("P", <<"DEFL">>),
       Rule("DEFL", <<"FDEF", "DEFL">>), Rule("DEFL", <<"CDEF", "DEFL">>), Rule("DEFL", <<Empty>>),
       Rule("CDEF", <<"class", "name", "INHT_LIST", "lcbr", "MEMBER", "rcbr">>),
       Rule("MEMBER_LIST", <<"TYPE", "name", "MEMBER", "MEMBER_LIST">>), Rule("MEMBER_LIST", <<Empty>>),
       Rule("MEMBER", <<"semi">>),
       Rule("MEMBER", <<"lpar", "PARL", "rpar", "lcbr", "STMTS", "rcbr">>),
       Rule("INHT_LIST", <<"colon", "ntype", "INHT_LISTP">>), Rule("INHT_LIST", <<Empty>>),
       Rule("INHT_LISTP", <<"comma", "ntype", "INHT_LISTP">>), Rule("INHT_LISTP", <<Empty>>),
       Rule("FDEF", <<"TYPE", "name", "lpar", "PARL", "rpar", "lcbr", "STMTS", "rcbr">>),
       Rule("PARL", <<"PAR", "PARLP">>), Rule("PARL", <<Empty>>),
       Rule("PARLP", <<"comma", "PAR", "PARLP">>), Rule("PARLP", <<Empty>>),
       Rule("PAR", <<"TYPE", "name">>),
       Rule("ARGL", <<"E", "ARGLP">>), Rule("ARGL", <<Empty>>),
       Rule("ARGLP", <<"comma", "E", "ARGLP">>), Rule("ARGLP", <<Empty>>) >>

StatementRules ==
    << Rule("STMTS", <<"STMT", "STMTS">>), Rule("STMTS", <<Empty>>),
       Rule("STMT", <<"E", "equl", "E", "semi">>), Rule("STMT", <<"DECL", "semi">>),
       Rule("STMT", <<"if", "lpar", "E", "rpar", "lcbr", "STMTS", "rcbr", "IFELSE">>),
       Rule("STMT", <<"while", "lpar", "E", "rpar", "lcbr", "STMTS", "rcbr">>),
       Rule("STMT", <<"return", "E", "semi">>),
       Rule("IFELSE", <<"else", "lcbr", "STMTS", "rcbr">>), Rule("IFELSE", <<Empty>>),
       Rule("DECL", <<"TYPE", "NAME_LIST">>),
       Rule("TYPE", <<"int", "TYPEP">>), Rule("TYPE", <<"bool", "TYPEP">>),
       Rule("TYPE", <<"void", "TYPEP">>), Rule("TYPE", <<"ntype", "TYPEP">>),
       Rule("TYPEP", <<"astk">>), Rule("TYPEP", <<Empty>>),
       Rule("NAME_LIST", <<"name", "NAME_LISTP">>),
       Rule("NAME_LISTP", <<"comma", "name", "NAME_LISTP">>), Rule("NAME_LISTP", <<Empty>>) >>

ExpressionRules ==
    << Rule("E", <<"AE", "EP">>), Rule("EP", <<"or", "AE", "EP">>), Rule("EP", <<Empty>>),
       Rule("AE", <<"RE", "AEP">>), Rule("AEP", <<"and", "RE", "AEP">>), Rule("AEP", <<Empty>>),
       Rule("RE", <<"NE", "REP">>), Rule("REP", <<"lessthan", "NE", "REP">>),
       Rule("REP", <<"equalto", "NE", "REP">>), Rule("REP", <<Empty>>),
       Rule("NE", <<"T", "NEP">>), Rule("NEP", <<"plus", "T", "NEP">>), Rule("NEP", <<Empty>>),
       Rule("T", <<"F">>),
       Rule("F", <<"amps", "NOT_E">>), Rule("F", <<"astk", "NOT_E">>), Rule("F", <<"NOT_E">>),
       Rule("NOT_E", <<"not", "FP">>), Rule("NOT_E", <<"FP">>),
       Rule("FP", <<"lpar", "E", "rpar">>), Rule("FP", <<"numr">>), Rule("FP", <<"name", "ARGM">>),
       Rule("FP", <<"true">>), Rule("FP", <<"false">>),
       Rule("ARGM", <<Empty>>), Rule("ARGM", <<"lpar", "ARGL", "rpar">>),
       Rule("ARGM", <<"dot", "name", "ARGM">>) >>

Dalang == Grammar(DalangTerminals, DalangNonterminals,
                  DefinitionRules \o StatementRules \o ExpressionRules, <<>>)

=============================================================================
