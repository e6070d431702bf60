--------------------------- MODULE ParserSentences ---------------------------
(***************************************************************************)
(* The recursive descent parser beside a recogniser of its language that   *)
(* is told by the grammar alone: a stack of symbols, the next one to come  *)
(* on top.  For every token the parser takes from the file, a nonterminal  *)
(* on top is replaced by its rule that the token predicts.                 *)
(***************************************************************************)
EXTENDS RecDescParser, Derivations

VARIABLE expected       \* the symbols that are to come, or Stuck

Stuck == <<"stuck">>
sentenceVars == <<vars, expected>>

(***************************************************************************)
(* Two grammars of the language: the one that is written down (grammar.txt *)
(* and, but for the members of a class, grammar_dalang.cpp), and the one   *)
(* the functions follow.  The functions ask for a statement in every block *)
(* and for a function in every program; take no more after a comma than    *)
(* there is, neither parameters nor names; compare with a single term; and *)
(* have no pointer to void and no negation.                                *)
(***************************************************************************)
Without(grammar, rules) ==
    LET heads == {rules[i].head : i \in DOMAIN rules}
    IN  [grammar EXCEPT !.nonterminals = @ \cup heads,
                        !.rules = SelectSeq(@, LAMBDA r : r.head \notin heads)]

Replacing(grammar, rules) ==
    [Without(grammar, rules) EXCEPT !.rules = rules \o @]

Documented == Replacing(Dalang,
    << Rule("P", <<"DEFL">>),
       Rule("CDEF", <<"class", "name", "INHT_LIST", "lcbr", "MEMBER_LIST", "rcbr">>) >>)

Followed == Replacing(Documented,
    << Rule("P", <<"CDEF", "P">>), Rule("P", <<"FDEF", "DEFL">>),
       Rule("BODY", <<"STMT", "STMTS">>),
       Rule("FDEF", <<"TYPE", "name", "lpar", "PARL", "rpar", "lcbr", "BODY", "rcbr">>),
       Rule("MEMBER", <<"semi">>), Rule("MEMBER", <<"lpar", "PARL", "rpar", "lcbr", "BODY", "rcbr">>),
       Rule("PARLP", <<"comma", "PARL">>), Rule("PARLP", <<Empty>>),
       Rule("STMT", <<"E", "equl", "E", "semi">>), Rule("STMT", <<"TYPE", "NAME_LIST", "semi">>),
       Rule("STMT", <<"if", "lpar", "E", "rpar", "lcbr", "BODY", "rcbr", "IFELSE">>),
       Rule("STMT", <<"while", "lpar", "E", "rpar", "lcbr", "BODY", "rcbr">>),
       Rule("STMT", <<"return", "E", "semi">>),
       Rule("IFELSE", <<"else", "lcbr", "BODY", "rcbr">>), Rule("IFELSE", <<Empty>>),
       Rule("TYPE", <<"void">>), Rule("TYPE", <<"int", "TYPEP">>), Rule("TYPE", <<"bool", "TYPEP">>),
       Rule("TYPE", <<"ntype", "TYPEP">>),
       Rule("NAME_LISTP", <<"comma", "NAMES">>), Rule("NAME_LISTP", <<Empty>>),
       Rule("NAMES", <<"name", "NAME_LISTP">>), Rule("NAMES", <<Empty>>),
       Rule("REP", <<"lessthan", "T", "REP">>), Rule("REP", <<"equalto", "T", "REP">>),
       Rule("REP", <<Empty>>),
       Rule("NOT_E", <<"FP">>) >>)

-----------------------------------------------------------------------------
G == Tools["dalang"]

(* What a head becomes before a terminal.                                  *)
Productions == UNION {{<<G.rules[i].head, t, SelectSeq(G.rules[i].derived, LAMBDA s : s # Empty)>> :
                          t \in PredictsOf["dalang"][i]} : i \in DOMAIN G.rules}

Deepest == 25           \* no more rules are applied to one token

Replaced(stack, t) ==
    LET after[n \in 0..Deepest] ==
            IF n = 0 THEN stack
            ELSE LET s == after[n - 1]
                     choice == IF s = <<>> THEN {} ELSE {p \in Productions : p[1] = s[1] /\ p[2] = t}
                 IN  IF choice = {} THEN s ELSE (CHOOSE p \in choice : TRUE)[3] \o Tail(s)
    IN  after[Deepest]

Follow1(stack, t) ==
    LET s == Replaced(stack, t)
    IN  IF s # <<>> /\ s[1] = t THEN Tail(s) ELSE Stuck

(* The tokens are named as the terminals, but for the end.                 *)
Terminal(t) == IF t = "eof" THEN Eof ELSE t

SentenceInit == Init /\ expected = <<G.rules[1].head, Eof>>
SentenceNext ==
    /\ Next
    /\ expected' = IF <<current_position_, token_>>' = <<current_position_, token_>> THEN expected
                   ELSE Follow1(expected, Terminal(token_'))
SentenceSpec == SentenceInit /\ [][SentenceNext]_sentenceVars /\ Fairness

-----------------------------------------------------------------------------
(* The parser reports an error of syntax only when the tokens it has taken *)
(* begin no program: none of its functions complains of a token that may   *)
(* come (Accept, AcceptEmpty and the recoveries of every function), unless *)
(* another error has led it astray.                                        *)
ErrorsAreJustified == blamed = "syntax" => expected = Stuck

(* A file that is parsed without an error is a program of the grammar from *)
(* its first token to its last, and the unit gets its tree.                *)
AcceptsOnlyPrograms == Done /\ blamed = "none" => expected = <<>> /\ ast = Whole

(* Of a file whose reported errors are all of syntax, a tree is made       *)
(* without null pointers in it, or no tree (halting_strategy.txt), but for *)
(* an if with an else, which is made without looking (NewIfStmt): its      *)
(* condition may be null in front of a parenthesis, where a dot lacks the  *)
(* name behind it, or where in a sum a comparison in parentheses compares  *)
(* with a sum, 1 + (1 < 1 + 1: the inner expression is null in front of    *)
(* the second plus, which the outer one goes on with.  An error of syntax  *)
(* may bring one of meaning with it: in class A{int x;int ;} the name that *)
(* is missing is taken to be x again.  Of such a file nothing is said.     *)
DotsHaveNames(file) == \A i \in DOMAIN file : file[i] = "." => i < Len(file) /\ file[i + 1] \in Letters
Compares(file, i) == file[i] = "<" \/ IsEqualTo(file, i)
ComparesBetweenPluses(file) ==
    \E i \in DOMAIN file :
        /\ Compares(file, i)
        /\ \E j \in 1..(i - 1) : file[j] = "+"
        /\ \E j \in (i + 1)..Len(file) : file[j] = "+"
NoHolesFromSyntax ==
    ast = Holed /\ blamed \in {"none", "syntax"} => ~DotsHaveNames(text) \/ ComparesBetweenPluses(text)

(* A file without a negation is parsed to an end, or to the parser's own:  *)
(* every recovery reads on or sees that the parser is to stop (the checks  *)
(* of ContinueParsing).                                                    *)
HaltsWithoutNegation == (\A i \in DOMAIN text : text[i] # "not") => <>(Done \/ Dead)

(* The parser ends, or dies, whatever the file: the functions of           *)
(* statements, too, give up once it is to stop (halting_strategy.txt).     *)
Halts == <>(Done \/ Dead)

(* Errors of syntax alone do not kill the parser in a class without        *)
(* parents.  Its members are looked up once more when the class ends, by   *)
(* their nodes, the null ones too (Class.hpp:154-179): only a function     *)
(* without a body has been entered under a null node by then, and only     *)
(* such a function leaves one without an error of meaning.                 *)
SurvivesSyntax == Dead => blamed = "meaning" \/ parents # {}

=============================================================================
