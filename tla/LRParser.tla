------------------------------ MODULE LRParser ------------------------------
(***************************************************************************)
(* ParserLR1::Parse driven by the tables that LRTables builds: a stack of  *)
(* symbols and states, one step per action looked up.  ParserLALR is the   *)
(* same parser: the functions it looks its actions up with are not         *)
(* virtual, so it runs on the LR(1) tables, never on the merged ones.      *)
(***************************************************************************)
EXTENDS LRTables

CONSTANTS MaxLen,       \* longest input
          Foreign       \* a token the grammar has no terminal for

ASSUME LengthAssumption == MaxLen \in Nat

VARIABLES input,        \* the tokens of the file
          read,         \* how many of them were shifted
          context       \* the stack, its bottom first: <<symbol, state>>

parserVars == <<input, read, context>>
allVars == <<setVars, lrVars, parserVars>>

tablesDone == <<tool, rule, has_changed, first, follow, first_plus, violations, lrVars>>

Alphabet == (G.terminals \ {Empty, Eof}) \cup {Foreign}
Inputs == UNION {[1..n -> Alphabet] : n \in 0..MaxLen}

token == IF read < Len(input) THEN input[read + 1] ELSE Eof
Top(stack) == stack[Len(stack)]
action == action_table[Top(context)[2]][token]

ParserInit == input = <<>> /\ read = 0 /\ context = <<>>

StartParsing ==
    /\ pass = "built"
    /\ input' \in Inputs
    /\ context' = << <<Eof, 0>> >>
    /\ pass' = "parse"
    /\ UNCHANGED <<tablesDone, read>>

(* A token without a symbol number: the look-up throws, nothing catches.   *)
UnknownToken ==
    /\ pass = "parse" /\ token = Foreign
    /\ pass' = "aborted"
    /\ UNCHANGED <<tablesDone, parserVars>>

Shift ==
    /\ pass = "parse" /\ token # Foreign /\ action[1] = "shift"
    /\ context' = Append(context, <<token, action[2]>>)
    /\ read' = read + 1
    /\ UNCHANGED <<tablesDone, pass, input>>

(* An entry of the goto table that was never written is zero.              *)
GetGotoOfAnyState(state, symbol) ==
    LET entries == {e \in DOMAIN goto_table : e[2] = symbol}
    IN  IF entries = {} THEN 0 ELSE goto_table[CHOOSE e \in entries : \A f \in entries : e[1] >= f[1]]
GetGoto(state, symbol) ==
    IF <<state, symbol>> \in DOMAIN goto_table THEN goto_table[<<state, symbol>>] ELSE 0

Reduce ==
    /\ pass = "parse" /\ token # Foreign /\ action[1] = "reduce"
    /\ LET r == G.rules[action[2]]
           rest == SubSeq(context, 1, Len(context) - Len(r.derived))
       IN  context' = Append(rest, <<r.head, GetGoto(Top(rest)[2], r.head)>>)
    /\ UNCHANGED <<tablesDone, pass, input, read>>

Accept ==
    /\ pass = "parse" /\ token # Foreign /\ action[1] = "accept"
    /\ pass' = "accepted"
    /\ UNCHANGED <<tablesDone, parserVars>>

ParseErrorGoesOn ==
    /\ pass = "parse" /\ token # Foreign /\ action[1] = "none"
    /\ UNCHANGED <<tablesDone, pass, parserVars>>
ParseError ==
    /\ pass = "parse" /\ token # Foreign /\ action[1] = "none"
    /\ pass' = "rejected"
    /\ UNCHANGED <<tablesDone, parserVars>>

Parse == StartParsing \/ UnknownToken \/ Shift \/ Reduce \/ Accept \/ ParseError

-----------------------------------------------------------------------------
Init == SetsInit /\ LRInit /\ ParserInit
Next == \/ Analyze /\ UNCHANGED <<lrVars, parserVars>>
        \/ BuildTables /\ UNCHANGED parserVars
        \/ Parse

(* The parser is a loop of one thread, with nothing to wait for. *)
Spec == Init /\ [][Next]_allVars /\ WF_allVars(Parse)

-----------------------------------------------------------------------------
(* Properties                                                              *)

(* The programs whose tables get built, and the sentences of their         *)
(* grammars up to a length that shows a word as the beginning of one.      *)
Parsing == {t \in LR1Tools : \A r \in DOMAIN Tools[t].rules : Tools[t].rules[r].derived # <<Empty>>}
Sentences == [t \in Parsing |-> Language(Tools[t], 2 * MaxLen)]

(* No rule derives the starting symbol or the end of the input.            *)
StartAndEndAreOutside ==
    \A i \in DOMAIN G.rules :
        {G.rules[1].head, Eof} \cap Elements(G.rules[i].derived) = {}

(* Every successor a reduction can go to has its entry, though only those  *)
(* that led to a new set have written one.                                 *)
GotosAreWritten ==
    \A S \in DOMAIN set_id : \A s \in NextSymbols(S) \ G.terminals :
        <<set_id[S], s>> \in DOMAIN goto_table

(* The tables and the parser decide the language of the grammar: what is   *)
(* accepted is a sentence and what is rejected is not, although the        *)
(* collection writes a goto only when it leads to a new set, and later     *)
(* items overwrite the actions of earlier ones.  In the grammars that are  *)
(* parsed the entries that were not written are not needed.                *)
AcceptsTheLanguage ==
    /\ pass = "built" => StartAndEndAreOutside /\ GotosAreWritten
    /\ pass = "accepted" => input \in Sentences[tool]
    /\ pass = "rejected" => input \notin Sentences[tool]
    /\ pass = "aborted" => \/ \E i \in DOMAIN input : input[i] = Foreign
                           \/ tool \notin Parsing

(* An error is seen at the first token that no sentence has there: what    *)
(* was shifted always begins some sentence.                                *)
ReadsOnlyPrefixes ==
    pass \in {"parse", "accepted", "rejected"} /\ Sentences[tool] # {} =>
        \E w \in Sentences[tool] :
            Len(w) >= read /\ SubSeq(w, 1, read) = SubSeq(input, 1, read)

(* Where a set stands in the rules, whatever is ahead. *)
Core(set) == {<<i.rule, i.dot>> : i \in set}

(* The sets with the same kernel are one state after the merge, and on     *)
(* every terminal on which one of them reduced or accepted the merged      *)
(* state does the same: for the grammar of the LALR test merging brings no *)
(* new conflict.                                                           *)
MergedStatesReduce ==
    lalr_action_table # <<>> /\ pass \notin {"merge", "lalr_actions"} =>
        /\ \A S, T \in DOMAIN lalr_set_id : Core(S) = Core(T) => S = T
        /\ \A S \in DOMAIN set_id : \E M \in DOMAIN lalr_set_id :
              /\ S \subseteq M
              /\ \A t \in G.terminals \ {Empty} :
                    LET a == action_table[set_id[S]][t]
                    IN  a[1] \in {"reduce", "accept"} => lalr_action_table[lalr_set_id[M]][t] = a

(* A shift of the merged table goes to the state of the merged set it      *)
(* leads to, as the algorithm the comment names has it.                    *)
ShiftsGoToTheMergedState ==
    lalr_action_table # <<>> /\ pass \notin {"merge", "lalr_actions"} =>
        \A S, T \in DOMAIN lalr_set_id : \A t \in G.terminals \ {Empty} :
            (t \in NextSymbols(S) /\ Core(Goto(S, t)) = Core(T)) =>
                lalr_action_table[lalr_set_id[S]][t] = <<"shift", lalr_set_id[T]>>

(* The parser comes to an end on every input: no chain of reductions goes  *)
(* round, through a goto entry that is zero because it was never written.  *)
ParserEnds == pass = "built" ~> pass \in {"accepted", "rejected", "aborted"}

=============================================================================
