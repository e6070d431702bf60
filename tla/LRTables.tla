------------------------------ MODULE LRTables ------------------------------
(***************************************************************************)
(* GrammarLR1::BuildTables and GrammarLALR::BuildTables: the canonical     *)
(* collection of sets of LR(1) items, the action and goto tables read off  *)
(* it, and the sets merged by their kernels.  One step handles one set of  *)
(* items.  The collections are ordered sets of the standard library; the   *)
(* order decides which number a state gets and which entry is written      *)
(* last, so it is modelled: Before is the order of items, Precedes of sets.*)
(***************************************************************************)
EXTENDS GrammarSets

CONSTANTS LR1Tools,     \* the programs that build LR(1) tables
          LALRTools     \* those of them that merge the states

ASSUME LRToolsAssumption == LALRTools \subseteq LR1Tools /\ LR1Tools \subseteq DOMAIN Tools

(* The mark of the stack's top is no symbol of a grammar, and the order of  *)
(* names has a place for it and for every symbol.                           *)
ASSUME OrderAssumption ==
    \A t \in LR1Tools : LET named == SymbolsOf[t] \cup {StackTop}
                      IN  /\ Tools[t].order \in Seq(named)
                          /\ named \subseteq Elements(Tools[t].order)
                          /\ StackTop \notin SymbolsOf[t]

VARIABLES set_id,           \* the collection: the number of each set in it
          marked,           \* the sets whose successors are in the collection
          at,               \* where the loop over the collection stands
          goto_table,       \* the entries written so far, by state and nonterminal
          transition_table, \* by state and terminal; nothing reads it
          action_table,     \* by state: the action on each terminal
          lalr_set_id, lalr_action_table

(* A map with more entries written into it. *)
Over(new, old) ==
    [x \in DOMAIN new \cup DOMAIN old |-> IF x \in DOMAIN new THEN new[x] ELSE old[x]]

lrVars == <<set_id, marked, at, goto_table, transition_table, action_table,
            lalr_set_id, lalr_action_table>>

-----------------------------------------------------------------------------
(* Items.  The dot is where StackTop stands among the derived symbols.     *)
Item(r, dot, ahead) == [rule |-> r, dot |-> dot, ahead |-> ahead]
InitLR1_Item(r, ahead) == Item(r, 0, ahead)

Derived(item) == G.rules[item.rule].derived
IsInitialRule(item) == item.rule = 1
HasSymbolAfterStackTop(item) == item.dot < Len(Derived(item))
SymbolAfterStackTop(item) == Derived(item)[item.dot + 1]
SymbolsAfterC(item) == SubSeq(Derived(item), item.dot + 2, Len(Derived(item)))
SwapSymbolAfterStackTop(item) == [item EXCEPT !.dot = @ + 1]
ToLR0_Item(item) == [item EXCEPT !.ahead = StackTop]

(* The kernel: what a set holds but for the items the closure has added.   *)
GetKernelWithAhead(set) == {i \in set : IsInitialRule(i) \/ i.dot > 0}
GetKernel(set) == {ToLR0_Item(i) : i \in {j \in set : IsInitialRule(j) \/ j.dot > 0}}

(* Items compare by head, derived symbols with StackTop among them, and    *)
(* lookahead; sets by their items in order.                                *)
Less(a, b) ==
    \E k \in 1..Len(b) : /\ k <= Len(a) + 1
                         /\ SubSeq(a, 1, k - 1) = SubSeq(b, 1, k - 1)
                         /\ k <= Len(a) => a[k] < b[k]
Place(s) == CHOOSE n \in DOMAIN G.order : G.order[n] = s
ItemKey(item) ==
    LET written == SubSeq(Derived(item), 1, item.dot) \o <<StackTop>>
                     \o SubSeq(Derived(item), item.dot + 1, Len(Derived(item)))
    IN  <<Place(G.rules[item.rule].head)>> \o [k \in DOMAIN written |-> Place(written[k])]
          \o <<0, Place(item.ahead)>>
Before(i, j) == Less(ItemKey(i), ItemKey(j))

LeastOf(keys) == CHOOSE k \in keys : \A l \in keys \ {k} : Less(k, l)
SetKey(set) ==
    LET keys == {ItemKey(i) : i \in set}
        after[n \in 0..Cardinality(keys)] ==
            IF n = 0 THEN <<keys, <<>>>>
            ELSE LET before == after[n - 1]
                     least == LeastOf(before[1])
                 IN  IF before[1] = {} THEN before
                     ELSE <<before[1] \ {least}, before[2] \o least>>
    IN  after[Cardinality(keys)][2]
Precedes(S, T) == Less(SetKey(S), SetKey(T))
Least(sets) ==
    LET least == LeastOf({SetKey(S) : S \in sets})
    IN  CHOOSE S \in sets : SetKey(S) = least

-----------------------------------------------------------------------------
(* First of the symbols and one more behind them; the empty word stays in  *)
(* the set when the symbols can all be empty.                              *)
FirstThenWithoutEnd(symbols, s) == First(symbols)
FirstThen(symbols, s) ==
    IF symbols = <<>> THEN {s}
    ELSE First(symbols) \cup (IF Empty \in First(symbols) THEN {s} ELSE {})

Closure(set) ==
    LET expansions(i) ==
            IF HasSymbolAfterStackTop(i)
            THEN {InitLR1_Item(r, b) : r \in RulesOf(G, SymbolAfterStackTop(i)),
                                       b \in FirstThen(SymbolsAfterC(i), i.ahead)}
            ELSE {}
        bound == Len(G.rules) * (Cardinality(G.terminals) + 1)
        rounds[n \in 0..bound] ==
            IF n = 0 THEN set
            ELSE LET s == rounds[n - 1] IN s \cup UNION {expansions(i) : i \in s}
        last == CHOOSE n \in 0..(bound - 1) : rounds[n] = rounds[n + 1]
    IN  rounds[last]

NextSymbols(set) == {SymbolAfterStackTop(i) : i \in {j \in set : HasSymbolAfterStackTop(j)}}
Goto(set, symbol) ==
    Closure({SwapSymbolAfterStackTop(i) :
                i \in {j \in set : HasSymbolAfterStackTop(j) /\ SymbolAfterStackTop(j) = symbol}})

-----------------------------------------------------------------------------
(* The canonical collection.                                               *)
LRInit ==
    /\ set_id = <<>> /\ marked = {} /\ at = {}
    /\ goto_table = <<>> /\ transition_table = <<>> /\ action_table = <<>>
    /\ lalr_set_id = <<>> /\ lalr_action_table = <<>>

StartCollection ==
    /\ pass = "analyzed" /\ tool \in LR1Tools
    /\ set_id' = [S \in {Closure({InitLR1_Item(1, Eof)})} |-> 0]
    /\ pass' = "collect"
    /\ UNCHANGED <<tool, rule, has_changed, first, follow, first_plus, violations,
                   marked, at, goto_table, transition_table, action_table,
                   lalr_set_id, lalr_action_table>>

(* The loop over the collection goes on behind the set it was at, sees the *)
(* sets that were inserted there, and starts again for those inserted      *)
(* before.                                                                 *)
NextSet ==
    LET unmarked == DOMAIN set_id \ marked
        behind == {S \in unmarked : at # {} /\ Precedes(at, S)}
    IN  Least(IF behind # {} THEN behind ELSE unmarked)

(* The symbols that lead out of the set to a set not yet known, in the     *)
(* order of their first items: the new sets are numbered so.  Only those   *)
(* write an entry of a table, the one that led to a known set does not.    *)
Newcomers(set) ==
    LET unknown == {s \in NextSymbols(set) : Goto(set, s) \notin DOMAIN set_id}
        leader(s) == CHOOSE i \in set :
            /\ HasSymbolAfterStackTop(i) /\ SymbolAfterStackTop(i) = s
            /\ \A j \in set \ {i} :
                  HasSymbolAfterStackTop(j) /\ SymbolAfterStackTop(j) = s => Before(i, j)
        earlier(s) == {u \in unknown : Before(leader(u), leader(s))}
    IN  [s \in unknown |-> Cardinality(DOMAIN set_id) + Cardinality(earlier(s))]

Entries(set, symbols, ids) == [e \in {set_id[set]} \X symbols |-> ids[e[2]]]

(* A symbol without a number ends the program.                             *)
Collect ==
    /\ pass = "collect" /\ DOMAIN set_id # marked
    /\ LET set == NextSet
           ids == Newcomers(set)
           met == {Goto(set, s) : s \in DOMAIN ids}
       IN  IF Empty \in DOMAIN ids
           THEN pass' = "aborted" /\ UNCHANGED lrVars
           ELSE /\ set_id' = Over([S \in met |-> ids[CHOOSE s \in DOMAIN ids : Goto(set, s) = S]], set_id)
                /\ marked' = marked \cup {set}
                /\ at' = set
                /\ goto_table' = Over(Entries(set, DOMAIN ids \ G.terminals, ids), goto_table)
                /\ transition_table' = Over(Entries(set, DOMAIN ids \cap G.terminals, ids), transition_table)
                /\ UNCHANGED <<action_table, lalr_set_id, lalr_action_table, pass>>
    /\ UNCHANGED <<tool, rule, has_changed, first, follow, first_plus, violations>>

-----------------------------------------------------------------------------
(* The action table.  The items of a set write their entries in order, so  *)
(* the last one with the same terminal stays.  A set whose successor is    *)
(* not in the collection asks a map for a number it does not have: zero.   *)
NumberIn(ids, set) == IF set \in DOMAIN ids THEN ids[set] ELSE 0

Claims(item, symbol) ==
    IF HasSymbolAfterStackTop(item)
    THEN SymbolAfterStackTop(item) = symbol
    ELSE item.ahead = symbol

ActionOf(item, set, ids) ==
    CASE HasSymbolAfterStackTop(item) ->
            <<"shift", NumberIn(ids, Goto(set, SymbolAfterStackTop(item)))>>
      [] ~HasSymbolAfterStackTop(item) /\ IsInitialRule(item) /\ item.ahead = Eof -> <<"accept", 0>>
      [] OTHER -> <<"reduce", item.rule>>

ActionRow(set, ids) ==
    LET claims(s) == {i \in set : Claims(i, s)}
        last(s) == CHOOSE i \in claims(s) : \A j \in claims(s) \ {i} : Before(j, i)
    IN  [s \in G.terminals \ {Empty} |->
            IF claims(s) = {} THEN <<"none", 0>> ELSE ActionOf(last(s), set, ids)]

BuildActionTable ==
    /\ pass = "collect" /\ DOMAIN set_id = marked /\ set_id # <<>>
    /\ \E set \in DOMAIN set_id :
          /\ set_id[set] = Cardinality(DOMAIN action_table)
          /\ action_table' = Over([n \in {set_id[set]} |-> ActionRow(set, set_id)], action_table)
    /\ pass' = IF Cardinality(DOMAIN action_table') < Cardinality(DOMAIN set_id) THEN pass
               ELSE IF tool \in LALRTools THEN "merge" ELSE "built"
    /\ UNCHANGED <<tool, rule, has_changed, first, follow, first_plus, violations,
                   set_id, marked, at, goto_table, transition_table, lalr_set_id, lalr_action_table>>

-----------------------------------------------------------------------------
(* LALR: the sets with the same kernel become one, numbered in the order   *)
(* of the kernels.                                                         *)
SameKernel(kernel) == {S \in DOMAIN set_id : GetKernel(S) = kernel}

MergeSets ==
    /\ pass = "merge"
    /\ LET kernels == {GetKernel(S) : S \in DOMAIN set_id}
           left == {k \in kernels : UNION SameKernel(k) \notin DOMAIN lalr_set_id}
       IN  IF left = {} THEN pass' = "lalr_actions" /\ UNCHANGED lalr_set_id
           ELSE /\ lalr_set_id' = Over([S \in {UNION SameKernel(Least(left))} |->
                                              Cardinality(DOMAIN lalr_set_id)], lalr_set_id)
                /\ UNCHANGED pass
    /\ UNCHANGED <<tool, rule, has_changed, first, follow, first_plus, violations,
                   set_id, marked, at, goto_table, transition_table, action_table, lalr_action_table>>

(* The table is built by the same function as the LR(1) one, which calls   *)
(* the LR(1) Goto: its result is seldom a merged set.  No goto table is    *)
(* written.                                                                *)
BuildMergedActionTable ==
    /\ pass = "lalr_actions"
    /\ \E set \in DOMAIN lalr_set_id :
          /\ lalr_set_id[set] = Cardinality(DOMAIN lalr_action_table)
          /\ lalr_action_table' = Over([n \in {lalr_set_id[set]} |-> ActionRow(set, lalr_set_id)],
                                       lalr_action_table)
    /\ pass' = IF Cardinality(DOMAIN lalr_action_table') < Cardinality(DOMAIN lalr_set_id)
               THEN pass ELSE "built"
    /\ UNCHANGED <<tool, rule, has_changed, first, follow, first_plus, violations,
                   set_id, marked, at, goto_table, transition_table, action_table, lalr_set_id>>

BuildTables ==
    StartCollection \/ Collect \/ BuildActionTable \/ MergeSets \/ BuildMergedActionTable

=============================================================================
