---------------------------- MODULE GrammarSets ----------------------------
(***************************************************************************)
(* Grammar::Analyze: the First and Follow sets as two fixpoints over the   *)
(* rules, the First+ set of each rule, and the violations that are printed *)
(* when one symbol of lookahead is not enough.  One step handles one rule  *)
(* of one sweep.  The flag that sums the violations up is not modelled:    *)
(* IsBackTrackFree, the only way to read it, returns nothing, so what      *)
(* DumpProperties prints need have nothing to do with it.                  *)
(***************************************************************************)
EXTENDS Derivations

VARIABLES tool,             \* the program that is run
          pass,             \* the part of it that runs
          rule,             \* the rule the loop is at
          has_changed,      \* whether the sweep has changed a set
          first, follow,    \* for each symbol, the set computed so far
          first_plus,       \* for each rule
          violations        \* the pairs of rules printed as violations, when all are

setVars == <<tool, pass, rule, has_changed, first, follow, first_plus, violations>>

G == Tools[tool]

(* Before the first sweep the terminals that were registered begin with    *)
(* themselves, and the end of the input follows the starting symbol.       *)
SetsInit ==
    /\ tool \in DOMAIN Tools
    /\ pass = "first"
    /\ rule = 1
    /\ has_changed = FALSE
    /\ first = [s \in SymbolsOf[tool] |-> IF s \in G.terminals THEN {s} ELSE {}]
    /\ follow = [s \in SymbolsOf[tool] |-> IF s = G.rules[1].head THEN {Eof} ELSE {}]
    /\ first_plus = <<>>
    /\ violations = {}

-----------------------------------------------------------------------------
(* The First set of a sequence of symbols, from the sets as they are.      *)
First(derived) ==
    (UNION {first[derived[i]] \ {Empty} :
               i \in {k \in DOMAIN derived : \A j \in 1..(k - 1) : Empty \in first[derived[j]]}})
      \cup (IF \A i \in DOMAIN derived : Empty \in first[derived[i]] THEN {Empty} ELSE {})

(* The loop over the rules: another sweep if this one has changed a set.   *)
NextRule(changed, next) ==
    IF rule < Len(G.rules)
    THEN rule' = rule + 1 /\ has_changed' = changed /\ pass' = pass
    ELSE rule' = 1 /\ has_changed' = FALSE /\ pass' = (IF changed THEN pass ELSE next)

ComputeFirstSets ==
    /\ pass = "first"
    /\ LET r == G.rules[rule]
       IN  /\ first' = [first EXCEPT ![r.head] = @ \cup First(r.derived)]
           /\ NextRule(has_changed \/ first' # first, "follow")
    /\ UNCHANGED <<tool, follow, first_plus, violations>>

(* What the walk over a rule from its end holds when it arrives at the     *)
(* symbol i: what follows the head, as long as every symbol passed is a    *)
(* nonterminal with the empty word, and what those begin with.             *)
Passable(s) == s \notin G.terminals /\ Empty \in first[s]
TrailerNeverReset(r, i) ==
    (UNION {first[r.derived[j]] \ {Empty} : j \in (i + 1)..Len(r.derived)}) \cup follow[r.head]
Trailer(r, i) ==
    LET later == (i + 1)..Len(r.derived)
        reached == {j \in later : \A k \in (i + 1)..(j - 1) : Passable(r.derived[k])}
    IN  (UNION {IF Passable(r.derived[j]) THEN first[r.derived[j]] \ {Empty}
                ELSE first[r.derived[j]] : j \in reached})
          \cup (IF \A j \in later : Passable(r.derived[j]) THEN follow[r.head] ELSE {})

ComputeFollowSets ==
    /\ pass = "follow"
    /\ LET r == G.rules[rule]
           places(s) == {i \in DOMAIN r.derived : r.derived[i] = s}
       IN  /\ follow' = [s \in DOMAIN follow |->
                           IF s \in G.terminals THEN follow[s]
                           ELSE follow[s] \cup UNION {Trailer(r, i) : i \in places(s)}]
           /\ NextRule(has_changed \/ follow' # follow, "first_plus")
    /\ UNCHANGED <<tool, first, first_plus, violations>>

(* Only the empty word as the first symbol of a rule brings what follows   *)
(* its head: a nonterminal that can be empty does not.                     *)
ComputeFirstPlusSets ==
    /\ pass = "first_plus"
    /\ LET r == G.rules[rule]
       IN  first_plus' = Append(first_plus,
                            first[r.derived[1]] \cup (IF r.derived[1] = Empty THEN follow[r.head] ELSE {}))
    /\ NextRule(FALSE, "back_track")
    /\ UNCHANGED <<tool, first, follow, violations>>

ComputeBackTrackFreeWithItself ==
    /\ pass = "back_track"
    /\ violations' = {p \in (DOMAIN G.rules) \X (DOMAIN G.rules) :
                         /\ p[1] <= p[2] /\ G.rules[p[1]].head = G.rules[p[2]].head
                         /\ first_plus[p[1]] \cap first_plus[p[2]] # {}}
    /\ pass' = "analyzed"
    /\ UNCHANGED <<tool, rule, has_changed, first, follow, first_plus>>
(* The rules of each head, every two of them once: a violation is printed  *)
(* for two that may be chosen on one symbol.                               *)
ComputeBackTrackFree ==
    /\ pass = "back_track"
    /\ violations' = {p \in (DOMAIN G.rules) \X (DOMAIN G.rules) :
                         /\ p[1] < p[2] /\ G.rules[p[1]].head = G.rules[p[2]].head
                         /\ first_plus[p[1]] \cap first_plus[p[2]] # {}}
    /\ pass' = "analyzed"
    /\ UNCHANGED <<tool, rule, has_changed, first, follow, first_plus>>

Analyze == ComputeFirstSets \/ ComputeFollowSets \/ ComputeFirstPlusSets \/ ComputeBackTrackFree

-----------------------------------------------------------------------------
(* Properties                                                              *)

(* At every moment the sets hold only what the derivations of the grammar  *)
(* give, and when their loop has ended they hold all of it: no sweep stops *)
(* early, whatever the order of the rules, and no walk from the end of a   *)
(* rule lets a symbol slip past one that cannot be empty.                  *)
SetsAreWhatIsDerived ==
    /\ \A s \in DOMAIN first : /\ first[s] \subseteq FirstOf[tool][s]
                               /\ s \in HeadsOf[tool] => follow[s] \subseteq FollowOf[tool][s]
    /\ pass # "first" => first = FirstOf[tool]
    /\ pass \notin {"first", "follow"} =>
          \A s \in HeadsOf[tool] : follow[s] = FollowOf[tool][s]

(* Whether First+ of a rule has the empty word, and whether that comes     *)
(* from a nonterminal: then it lacks what lies behind that nonterminal.    *)
SeemsEmpty(i) == Empty \in FirstOf[tool][G.rules[i].derived[1]]
LeaderHides(i) == SeemsEmpty(i) /\ G.rules[i].derived[1] # Empty

(* The violations that are printed are the truth about the grammar.  Two   *)
(* rules that are printed really are two rules of one head that some       *)
(* symbol of lookahead does not tell apart, unless both begin with what    *)
(* can be empty: the empty word itself is then taken for a symbol they     *)
(* share.  And all such rules are printed, but for those led by a          *)
(* nonterminal that can be empty.                                          *)
ViolationsAreRight ==
    pass = "analyzed" =>
        /\ \A p \in violations :
              p \in UndecidedOf[tool] \/ (SeemsEmpty(p[1]) /\ SeemsEmpty(p[2]))
        /\ \A p \in UndecidedOf[tool] :
              p \in violations \/ LeaderHides(p[1]) \/ LeaderHides(p[2])

=============================================================================
