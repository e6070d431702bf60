---------------------------- MODULE Derivations ----------------------------
(***************************************************************************)
(* What the sets of a grammar mean, told by its derivations and by no      *)
(* algorithm of the code: which nonterminals derive the empty word, which  *)
(* symbols can begin what a symbol derives, which can come after it, and   *)
(* the words up to a length.  Everything is a constant: a function of the  *)
(* program whose grammar is meant.                                         *)
(***************************************************************************)
EXTENDS Grammars, FiniteSets

CONSTANT Tools          \* a grammar for each program that builds one

Elements(s) == {s[i] : i \in DOMAIN s}
RulesOf(g, head) == {i \in DOMAIN g.rules : g.rules[i].head = head}

SymbolsOf == [t \in DOMAIN Tools |->
    LET g == Tools[t]
    IN  g.terminals \cup g.nonterminals
          \cup UNION {{g.rules[i].head} \cup Elements(g.rules[i].derived) : i \in DOMAIN g.rules}]

HeadsOf == [t \in DOMAIN Tools |-> {Tools[t].rules[i].head : i \in DOMAIN Tools[t].rules}]

(* What the programs build: rules of finitely many symbols, the first of   *)
(* them the starting rule; no rule of a terminal; and the empty word only  *)
(* by itself.                                                              *)
ASSUME GrammarsAssumption ==
    \A t \in DOMAIN Tools :
        LET g == Tools[t]
        IN  /\ IsFiniteSet(SymbolsOf[t])
            /\ g.rules \in Seq([head : SymbolsOf[t], derived : Seq(SymbolsOf[t]) \ {<<>>}])
            /\ g.rules # <<>>
            /\ {Empty, Eof} \subseteq g.terminals
            /\ HeadsOf[t] \cap g.terminals = {}
            /\ \A i \in DOMAIN g.rules :
                  Empty \in Elements(g.rules[i].derived) => g.rules[i].derived = <<Empty>>

(* No program adds a rule twice. *)
ASSUME RulesAssumption ==
    \A t \in DOMAIN Tools : \A i, j \in DOMAIN Tools[t].rules :
        Tools[t].rules[i] = Tools[t].rules[j] => i = j

(* The nonterminals that derive the empty word with a tree of a height     *)
(* that is at most the number of heads, which is as high as it need be.    *)
NullableOf == [t \in DOMAIN Tools |->
    LET g == Tools[t]
        within[n \in 0..Cardinality(HeadsOf[t])] ==
            IF n = 0 THEN {Empty}
            ELSE LET lower == within[n - 1]
                 IN  lower \cup {h \in HeadsOf[t] :
                        \E i \in RulesOf(g, h) : Elements(g.rules[i].derived) \subseteq lower}
    IN  within[Cardinality(HeadsOf[t])]]

(* What a symbol reaches along a relation given by its successors.         *)
Reached(successors, s) ==
    LET within[n \in 0..Cardinality(DOMAIN successors)] ==
            IF n = 0 THEN {s}
            ELSE LET nearer == within[n - 1]
                 IN  nearer \cup UNION {successors[x] : x \in nearer}
    IN  within[Cardinality(DOMAIN successors)]

(* The places of a sequence with nothing but nullable symbols before them. *)
Front(t, d) == {k \in DOMAIN d : \A j \in 1..(k - 1) : d[j] \in NullableOf[t]}

(* The symbols that stand in front in a rule of the head.                  *)
BeginsOf == [t \in DOMAIN Tools |-> [s \in SymbolsOf[t] |->
    UNION {{Tools[t].rules[i].derived[k] : k \in Front(t, Tools[t].rules[i].derived)} :
              i \in RulesOf(Tools[t], s)}]]

(* The terminals a symbol's words begin with, and the empty word.          *)
FirstOf == [t \in DOMAIN Tools |-> [s \in SymbolsOf[t] |->
    ((Reached(BeginsOf[t], s) \cap Tools[t].terminals) \ {Empty})
      \cup (IF s \in NullableOf[t] THEN {Empty} ELSE {})]]

(* The nonterminals at whose end the symbol stands, but for nullable ones  *)
(* behind it.                                                              *)
EndsOf == [t \in DOMAIN Tools |-> [s \in SymbolsOf[t] |->
    {h \in HeadsOf[t] : \E i \in RulesOf(Tools[t], h) :
        LET d == Tools[t].rules[i].derived
        IN  \E k \in DOMAIN d : d[k] = s /\ \A m \in (k + 1)..Len(d) : d[m] \in NullableOf[t]}]]

(* The terminals that stand behind the symbol in a rule.                   *)
AfterOf == [t \in DOMAIN Tools |-> [s \in SymbolsOf[t] |->
    (UNION {LET d == Tools[t].rules[i].derived
            IN  UNION {FirstOf[t][d[k]] :
                   k \in {m \in DOMAIN d : \E b \in 1..(m - 1) :
                             d[b] = s /\ \A j \in (b + 1)..(m - 1) : d[j] \in NullableOf[t]}} :
               i \in DOMAIN Tools[t].rules}) \ {Empty}]]

(* The terminals that come right after a symbol in what the heads derive:  *)
(* after the symbol itself in a rule, or after what it ends; and the end   *)
(* of the input after the starting symbol.                                 *)
FollowOf == [t \in DOMAIN Tools |-> [s \in SymbolsOf[t] |->
    LET ended == Reached(EndsOf[t], s)
    IN  (UNION {AfterOf[t][x] : x \in ended})
          \cup (IF Tools[t].rules[1].head \in ended THEN {Eof} ELSE {})]]

(* What a rule may be chosen on: the terminals its words begin with, and   *)
(* what comes after its head when it derives the empty word.               *)
PredictsOf == [t \in DOMAIN Tools |-> [i \in DOMAIN Tools[t].rules |->
    LET d == Tools[t].rules[i].derived
    IN  ((UNION {FirstOf[t][d[k]] : k \in Front(t, d)}) \ {Empty})
          \cup (IF Elements(d) \subseteq NullableOf[t] THEN FollowOf[t][Tools[t].rules[i].head] ELSE {})]]

(* The pairs of rules of one head that some symbol of lookahead does not   *)
(* tell apart.                                                             *)
UndecidedOf == [t \in DOMAIN Tools |->
    {p \in (DOMAIN Tools[t].rules) \X (DOMAIN Tools[t].rules) :
        /\ p[1] < p[2] /\ Tools[t].rules[p[1]].head = Tools[t].rules[p[2]].head
        /\ PredictsOf[t][p[1]] \cap PredictsOf[t][p[2]] # {}}]

-----------------------------------------------------------------------------
(* The words of at most k terminals, as pairs of a symbol and a word it    *)
(* derives.                                                                *)
Words(g, k) ==
    LET product(U, V) == {w \in {u \o v : u \in U, v \in V} : Len(w) <= k}
        of(pairs, s) == {p[2] : p \in {q \in pairs : q[1] = s}}
        derives(pairs, d) == LET upto[m \in 0..Len(d)] ==
                                   IF m = 0 THEN {<<>>} ELSE product(upto[m - 1], of(pairs, d[m]))
                             IN  upto[Len(d)]
        within[n \in 0..(2 * k)] ==
            IF n = 0
            THEN {<<Empty, <<>>>>} \cup {<<s, <<s>>>> : s \in g.terminals \ {Empty}}
            ELSE LET lower == within[n - 1]
                 IN  lower \cup UNION {{<<g.rules[i].head, w>> : w \in derives(lower, g.rules[i].derived)} :
                                          i \in DOMAIN g.rules}
    IN  within[2 * k]

Language(g, k) == {p[2] : p \in {q \in Words(g, k) : q[1] = g.rules[1].head}}

=============================================================================
