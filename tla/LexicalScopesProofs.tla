------------------------- MODULE LexicalScopesProofs -------------------------
(***************************************************************************)
(* For any program, any set of names and any bounds: the state of the       *)
(* lexical scopes is well typed, and undoing a scope never erases a name    *)
(* that is not in the symbol table.  Neither theorem assumes anything about *)
(* the program: functions with a parameter of their own name and scopes     *)
(* leaked by a parse error are included.                                    *)
(*                                                                          *)
(* The argument: among the scopes that are still to be undone, at most one  *)
(* declaration of a name hid nothing, and while it is there the name is in  *)
(* the table, since only its own undoing could take the name out.           *)
(*                                                                          *)
(* For any set of names and any bounds: while a program is parsed that      *)
(* gives no parameter the name of its function and has none of the errors   *)
(* that leak a scope, the one symbol table that declaring and undoing keep  *)
(* up to date implements the chain of scopes, and between two definitions   *)
(* it holds the definitions of the global scope only.                       *)
(*                                                                          *)
(* The argument: what a scope's declarations hid is what the scopes around  *)
(* it say, for as long as the scope is there.  Only one declaration changes *)
(* a scope that is not the innermost, that of a function, made in the       *)
(* global scope while the parameters' scope is open; it has a name that     *)
(* scope does not have, so what the parameters hid stays true.              *)
(***************************************************************************)
EXTENDS LexicalScopes, WellFoundedInduction, SequenceTheorems, TLAPS

-----------------------------------------------------------------------------
(* Maxima of sets of positions. *)

LEMMA NatMinimum ==
  ASSUME NEW T \in SUBSET Nat, T # {}
  PROVE  \E m \in T : \A t \in T : m <= t
<1> DEFINE R == {ss \in Nat \X Nat : ss[1] < ss[2]}
<1>1. IsWellFoundedOn(R, Nat)
  BY NatLessThanWellFounded DEF OpToRel
<1>2. \E m \in T : \A t \in T : ~ (<<t, m>> \in R)
  <2> HIDE DEF R
  <2> QED BY <1>1, WFMin
<1>3. PICK m \in T : \A t \in T : ~ (<<t, m>> \in R)
  BY <1>2
<1>4. \A t \in T : m <= t
  <2> TAKE t \in T
  <2>1. <<t, m>> \in Nat \X Nat  OBVIOUS
  <2>2. ~ (t < m)  BY <1>3, <2>1
  <2> QED BY <2>2
<1> QED BY <1>4

LEMMA MaxIsLargest ==
  ASSUME NEW n \in Nat, NEW S \in SUBSET (1..n), S # {}
  PROVE  Max(S) \in S /\ \A i \in S : i <= Max(S)
<1> DEFINE T == {n - i : i \in S}
<1>1. T \in SUBSET Nat
  <2>1. \A i \in S : n - i \in Nat  OBVIOUS
  <2> QED BY <2>1
<1>2. T # {}
  <2>1. PICK i \in S : TRUE  OBVIOUS
  <2>2. n - i \in T  BY <2>1
  <2> QED BY <2>2
<1>3. PICK m \in T : \A t \in T : m <= t
  <2> HIDE DEF T
  <2> QED BY <1>1, <1>2, NatMinimum
<1>4. PICK i \in S : m = n - i  BY <1>3
<1>5. \A j \in S : i >= j
  <2> TAKE j \in S
  <2>1. m <= n - j  BY <1>3
  <2> QED BY <2>1, <1>4
<1>6. \E x \in S : \A y \in S : x >= y  BY <1>5
<1>7. Max(S) \in S /\ \A y \in S : Max(S) >= y  BY <1>6 DEF Max
<1> QED BY <1>7

(* What is left of a sequence without its last element. *)
LEMMA Popping ==
  ASSUME NEW S, NEW q \in Seq(S), q # <<>>
  PROVE  /\ SubSeq(q, 1, Len(q) - 1) \in Seq(S)
         /\ Len(SubSeq(q, 1, Len(q) - 1)) = Len(q) - 1
         /\ Len(q) \in Nat \ {0} /\ Len(q) \in DOMAIN q
         /\ \A i \in DOMAIN SubSeq(q, 1, Len(q) - 1) :
              i \in DOMAIN q /\ i < Len(q) /\ SubSeq(q, 1, Len(q) - 1)[i] = q[i]
<1> DEFINE n == Len(q)
<1> DEFINE p == SubSeq(q, 1, n - 1)
<1>1. n \in Nat \ {0} /\ DOMAIN q = 1..n  BY EmptySeq
<1>2. \A i \in 1..(n - 1) : q[i] \in S  BY <1>1
<1> HIDE DEF n, p
<1>3. p \in Seq(S) /\ Len(p) = n - 1 /\ \A i \in 1..(n - 1) : p[i] = q[i]
  BY <1>1, <1>2, SubSeqProperties DEF p
<1>4. DOMAIN p = 1..(n - 1)  BY <1>1, <1>3
<1>5. \A i \in 1..(n - 1) : i \in 1..n /\ i < n  BY <1>1
<1>6. /\ p \in Seq(S) /\ Len(p) = n - 1 /\ n \in DOMAIN q
      /\ \A i \in DOMAIN p : i \in DOMAIN q /\ i < n /\ p[i] = q[i]
  BY <1>1, <1>3, <1>4, <1>5
<1> QED BY <1>1, <1>6, Zenon DEF n, p

-----------------------------------------------------------------------------
(* The inductive invariant. *)

Live == {alive[i] : i \in DOMAIN alive}

HidNothing(s, j) == symbols[s][j].previous = None

(* No two scopes still to be undone are the same, and none is still to be   *)
(* opened.                                                                  *)
AliveOnce ==
  /\ \A i, k \in DOMAIN alive : alive[i] = alive[k] => i = k
  /\ \A s \in Live : s < free_scope_id

(* A scope that was not opened yet has no declarations. *)
UnopenedAreEmpty ==
  \A s \in ScopeIds : s >= free_scope_id => symbols[s] = <<>>

(* At most one declaration of a name hid nothing. *)
OneHidNothing ==
  \A s, t \in Live : \A j \in DOMAIN symbols[s], k \in DOMAIN symbols[t] :
    HidNothing(s, j) /\ HidNothing(t, k) /\ symbols[s][j].name = symbols[t][k].name
      => s = t /\ j = k

(* While it is there, its name is in the table. *)
ThenItIsDeclared ==
  \A s \in Live : \A j \in DOMAIN symbols[s] :
    HidNothing(s, j) => HasDecl(symbols[s][j].name)

TablesInv == AliveOnce /\ UnopenedAreEmpty /\ OneHidNothing /\ ThenItIsDeclared

(* The parser's activations own opened scopes; the outermost is a function; *)
(* and there is a scope to leave for each of them.                          *)
FramesInv ==
  /\ \A i \in DOMAIN frames : frames[i].scope < free_scope_id
  /\ \A i \in DOMAIN frames : frames[i].kind \in {"parameters", "body"} <=> i = 1
  /\ frames # <<>> => func # NoFunc
  /\ Len(frames) < Len(alive)

Inv == TypeOK /\ TablesInv /\ FramesInv

TableTypes ==
  /\ symbol_table \in [Names -> SymbolIds \cup {None}]
  /\ declared_in \in [SymbolIds -> ScopeIds \cup {NoScope}]
  /\ symbols \in [ScopeIds -> Seq(Undo)]
  /\ post_parse_table \in [ScopeIds -> [Names -> SymbolIds \cup {None}]]

LEMMA TablesTyped == TypeOK => TableTypes
  BY DEF TypeOK, TableTypes

LEMMA Bounds ==
  TypeOK => /\ MaxScopes \in Nat /\ MaxSymbols \in Nat
            /\ free_scope_id \in Nat /\ free_symbol_id \in Nat
            /\ SymbolIds \subseteq Nat /\ ScopeIds \subseteq Nat /\ None \notin SymbolIds
  BY NamesAssumption DEF TypeOK, SymbolIds, ScopeIds, Global, None

(* The positions DeclsOf collects are positions of symbols_, and their      *)
(* maximum is one of them.                                                  *)
LEMMA LastDecl ==
  ASSUME TypeOK, NEW x \in Names, NEW s \in ScopeIds, DeclsOf(x, s) # {}
  PROVE  /\ Max(DeclsOf(x, s)) \in DOMAIN symbols[s]
         /\ symbols[s][Max(DeclsOf(x, s))].name = x
<1>1. symbols[s] \in Seq(Undo)  BY DEF TypeOK
<1>2. Len(symbols[s]) \in Nat /\ DOMAIN symbols[s] = 1..Len(symbols[s])  BY <1>1
<1>3. DeclsOf(x, s) \in SUBSET (1..Len(symbols[s]))  BY <1>2 DEF DeclsOf
<1>4. Max(DeclsOf(x, s)) \in DeclsOf(x, s)  BY <1>2, <1>3, MaxIsLargest
<1> QED BY <1>4 DEF DeclsOf

LEMMA EntryTyped ==
  ASSUME TypeOK, NEW s \in ScopeIds, NEW j \in DOMAIN symbols[s]
  PROVE  symbols[s][j].name \in Names /\ symbols[s][j].previous \in SymbolIds \cup {None}
<1>1. symbols[s] \in Seq(Undo)  BY DEF TypeOK
<1>2. symbols[s][j] \in Undo  BY <1>1
<1> QED BY <1>2 DEF Undo

LEMMA StutterKeepsTables ==
  ASSUME TablesInv, UNCHANGED <<tables, alive, free_scope_id>>
  PROVE  TablesInv'
<1>1. /\ symbol_table' = symbol_table /\ symbols' = symbols
      /\ alive' = alive /\ free_scope_id' = free_scope_id
  BY DEF tables
<1>2. AliveOnce'  BY <1>1 DEF TablesInv, AliveOnce, Live
<1>3. UnopenedAreEmpty'  BY <1>1 DEF TablesInv, UnopenedAreEmpty
<1>4. OneHidNothing'  BY <1>1 DEF TablesInv, OneHidNothing, HidNothing, Live
<1>5. ThenItIsDeclared'
  BY <1>1 DEF TablesInv, ThenItIsDeclared, HidNothing, HasDecl, Live
<1> QED BY <1>2, <1>3, <1>4, <1>5 DEF TablesInv

-----------------------------------------------------------------------------
(* RegisterDecl. *)

LEMMA RegisterTyped ==
  ASSUME TypeOK, NEW x \in Names, NEW s \in ScopeIds, NEW d \in SymbolIds,
         RegisterDecl(x, s, d)
  PROVE  TableTypes'
<1> USE TablesTyped DEF TableTypes
<1>1. CASE ~ IsDeclValid(x, s)
  BY <1>1 DEF RegisterDecl, tables
<1>2. CASE IsDeclValid(x, s)
  <2>1. [name |-> x, previous |-> Previous(x)] \in Undo
    BY DEF Undo, Previous
  <2>2. Append(symbols[s], [name |-> x, previous |-> Previous(x)]) \in Seq(Undo)
    BY <2>1, AppendProperties
  <2>3. symbols' \in [ScopeIds -> Seq(Undo)]
    BY <1>2, <2>2 DEF RegisterDecl
  <2>4. symbol_table' \in [Names -> SymbolIds \cup {None}]
    BY <1>2 DEF RegisterDecl
  <2>5. declared_in' \in [SymbolIds -> ScopeIds \cup {NoScope}]
    BY <1>2 DEF RegisterDecl
  <2>6. post_parse_table' \in [ScopeIds -> [Names -> SymbolIds \cup {None}]]
    <3>1. post_parse_table' = [post_parse_table EXCEPT ![s][x] = d]
      BY <1>2 DEF RegisterDecl
    <3>2. [post_parse_table[s] EXCEPT ![x] = d] \in [Names -> SymbolIds \cup {None}]
      OBVIOUS
    <3> QED BY <3>1, <3>2
  <2> QED BY <2>3, <2>4, <2>5, <2>6
<1> QED BY <1>1, <1>2

LEMMA RegisterKeepsTables ==
  ASSUME TypeOK, TablesInv, NEW x \in Names, NEW s \in ScopeIds, NEW d \in SymbolIds,
         s < free_scope_id, RegisterDecl(x, s, d),
         UNCHANGED <<alive, free_scope_id>>
  PROVE  TablesInv'
<1> USE TablesTyped, Bounds DEF TableTypes
<1>1. CASE ~ IsDeclValid(x, s)
  <2>1. UNCHANGED tables  BY <1>1 DEF RegisterDecl
  <2> QED BY <2>1, StutterKeepsTables
<1>2. CASE IsDeclValid(x, s)
  <2> DEFINE e == [name |-> x, previous |-> Previous(x)]
             n == Len(symbols[s]) + 1
  <2>1. symbol_table' = [symbol_table EXCEPT ![x] = d]
        /\ symbols' = [symbols EXCEPT ![s] = Append(symbols[s], e)]
    BY <1>2 DEF RegisterDecl
  <2>2. symbols[s] \in Seq(Undo) /\ e \in Undo
    BY DEF Undo, Previous
  <2>3. /\ n \in Nat /\ DOMAIN symbols[s] = 1..(n - 1) /\ DOMAIN symbols'[s] = 1..n
        /\ \A j \in 1..(n - 1) : symbols'[s][j] = symbols[s][j]
        /\ symbols'[s][n] = e
    <3> HIDE DEF e
    <3> QED BY <2>1, <2>2, AppendProperties
  <2>4. \A t \in ScopeIds : t # s => symbols'[t] = symbols[t]
    BY <2>1
  <2>5. Live' = Live /\ Live \subseteq ScopeIds
    BY DEF Live, TypeOK
  <2>6. \A y \in Names : HasDecl(y) => HasDecl(y)'
    BY <2>1 DEF HasDecl, None, SymbolIds
  <2>7. HasDecl(x)'
    BY <2>1 DEF HasDecl, None, SymbolIds
  <2>8. \A t \in ScopeIds : \A j \in DOMAIN symbols'[t] :
          \/ /\ j \in DOMAIN symbols[t]
             /\ symbols'[t][j] = symbols[t][j]
             /\ symbols[t][j].name \in Names
          \/ t = s /\ j = n /\ symbols'[t][j] = e
    <3> SUFFICES ASSUME NEW t \in ScopeIds, NEW j \in DOMAIN symbols'[t]
                 PROVE  \/ /\ j \in DOMAIN symbols[t]
                           /\ symbols'[t][j] = symbols[t][j]
                           /\ symbols[t][j].name \in Names
                        \/ t = s /\ j = n /\ symbols'[t][j] = e
      OBVIOUS
    <3> HIDE DEF e, n
    <3>1. \A k \in DOMAIN symbols[t] : symbols[t][k].name \in Names
      BY EntryTyped
    <3>2. CASE t # s  BY <3>1, <3>2, <2>4
    <3>3. CASE t = s /\ j = n  BY <3>3, <2>3
    <3>4. CASE t = s /\ j # n
      <4>1. j \in 1..(n - 1)  BY <3>4, <2>3
      <4> QED BY <4>1, <3>1, <3>4, <2>3
    <3> QED BY <3>2, <3>3, <3>4
  <2> HIDE DEF n
  <2>9. AliveOnce' /\ UnopenedAreEmpty'
    <3>1. AliveOnce'
      BY <2>5 DEF TablesInv, AliveOnce
    <3>2. UnopenedAreEmpty'
      BY <2>4 DEF TablesInv, UnopenedAreEmpty
    <3> QED BY <3>1, <3>2
  <2>10. ThenItIsDeclared'
    <3> SUFFICES ASSUME NEW t \in Live, NEW j \in DOMAIN symbols'[t],
                        symbols'[t][j].previous = None
                 PROVE  symbol_table'[symbols'[t][j].name] # None
      BY <2>5 DEF ThenItIsDeclared, HidNothing, HasDecl
    <3>1. CASE t = s /\ j = n /\ symbols'[t][j] = e
      <4>1. symbols'[t][j].name = x  BY <3>1
      <4> QED BY <4>1, <2>7 DEF HasDecl
    <3>2. CASE /\ j \in DOMAIN symbols[t]
               /\ symbols'[t][j] = symbols[t][j]
               /\ symbols[t][j].name \in Names
      <4>1. HidNothing(t, j)  BY <3>2 DEF HidNothing
      <4>2. HasDecl(symbols[t][j].name)
        BY <3>2, <4>1 DEF TablesInv, ThenItIsDeclared
      <4> QED BY <4>2, <3>2, <2>6 DEF HasDecl
    <3> QED BY <2>5, <2>8, <3>1, <3>2
  <2>11. OneHidNothing'
    (* If the new declaration hid nothing, no other one of x did: x would   *)
    (* have been in the table.                                              *)
    <3>1. \A t \in Live : \A j \in DOMAIN symbols[t] :
            HidNothing(t, j) /\ symbols[t][j].name = x => Previous(x) # None
      BY DEF TablesInv, ThenItIsDeclared, HasDecl, Previous
    <3> SUFFICES ASSUME NEW t \in Live, NEW u \in Live,
                        NEW j \in DOMAIN symbols'[t], NEW k \in DOMAIN symbols'[u],
                        HidNothing(t, j)', HidNothing(u, k)',
                        symbols'[t][j].name = symbols'[u][k].name
                 PROVE  t = u /\ j = k
      BY <2>5 DEF OneHidNothing
    <3>a. t \in ScopeIds /\ u \in ScopeIds  BY <2>5
    <3> DEFINE Old(v, i) == /\ i \in DOMAIN symbols[v]
                            /\ symbols'[v][i] = symbols[v][i]
               New(v, i) == v = s /\ i = n /\ symbols'[v][i] = e
    <3>2. CASE New(t, j) /\ New(u, k)  BY <3>2
    <3>3. CASE Old(t, j) /\ Old(u, k)
      <4>1. HidNothing(t, j) /\ HidNothing(u, k)
            /\ symbols[t][j].name = symbols[u][k].name
        BY <3>3 DEF HidNothing
      <4> QED BY <4>1, <3>3 DEF TablesInv, OneHidNothing
    <3>4. CASE New(t, j) /\ Old(u, k)
      <4>1. Previous(x) = None  BY <3>4 DEF HidNothing
      <4>2. HidNothing(u, k) /\ symbols[u][k].name = x  BY <3>4 DEF HidNothing
      <4> QED BY <4>1, <4>2, <3>1, <3>4
    <3>5. CASE Old(t, j) /\ New(u, k)
      <4>1. Previous(x) = None  BY <3>5 DEF HidNothing
      <4>2. HidNothing(t, j) /\ symbols[t][j].name = x  BY <3>5 DEF HidNothing
      <4> QED BY <4>1, <4>2, <3>1, <3>5
    <3>6. Old(t, j) \/ New(t, j)  BY <2>8, <3>a
    <3>7. Old(u, k) \/ New(u, k)  BY <2>8, <3>a
    <3> HIDE DEF Old, New
    <3> QED BY <3>2, <3>3, <3>4, <3>5, <3>6, <3>7
  <2> QED BY <2>9, <2>10, <2>11 DEF TablesInv
<1> QED BY <1>1, <1>2

-----------------------------------------------------------------------------
(* Opening and leaving a scope. *)

LEMMA OpenKeepsTables ==
  ASSUME TypeOK, TablesInv, NewNestedScope, UNCHANGED tables
  PROVE  TablesInv' /\ alive' \in Seq(ScopeIds) \ {<<>>} /\ Len(alive') = Len(alive) + 1
         /\ free_scope_id \in ScopeIds /\ free_scope_id' \in 1..(MaxScopes + 1)
         /\ free_scope_id' = free_scope_id + 1
<1> USE Bounds
<1> DEFINE n == Len(alive) + 1
<1>0. free_scope_id \in ScopeIds /\ free_scope_id' \in 1..(MaxScopes + 1)
      /\ free_scope_id' = free_scope_id + 1
  BY DEF TypeOK, NewNestedScope, ScopeIds, Global
<1>1. alive \in Seq(ScopeIds)  BY DEF TypeOK
<1>2. /\ alive' \in Seq(ScopeIds) /\ Len(alive') = n
      /\ \A i \in 1..Len(alive) : alive'[i] = alive[i]
      /\ alive'[n] = free_scope_id
  BY <1>0, <1>1, AppendProperties DEF NewNestedScope, FreeScopeId
<1>3. n \in Nat /\ n > 0 /\ DOMAIN alive = 1..(n - 1) /\ DOMAIN alive' = 1..n
  BY <1>1, <1>2
<1>4. alive' # <<>>  BY <1>2, <1>3
<1>5. Live' = Live \cup {free_scope_id}
  <2> HIDE DEF n
  <2>1. DOMAIN alive' = (DOMAIN alive) \cup {n}  BY <1>3
  <2> QED BY <1>2, <1>3, <2>1 DEF Live
<1>6. symbols' = symbols /\ symbol_table' = symbol_table  BY DEF tables
<1>7. symbols[free_scope_id] = <<>>
  BY <1>0 DEF TablesInv, UnopenedAreEmpty
<1>8. DOMAIN symbols[free_scope_id] = {}  BY <1>7
<1>9. AliveOnce'
  <2>1. \A i \in DOMAIN alive : alive[i] < free_scope_id /\ alive[i] \in Nat
    BY <1>1 DEF TablesInv, AliveOnce, Live
  <2>2. \A i, k \in DOMAIN alive' : alive'[i] = alive'[k] => i = k
    <3> SUFFICES ASSUME NEW i \in DOMAIN alive', NEW k \in DOMAIN alive',
                        alive'[i] = alive'[k]
                 PROVE  i = k
      OBVIOUS
    <3> HIDE DEF n
    <3>1. CASE i = n /\ k = n  BY <3>1
    <3>2. CASE i # n /\ k # n
      <4>1. i \in 1..(n - 1) /\ k \in 1..(n - 1)  BY <3>2, <1>3
      <4>2. alive[i] = alive[k]  BY <4>1, <1>2, <1>3
      <4> QED BY <4>1, <4>2, <1>3 DEF TablesInv, AliveOnce
    <3>3. CASE i # n /\ k = n
      <4>1. i \in 1..(n - 1)  BY <3>3, <1>3
      <4> QED BY <4>1, <3>3, <2>1, <1>2, <1>3
    <3>4. CASE i = n /\ k # n
      <4>1. k \in 1..(n - 1)  BY <3>4, <1>3
      <4>2. k \in DOMAIN alive /\ alive'[k] = alive[k]
        <5>1. k \in DOMAIN alive  BY <4>1, <1>3
        <5>2. k \in 1..Len(alive)  BY <5>1, <1>1
        <5> QED BY <5>1, <5>2, <1>2
      <4>3. alive'[k] < free_scope_id /\ alive'[k] \in Nat
        BY <4>2, <2>1
      <4>4. alive'[i] = free_scope_id  BY <3>4, <1>2
      <4> QED BY <4>3, <4>4
    <3> QED BY <3>1, <3>2, <3>3, <3>4
  <2>3. \A s \in Live' : s < free_scope_id'
    BY <2>1, <1>0, <1>5 DEF Live
  <2> QED BY <2>2, <2>3 DEF AliveOnce
<1>10. UnopenedAreEmpty'
  BY <1>0, <1>6 DEF TablesInv, UnopenedAreEmpty
<1>11. OneHidNothing'
  BY <1>5, <1>6, <1>8 DEF TablesInv, OneHidNothing, HidNothing
<1>12. ThenItIsDeclared'
  BY <1>5, <1>6, <1>8 DEF TablesInv, ThenItIsDeclared, HidNothing, HasDecl
<1> QED BY <1>0, <1>2, <1>4, <1>9, <1>10, <1>11, <1>12 DEF TablesInv

LEMMA RestoreKeepsTables ==
  ASSUME TypeOK, TablesInv, RestoreScope, Len(alive) > 1, UNCHANGED free_scope_id
  PROVE  TablesInv' /\ TableTypes' /\ alive' \in Seq(ScopeIds) \ {<<>>}
         /\ Len(alive') = Len(alive) - 1
<1> DEFINE n == Len(alive)
           top == alive[n]
<1>1. alive \in Seq(ScopeIds) /\ alive # <<>>  BY DEF TypeOK
<1>2. /\ alive' \in Seq(ScopeIds) /\ Len(alive') = n - 1 /\ n \in Nat \ {0}
      /\ n \in DOMAIN alive
      /\ \A i \in DOMAIN alive' : i \in DOMAIN alive /\ i < n /\ alive'[i] = alive[i]
  BY <1>1, Popping DEF RestoreScope
<1>3. alive' # <<>>  BY <1>2
<1>4. symbols' = symbols /\ symbol_table' = UndoTables(top)
  BY DEF RestoreScope, current_scope
<1>5. top \in Live /\ top \in ScopeIds /\ Live \subseteq ScopeIds
  BY <1>1, <1>2 DEF Live
<1>6. Live' \subseteq Live \ {top}
  <2>1. \A i \in DOMAIN alive' : alive'[i] \in Live /\ alive'[i] # top
    <3> SUFFICES ASSUME NEW i \in DOMAIN alive'
                 PROVE  alive'[i] \in Live /\ alive'[i] # top
      OBVIOUS
    <3>1. i \in DOMAIN alive /\ i # n /\ alive'[i] = alive[i]  BY <1>2
    <3>2. alive[i] # alive[n]  BY <3>1, <1>2 DEF TablesInv, AliveOnce
    <3> QED BY <3>1, <3>2 DEF Live
  <2> QED BY <2>1 DEF Live
<1> USE Bounds, TablesTyped DEF TableTypes
<1> HIDE DEF top
<1>7. TableTypes'
  <2>1. \A x \in Names : UndoTables(top)[x] \in SymbolIds \cup {None}
    <3> SUFFICES ASSUME NEW x \in Names
                 PROVE  UndoTables(top)[x] \in SymbolIds \cup {None}
      OBVIOUS
    <3>1. CASE DeclsOf(x, top) = {}  BY <3>1 DEF UndoTables
    <3>2. CASE DeclsOf(x, top) # {}
      <4> DEFINE j == Max(DeclsOf(x, top))
      <4>1. j \in DOMAIN symbols[top]  BY <3>2, <1>5, LastDecl
      <4>2. symbols[top][j] \in Undo  BY <4>1, <1>5
      <4>3. UndoTables(top)[x] = symbols[top][j].previous  BY <3>2 DEF UndoTables
      <4> QED BY <4>2, <4>3 DEF Undo
    <3> QED BY <3>1, <3>2
  <2>2. symbol_table' \in [Names -> SymbolIds \cup {None}]
    BY <1>4, <2>1 DEF UndoTables
  <2> QED BY <2>2 DEF RestoreScope
<1>8. AliveOnce'
  <2>1. \A i, k \in DOMAIN alive' : alive'[i] = alive'[k] => i = k
    BY <1>2 DEF TablesInv, AliveOnce
  <2>2. \A s \in Live' : s < free_scope_id'
    BY <1>6 DEF TablesInv, AliveOnce
  <2> QED BY <2>1, <2>2 DEF AliveOnce
<1>9. UnopenedAreEmpty'
  BY <1>4 DEF TablesInv, UnopenedAreEmpty
<1>10. OneHidNothing'
  BY <1>4, <1>6 DEF TablesInv, OneHidNothing, HidNothing
<1>11. ThenItIsDeclared'
  (* The scope below that owns the declaration which hid nothing still does *)
  (* so after the undoing: the scope being left hid a symbol, or nothing    *)
  (* of that name.                                                          *)
  <2> SUFFICES ASSUME NEW t \in Live', NEW j \in DOMAIN symbols'[t],
                      symbols'[t][j].previous = None
               PROVE  symbol_table'[symbols'[t][j].name] # None
    BY DEF ThenItIsDeclared, HidNothing, HasDecl
  <2> DEFINE x == symbols[t][j].name
  <2>1. t \in Live /\ t # top /\ t \in ScopeIds  BY <1>5, <1>6
  <2>2. j \in DOMAIN symbols[t] /\ HidNothing(t, j)  BY <1>4 DEF HidNothing
  <2>3. x \in Names
    BY <2>1, <2>2, EntryTyped
  <2>4. HasDecl(x)  BY <2>1, <2>2 DEF TablesInv, ThenItIsDeclared
  <2>5. UndoTables(top)[x] # None
    <3> HIDE DEF x
    <3>1. CASE DeclsOf(x, top) = {}
      BY <3>1, <2>3, <2>4 DEF UndoTables, HasDecl
    <3>2. CASE DeclsOf(x, top) # {}
      <4> DEFINE k == Max(DeclsOf(x, top))
      <4>1. k \in DOMAIN symbols[top] /\ symbols[top][k].name = x
        BY <3>2, <1>5, <2>3, LastDecl
      <4> HIDE DEF k
      <4>2. ~ HidNothing(top, k)
        BY <4>1, <2>1, <2>2, <1>5 DEF TablesInv, OneHidNothing, x
      <4>3. UndoTables(top)[x] = symbols[top][k].previous
        BY <3>2, <2>3 DEF UndoTables, k
      <4> QED BY <4>2, <4>3 DEF HidNothing
    <3> QED BY <3>1, <3>2
  <2> QED BY <2>5, <1>4
<1> QED BY <1>2, <1>3, <1>7, <1>8, <1>9, <1>10, <1>11 DEF TablesInv

-----------------------------------------------------------------------------
(* The parser's activations. *)

FrameRecords == [kind : Kinds, scope : ScopeIds]

LEMMA InnermostFrame ==
  ASSUME TypeOK, FramesInv, frames # <<>>
  PROVE  /\ Len(frames) \in Nat \ {0} /\ Len(frames) \in DOMAIN frames
         /\ scope_inht \in ScopeIds /\ scope_inht < free_scope_id
         /\ Frame \in FrameRecords
         /\ Frame.kind \in {"parameters", "body"} <=> Len(frames) = 1
         /\ Len(alive) > 1
         /\ func \in [name : Names, symbol : SymbolIds, member : BOOLEAN]
<1>1. frames \in Seq(FrameRecords) /\ alive \in Seq(ScopeIds)
  BY DEF TypeOK, FrameRecords
<1>2. Len(frames) \in Nat \ {0} /\ Len(frames) \in DOMAIN frames
  BY <1>1, EmptySeq
<1>3. Frame \in FrameRecords  BY <1>1, <1>2 DEF Frame
<1>4. scope_inht \in ScopeIds  BY <1>3 DEF scope_inht, FrameRecords
<1>5. scope_inht < free_scope_id  BY <1>2 DEF FramesInv, scope_inht, Frame
<1>6. Frame.kind \in {"parameters", "body"} <=> Len(frames) = 1
  BY <1>2 DEF FramesInv, Frame
<1>7. Len(alive) > 1  BY <1>1, <1>2 DEF FramesInv
<1>8. func \in [name : Names, symbol : SymbolIds, member : BOOLEAN]
  BY DEF TypeOK, FramesInv
<1> QED BY <1>2, <1>3, <1>4, <1>5, <1>6, <1>7, <1>8

(* Leaving the innermost activation, which is a function exactly when       *)
(* nothing is left.                                                         *)
LEMMA PoppingFrames ==
  ASSUME TypeOK, FramesInv, frames # <<>>
  PROVE  /\ Popped \in Seq(FrameRecords) /\ Len(Popped) = Len(frames) - 1
         /\ \A i \in DOMAIN Popped : Popped[i].scope < free_scope_id
         /\ \A i \in DOMAIN Popped : Popped[i].kind \in {"parameters", "body"} <=> i = 1
         /\ Frame.kind \in {"parameters", "body"} <=> Popped = <<>>
<1>1. frames \in Seq(FrameRecords)  BY DEF TypeOK, FrameRecords
<1>2. /\ Popped \in Seq(FrameRecords) /\ Len(Popped) = Len(frames) - 1
      /\ \A i \in DOMAIN Popped : i \in DOMAIN frames /\ Popped[i] = frames[i]
  <2>1. Popped = SubSeq(frames, 1, Len(frames) - 1)  BY DEF Popped
  <2> HIDE DEF FrameRecords
  <2> QED BY <1>1, <2>1, Popping
<1>3. Popped = <<>> <=> Len(frames) = 1
  BY <1>1, <1>2, EmptySeq, InnermostFrame
<1>4. Frame.kind \in {"parameters", "body"} <=> Popped = <<>>
  BY <1>3, InnermostFrame
<1>5. /\ \A i \in DOMAIN Popped : Popped[i].scope < free_scope_id
      /\ \A i \in DOMAIN Popped : Popped[i].kind \in {"parameters", "body"} <=> i = 1
  BY <1>2 DEF FramesInv
<1> QED BY <1>2, <1>4, <1>5

LEMMA SymbolTaken ==
  ASSUME TypeOK, TakeSymbolId
  PROVE  FreeSymbolId \in SymbolIds /\ free_symbol_id' \in 1..(MaxSymbols + 1)
  BY NamesAssumption DEF TypeOK, TakeSymbolId, FreeSymbolId, SymbolIds

LEMMA GlobalIsOpen ==
  ASSUME TypeOK
  PROVE  Global \in ScopeIds /\ Global < free_scope_id
  BY Bounds DEF TypeOK, Global, ScopeIds

-----------------------------------------------------------------------------
(* Every step preserves the invariant. *)

LEMMA InitInv == Init => Inv
<1> SUFFICES ASSUME Init PROVE Inv
  OBVIOUS
<1>1. alive = <<0>> /\ 0 \in ScopeIds /\ 0 < free_scope_id
  BY NamesAssumption DEF Init, Global, ScopeIds
<1>2. Live = {0} /\ Len(alive) = 1 /\ DOMAIN alive = {1}
  BY <1>1 DEF Live
<1>3. symbols \in [ScopeIds -> Seq(Undo)] /\ \A s \in ScopeIds : symbols[s] = <<>>
  BY DEF Init
<1>4. TypeOK
  <2>1. alive \in Seq(ScopeIds) \ {<<>>}  BY <1>1
  <2>2. free_scope_id \in 1..(MaxScopes + 1) /\ free_symbol_id \in 1..(MaxSymbols + 1)
    BY NamesAssumption DEF Init, Global
  <2>3. /\ symbol_table \in [Names -> SymbolIds \cup {None}]
        /\ declared_in \in [SymbolIds -> ScopeIds \cup {NoScope}]
        /\ post_parse_table \in [ScopeIds -> [Names -> SymbolIds \cup {None}]]
    BY DEF Init
  <2>4. frames \in Seq([kind : Kinds, scope : ScopeIds])
    BY DEF Init
  <2>5. /\ func \in [name : Names, symbol : SymbolIds, member : BOOLEAN] \cup {NoFunc}
        /\ class \in Names \cup {NoName}
        /\ members \in SUBSET Names /\ name_types \in SUBSET Names /\ broken \in BOOLEAN
    BY DEF Init
  <2> QED BY <1>3, <2>1, <2>2, <2>3, <2>4, <2>5 DEF TypeOK
<1>5. AliveOnce  BY <1>1, <1>2 DEF AliveOnce
<1>6. UnopenedAreEmpty  BY <1>3 DEF UnopenedAreEmpty
<1>7. OneHidNothing /\ ThenItIsDeclared
  <2>1. \A s \in Live : DOMAIN symbols[s] = {}  BY <1>1, <1>2, <1>3
  <2> QED BY <2>1 DEF OneHidNothing, ThenItIsDeclared
<1>8. FramesInv
  <2>1. frames = <<>> /\ DOMAIN frames = {} /\ Len(frames) = 0  BY DEF Init
  <2> QED BY <2>1, <1>2 DEF FramesInv
<1> QED BY <1>4, <1>5, <1>6, <1>7, <1>8 DEF Inv, TablesInv

LEMMA OpenFunctionInv ==
  ASSUME Inv, NEW x \in Names, NEW member \in BOOLEAN, OpenFunction(x, member)
  PROVE  Inv'
<1> DEFINE r == [kind |-> "parameters", scope |-> free_scope_id]
<1>1. /\ TablesInv' /\ alive' \in Seq(ScopeIds) \ {<<>>} /\ Len(alive') = Len(alive) + 1
      /\ free_scope_id \in ScopeIds /\ free_scope_id' \in 1..(MaxScopes + 1)
      /\ free_scope_id' = free_scope_id + 1
  BY OpenKeepsTables DEF Inv, OpenFunction
<1>2. FreeSymbolId \in SymbolIds /\ free_symbol_id' \in 1..(MaxSymbols + 1)
  BY SymbolTaken DEF Inv, OpenFunction
<1>3. frames = <<>>  BY DEF OpenFunction, AtTopLevel, AtMember
<1>4. frames' = <<r>>  BY <1>3 DEF OpenFunction, Push, FreeScopeId
<1>5. func' = [name |-> x, symbol |-> FreeSymbolId, member |-> member]
  BY DEF OpenFunction
<1>6. func' # NoFunc
  <2>1. func'.symbol # None  BY <1>2, <1>5, Bounds DEF Inv
  <2> QED BY <2>1, <1>5 DEF NoFunc
<1>7. TypeOK'
  <2>1. r \in FrameRecords  BY <1>1 DEF FrameRecords, Kinds
  <2>2. frames' \in Seq(FrameRecords)
    <3> HIDE DEF r
    <3> QED BY <1>4, <2>1
  <2>3. func' \in [name : Names, symbol : SymbolIds, member : BOOLEAN]
    BY <1>2, <1>5
  <2> QED BY <1>1, <1>2, <2>2, <2>3 DEF Inv, TypeOK, FrameRecords, OpenFunction, tables
<1>8. FramesInv'
  <2>1. DOMAIN frames' = {1} /\ Len(frames') = 1 /\ frames'[1] = r  BY <1>4
  <2>2. Len(alive') > 1 /\ free_scope_id < free_scope_id'
    <3>1. Len(alive) \in Nat /\ Len(frames) = 0  BY <1>3 DEF Inv, TypeOK
    <3>2. Len(alive) > 0  BY <3>1 DEF Inv, FramesInv
    <3>3. free_scope_id \in Nat  BY Bounds DEF Inv
    <3> QED BY <3>1, <3>2, <3>3, <1>1
  <2> QED BY <2>1, <2>2, <1>6 DEF FramesInv
<1> QED BY <1>1, <1>7, <1>8 DEF Inv

(* Declaring a name in the scope handed down, which nothing else changes.   *)
LEMMA DeclaringInv ==
  ASSUME Inv, NEW x \in Names, frames # <<>>, TakeSymbolId,
         RegisterDecl(x, scope_inht, FreeSymbolId),
         UNCHANGED <<alive, free_scope_id, frames, func, class, members, name_types, broken>>
  PROVE  Inv'
<1>1. FreeSymbolId \in SymbolIds /\ free_symbol_id' \in 1..(MaxSymbols + 1)
  BY SymbolTaken DEF Inv
<1>2. scope_inht \in ScopeIds /\ scope_inht < free_scope_id
  BY InnermostFrame DEF Inv
<1>3. TableTypes'  BY <1>1, <1>2, RegisterTyped DEF Inv
<1>4. TablesInv'  BY <1>1, <1>2, RegisterKeepsTables DEF Inv
<1>5. TypeOK'  BY <1>1, <1>3 DEF Inv, TypeOK, TableTypes
<1>6. FramesInv'  BY DEF Inv, FramesInv
<1> QED BY <1>4, <1>5, <1>6 DEF Inv

LEMMA EnterBodyInv ==
  ASSUME Inv, EnterBody
  PROVE  Inv'
<1> DEFINE r == [kind |-> "body", scope |-> scope_inht]
<1>1. frames # <<>> /\ Frame.kind \in {"parameters", "body"}
  BY DEF EnterBody, InFrame
<1>2. /\ scope_inht \in ScopeIds /\ scope_inht < free_scope_id /\ Len(alive) > 1
      /\ func \in [name : Names, symbol : SymbolIds, member : BOOLEAN]
  BY <1>1, InnermostFrame DEF Inv
<1>3. Popped = <<>>  BY <1>1, PoppingFrames DEF Inv
<1>4. frames' = <<r>>  BY <1>3 DEF EnterBody
<1>5. TableTypes' /\ TablesInv' /\ members' \in SUBSET Names
  <2>1. CASE func.member
    <3>1. UNCHANGED tables /\ members' = members \cup {func.name}
      BY <2>1 DEF EnterBody
    <3>2. UNCHANGED <<tables, alive, free_scope_id>>  BY <3>1 DEF EnterBody
    <3>3. TableTypes'  BY <3>1 DEF Inv, TypeOK, TableTypes, tables
    <3> QED BY <1>2, <3>1, <3>2, <3>3, StutterKeepsTables DEF Inv, TypeOK
  <2>2. CASE ~ func.member
    <3>1. RegisterDecl(func.name, Global, func.symbol) /\ UNCHANGED members
      BY <2>2 DEF EnterBody
    <3>2. UNCHANGED <<alive, free_scope_id>>  BY DEF EnterBody
    <3>3. func.name \in Names /\ func.symbol \in SymbolIds  BY <1>2
    <3>4. TableTypes'  BY <3>1, <3>3, GlobalIsOpen, RegisterTyped DEF Inv
    <3>5. TablesInv'  BY <3>1, <3>2, <3>3, GlobalIsOpen, RegisterKeepsTables DEF Inv
    <3> QED BY <3>1, <3>4, <3>5 DEF Inv, TypeOK
  <2> QED BY <2>1, <2>2
<1>6. TypeOK'
  <2>1. r \in FrameRecords  BY <1>2 DEF FrameRecords, Kinds
  <2>2. frames' \in Seq(FrameRecords)
    <3> HIDE DEF r
    <3> QED BY <1>4, <2>1
  <2> QED BY <1>5, <2>2 DEF Inv, TypeOK, TableTypes, FrameRecords, EnterBody
<1>7. FramesInv'
  <2>1. DOMAIN frames' = {1} /\ Len(frames') = 1 /\ frames'[1] = r  BY <1>4
  <2>2. func' # NoFunc  BY <1>1 DEF EnterBody, Inv, FramesInv
  <2> QED BY <2>1, <2>2, <1>2 DEF FramesInv, EnterBody
<1> QED BY <1>5, <1>6, <1>7 DEF Inv

LEMMA OpenBlockInv ==
  ASSUME Inv, NEW kind \in {"then", "while", "else"}, OpenBlock(kind)
  PROVE  Inv'
<1> DEFINE r == [kind |-> kind, scope |-> free_scope_id]
           n == Len(frames) + 1
<1>1. /\ TablesInv' /\ alive' \in Seq(ScopeIds) \ {<<>>} /\ Len(alive') = Len(alive) + 1
      /\ free_scope_id \in ScopeIds /\ free_scope_id' \in 1..(MaxScopes + 1)
      /\ free_scope_id' = free_scope_id + 1
  BY OpenKeepsTables DEF Inv, OpenBlock
<1>2. frames # <<>>  BY DEF OpenBlock, InFrame
<1>3. frames \in Seq(FrameRecords) /\ r \in FrameRecords
  BY <1>1 DEF Inv, TypeOK, FrameRecords, Kinds
<1>4. frames' = Append(frames, r)  BY DEF OpenBlock, Push, FreeScopeId
<1>5. /\ frames' \in Seq(FrameRecords) /\ Len(frames') = n /\ frames'[n] = r
      /\ \A i \in 1..Len(frames) : frames'[i] = frames[i]
  <2> HIDE DEF r
  <2> QED BY <1>3, <1>4, AppendProperties
<1>6. TypeOK'
  BY <1>1, <1>5 DEF Inv, TypeOK, FrameRecords, OpenBlock, tables
<1>7. FramesInv'
  <2>1. /\ n \in Nat /\ n > 1 /\ DOMAIN frames = 1..(n - 1) /\ DOMAIN frames' = 1..n
    BY <1>2, <1>3, <1>5, InnermostFrame DEF Inv
  <2>2. free_scope_id \in Nat /\ free_scope_id < free_scope_id'
    BY <1>1, Bounds DEF Inv
  <2>3. \A i \in DOMAIN frames' :
          /\ frames'[i].scope < free_scope_id'
          /\ frames'[i].kind \in {"parameters", "body"} <=> i = 1
    <3> SUFFICES ASSUME NEW i \in DOMAIN frames'
                 PROVE  /\ frames'[i].scope < free_scope_id'
                        /\ frames'[i].kind \in {"parameters", "body"} <=> i = 1
      OBVIOUS
    <3>1. CASE i = n  BY <3>1, <1>5, <2>1, <2>2
    <3>2. CASE i # n
      <4> HIDE DEF n
      <4>1. i \in DOMAIN frames /\ frames'[i] = frames[i]  BY <3>2, <2>1, <1>5
      <4>2. frames[i].scope \in Nat
        <5>1. frames[i] \in FrameRecords  BY <4>1, <1>3
        <5> QED BY <5>1, Bounds DEF FrameRecords, Inv
      <4>3. frames[i].scope < free_scope_id
            /\ (frames[i].kind \in {"parameters", "body"} <=> i = 1)
        BY <4>1 DEF Inv, FramesInv
      <4>4. frames[i].scope < free_scope_id'  BY <4>2, <4>3, <2>2, <1>1
      <4> QED BY <4>1, <4>3, <4>4
    <3> QED BY <3>1, <3>2
  <2>4. func' # NoFunc  BY <1>2 DEF OpenBlock, Inv, FramesInv
  <2>5. Len(frames') < Len(alive')
    <3>1. Len(frames) \in Nat /\ Len(alive) \in Nat  BY <1>3 DEF Inv, TypeOK
    <3> QED BY <3>1, <1>1, <1>5 DEF Inv, FramesInv
  <2> QED BY <2>3, <2>4, <2>5 DEF FramesInv
<1> QED BY <1>1, <1>6, <1>7 DEF Inv

(* Leaving a block or a function, with its scope. *)
LEMMA ClosingInv ==
  ASSUME Inv, frames # <<>>, Frame.kind # "parameters", RestoreScope, frames' = Popped,
         func' = IF Frame.kind = "body" THEN NoFunc ELSE func,
         UNCHANGED <<free_scope_id, free_symbol_id, class, members, name_types, broken>>
  PROVE  Inv'
<1>1. Len(alive) > 1  BY InnermostFrame DEF Inv
<1>2. /\ TablesInv' /\ TableTypes' /\ alive' \in Seq(ScopeIds) \ {<<>>}
      /\ Len(alive') = Len(alive) - 1
  BY <1>1, RestoreKeepsTables DEF Inv
<1>3. /\ frames' \in Seq(FrameRecords) /\ Len(frames') = Len(frames) - 1
      /\ \A i \in DOMAIN frames' : frames'[i].scope < free_scope_id
      /\ \A i \in DOMAIN frames' : frames'[i].kind \in {"parameters", "body"} <=> i = 1
      /\ Frame.kind \in {"parameters", "body"} <=> frames' = <<>>
  BY PoppingFrames DEF Inv
<1>4. TypeOK'
  <2>1. func' \in [name : Names, symbol : SymbolIds, member : BOOLEAN] \cup {NoFunc}
    BY DEF Inv, TypeOK
  <2> QED BY <1>2, <1>3, <2>1 DEF Inv, TypeOK, TableTypes, FrameRecords
<1>5. FramesInv'
  <2>1. frames' # <<>> => func' # NoFunc  BY <1>3 DEF Inv, FramesInv
  <2>2. Len(frames') < Len(alive')
    <3>1. Len(frames) \in Nat /\ Len(alive) \in Nat  BY DEF Inv, TypeOK
    <3> QED BY <3>1, <1>2, <1>3 DEF Inv, FramesInv
  <2> QED BY <1>3, <2>1, <2>2 DEF FramesInv
<1> QED BY <1>2, <1>4, <1>5 DEF Inv

LEMMA AbandonInv ==
  ASSUME Inv, frames # <<>>, frames' = Popped,
         \/ func' = func /\ Frame.kind \in {"then", "while"}
         \/ func' = NoFunc /\ Frame.kind = "parameters",
         UNCHANGED <<tables, alive, free_scope_id, free_symbol_id, class, members,
                     name_types, broken>>
  PROVE  Inv'
<1>1. /\ frames' \in Seq(FrameRecords) /\ Len(frames') = Len(frames) - 1
      /\ \A i \in DOMAIN frames' : frames'[i].scope < free_scope_id
      /\ \A i \in DOMAIN frames' : frames'[i].kind \in {"parameters", "body"} <=> i = 1
      /\ Frame.kind \in {"parameters", "body"} <=> frames' = <<>>
  BY PoppingFrames DEF Inv
<1>2. TablesInv'  BY StutterKeepsTables DEF Inv
<1>3. TypeOK'
  <2>1. func' \in [name : Names, symbol : SymbolIds, member : BOOLEAN] \cup {NoFunc}
    BY DEF Inv, TypeOK
  <2> QED BY <1>1, <2>1 DEF Inv, TypeOK, tables, FrameRecords
<1>4. FramesInv'
  <2>1. frames' # <<>> => func' # NoFunc  BY <1>1 DEF Inv, FramesInv
  <2>2. Len(frames') < Len(alive')
    <3>1. Len(frames) \in Nat /\ Len(alive) \in Nat  BY DEF Inv, TypeOK
    <3> QED BY <3>1, <1>1 DEF Inv, FramesInv
  <2> QED BY <1>1, <2>1, <2>2 DEF FramesInv
<1> QED BY <1>2, <1>3, <1>4 DEF Inv

(* A class opens a scope of its own kind, which no lexical scope leads to. *)
LEMMA OpenClassInv ==
  ASSUME Inv, NEW x \in Names, OpenClass(x)
  PROVE  Inv'
<1>1. /\ free_scope_id \in Nat /\ free_scope_id' = free_scope_id + 1
      /\ free_scope_id' \in 1..(MaxScopes + 1)
      /\ symbols' = symbols /\ symbol_table' = symbol_table /\ alive' = alive
  BY Bounds DEF Inv, TypeOK, OpenClass, tables
<1>2. TypeOK'
  <2>1. /\ class' \in Names /\ members' = {} /\ broken' = FALSE
        /\ UNCHANGED <<tables, alive, free_symbol_id, frames, func, name_types>>
    BY DEF OpenClass
  <2> QED BY <1>1, <2>1 DEF Inv, TypeOK, tables
<1>3. Live \subseteq Nat /\ ScopeIds \subseteq Nat
  <2>1. alive \in Seq(ScopeIds)  BY DEF Inv, TypeOK
  <2>2. ScopeIds \subseteq Nat  BY Bounds DEF ScopeIds, Global
  <2>3. \A i \in DOMAIN alive : alive[i] \in ScopeIds
    <3>1. DOMAIN alive = 1..Len(alive)  BY <2>1
    <3> QED BY <2>1, <3>1, ElementOfSeq
  <2> QED BY <2>2, <2>3 DEF Live
<1>4. TablesInv'
  <2>1. AliveOnce'  BY <1>1, <1>3 DEF Inv, TablesInv, AliveOnce, Live
  <2>2. UnopenedAreEmpty'  BY <1>1, <1>3 DEF Inv, TablesInv, UnopenedAreEmpty
  <2>3. OneHidNothing'  BY <1>1 DEF Inv, TablesInv, OneHidNothing, HidNothing, Live
  <2>4. ThenItIsDeclared'
    BY <1>1 DEF Inv, TablesInv, ThenItIsDeclared, HidNothing, HasDecl, Live
  <2> QED BY <2>1, <2>2, <2>3, <2>4 DEF TablesInv
<1>5. FramesInv'
  <2>1. frames = <<>> /\ frames' = frames /\ DOMAIN frames = {}
    BY DEF OpenClass, AtTopLevel
  <2> QED BY <2>1, <1>1 DEF Inv, FramesInv
<1> QED BY <1>2, <1>4, <1>5 DEF Inv

LEMMA DeclareMemberInv ==
  ASSUME Inv, NEW x \in Names, DeclareMember(x)
  PROVE  Inv'
<1>1. free_symbol_id' \in 1..(MaxSymbols + 1)
  BY SymbolTaken DEF Inv, DeclareMember
<1>2. TypeOK'  BY <1>1 DEF Inv, TypeOK, DeclareMember, tables
<1>3. TablesInv'  BY StutterKeepsTables DEF Inv, DeclareMember
<1>4. FramesInv'  BY DEF Inv, FramesInv, DeclareMember
<1> QED BY <1>2, <1>3, <1>4 DEF Inv

LEMMA CloseClassInv ==
  ASSUME Inv, CloseClass
  PROVE  Inv'
<1>1. class \in Names  BY DEF CloseClass, AtMember, Inv, TypeOK
<1>2. FreeSymbolId \in SymbolIds /\ free_symbol_id' \in 1..(MaxSymbols + 1)
  BY SymbolTaken DEF Inv, CloseClass
<1>3. RegisterDecl(class, Global, FreeSymbolId) /\ UNCHANGED <<alive, free_scope_id>>
  BY DEF CloseClass
<1>4. TableTypes'  BY <1>1, <1>2, <1>3, GlobalIsOpen, RegisterTyped DEF Inv
<1>5. TablesInv'  BY <1>1, <1>2, <1>3, GlobalIsOpen, RegisterKeepsTables DEF Inv
<1>6. TypeOK'  BY <1>1, <1>2, <1>4 DEF Inv, TypeOK, TableTypes, CloseClass
<1>7. FramesInv'  BY DEF Inv, FramesInv, CloseClass
<1> QED BY <1>5, <1>6, <1>7 DEF Inv

LEMMA NextInv ==
  ASSUME Inv, [Next]_vars
  PROVE  Inv'
<1>1. ASSUME NEW x \in Names, NEW member \in BOOLEAN, OpenFunction(x, member)
      PROVE  Inv'
  BY <1>1, OpenFunctionInv
<1>2. ASSUME NEW x \in Names, DeclareName(x) \/ UseUndeclared(x)
      PROVE  Inv'
  BY <1>2, DeclaringInv DEF DeclareName, UseUndeclared, InFrame
<1>3. CASE EnterBody  BY <1>3, EnterBodyInv
<1>4. CASE DuplicateFunction
  BY <1>4, AbandonInv DEF DuplicateFunction, InFrame
<1>5. ASSUME NEW kind \in {"then", "while", "else"}, OpenBlock(kind)
      PROVE  Inv'
  BY <1>5, OpenBlockInv
<1>6. CASE CloseBlock
  BY <1>6, ClosingInv DEF CloseBlock, InFrame, Blocks
<1>7. CASE BreakBlock
  <2>1. UNCHANGED <<tables, alive, free_scope_id>>  BY <1>7 DEF BreakBlock
  <2>2. TablesInv'  BY <2>1, StutterKeepsTables DEF Inv
  <2>3. TypeOK' /\ FramesInv'
    BY <1>7 DEF BreakBlock, Inv, TypeOK, FramesInv, tables
  <2> QED BY <2>2, <2>3 DEF Inv
<1>8. CASE AbandonBlock
  BY <1>8, AbandonInv DEF AbandonBlock, InFrame
<1>9. CASE CloseBroken
  BY <1>9, ClosingInv DEF CloseBroken, InFrame
<1>10. ASSUME NEW x \in Names, OpenClass(x) PROVE Inv'
  BY <1>10, OpenClassInv
<1>11. ASSUME NEW x \in Names, DeclareMember(x) PROVE Inv'
  BY <1>11, DeclareMemberInv
<1>12. CASE CloseClass  BY <1>12, CloseClassInv
<1>13. CASE UNCHANGED vars
  <2>1. UNCHANGED <<tables, alive, free_scope_id>>  BY <1>13 DEF vars
  <2>2. TablesInv'  BY <2>1, StutterKeepsTables DEF Inv
  <2>3. TypeOK' /\ FramesInv'
    BY <1>13 DEF vars, Inv, TypeOK, FramesInv, tables
  <2> QED BY <2>2, <2>3 DEF Inv
<1> QED
  BY <1>1, <1>2, <1>3, <1>4, <1>5, <1>6, <1>7, <1>8, <1>9, <1>10, <1>11, <1>12, <1>13
  DEF Next

-----------------------------------------------------------------------------

LEMMA Invariance == Spec => []Inv
<1>1. Inv /\ [Next]_vars => Inv'  BY NextInv
<1> QED BY <1>1, InitInv, PTL DEF Spec

(* The tables, the chain of scopes and the parser's activations stay well   *)
(* typed: no scope is undone below the global one, and every declaration is *)
(* made in a scope that was opened.                                         *)
THEOREM TypeCorrect == Spec => []TypeOK
<1>1. Inv => TypeOK  BY DEF Inv
<1> QED BY <1>1, Invariance, PTL

(* UndoTables never erases a name that is not in the symbol table. *)
THEOREM UndoIsDefined == Spec => []UndoFindsItsNames
<1>1. ASSUME Inv PROVE UndoFindsItsNames
  <2> DEFINE s == current_scope
  <2>1. s \in Live /\ s \in ScopeIds
    <3>1. alive \in Seq(ScopeIds) /\ alive # <<>>  BY <1>1 DEF Inv, TypeOK
    <3>2. Len(alive) \in DOMAIN alive  BY <3>1, EmptySeq
    <3> QED BY <3>1, <3>2 DEF current_scope, Live
  <2> HIDE DEF s
  <2> SUFFICES ASSUME NEW i \in DOMAIN symbols[s], symbols[s][i].previous = None
               PROVE  EraseFindsItsName(s, i)
    BY DEF UndoFindsItsNames, s
  <2> DEFINE x == symbols[s][i].name
             earlier == {j \in DeclsOf(x, s) : j < i}
  <2>2. HidNothing(s, i)  BY DEF HidNothing
  <2>3. HasDecl(x)  BY <1>1, <2>1, <2>2 DEF Inv, TablesInv, ThenItIsDeclared
  <2>4. ASSUME earlier # {}
        PROVE  symbols[s][Max(earlier)].previous # None
    <3>1. Len(symbols[s]) \in Nat /\ DOMAIN symbols[s] = 1..Len(symbols[s])
      <4>1. symbols[s] \in Seq(Undo)  BY <1>1, <2>1 DEF Inv, TypeOK
      <4> QED BY <4>1
    <3>2. earlier \in SUBSET (1..Len(symbols[s]))  BY <3>1 DEF DeclsOf
    <3> DEFINE k == Max(earlier)
    <3>3. k \in earlier
      <4> HIDE DEF earlier
      <4> QED BY <2>4, <3>1, <3>2, MaxIsLargest
    <3> HIDE DEF k
    <3>4. k \in DOMAIN symbols[s] /\ symbols[s][k].name = x /\ k # i
      BY <3>1, <3>3 DEF DeclsOf
    <3>5. ~ HidNothing(s, k)
      BY <1>1, <2>1, <2>2, <3>4 DEF Inv, TablesInv, OneHidNothing
    <3> QED BY <3>5 DEF HidNothing, k
  <2> QED BY <2>3, <2>4 DEF EraseFindsItsName
<1> QED BY <1>1, Invariance, PTL

-----------------------------------------------------------------------------
(* The nearest definition in a chain. *)

Definitions == [Names -> SymbolIds \cup {None}]

LEMMA ChainMax == ASSUME NEW S PROVE Chain!Max(S) = Max(S)
BY DEF Chain!Max, Max

LEMMA NearestIs ==
  ASSUME NEW c \in Seq(Definitions), NEW x \in Names, NEW k \in DOMAIN c,
         c[k][x] # None, \A m \in DOMAIN c : m > k => c[m][x] = None
  PROVE  Chain!Nearest(c)[x] = c[k][x]
<1> DEFINE D == Chain!Depths(c, x)
<1>1. k \in D /\ \A m \in D : m <= k /\ m \in Nat /\ k \in Nat
  BY DEF Chain!Depths
<1>2. D \in SUBSET (1..Len(c)) /\ Len(c) \in Nat  BY DEF Chain!Depths
<1>3. Max(D) \in D /\ \A m \in D : m <= Max(D)
  <2> HIDE DEF D
  <2> QED BY <1>1, <1>2, MaxIsLargest
<1>4. Max(D) = k
  <2> HIDE DEF D
  <2>1. Max(D) <= k /\ k <= Max(D) /\ Max(D) \in Nat  BY <1>1, <1>3
  <2> QED BY <1>1, <2>1
<1>5. Chain!Max(D) = k  BY <1>4, ChainMax
<1> QED BY <1>1, <1>5 DEF Chain!Nearest

LEMMA NearestNone ==
  ASSUME NEW c \in Seq(Definitions), NEW x \in Names, \A m \in DOMAIN c : c[m][x] = None
  PROVE  Chain!Nearest(c)[x] = None
BY DEF Chain!Nearest, Chain!Depths

(* A name is defined nowhere in a chain, or there is a nearest scope that   *)
(* defines it.                                                              *)
LEMMA NearestExists ==
  ASSUME NEW c \in Seq(Definitions), NEW x \in Names,
         ~ \A m \in DOMAIN c : c[m][x] = None
  PROVE  \E k \in DOMAIN c : c[k][x] # None /\ \A m \in DOMAIN c : m > k => c[m][x] = None
<1> DEFINE D == Chain!Depths(c, x)
<1>1. D \in SUBSET (1..Len(c)) /\ Len(c) \in Nat /\ D # {}  BY DEF Chain!Depths
<1>2. Max(D) \in D /\ \A m \in D : m <= Max(D)
  <2> HIDE DEF D
  <2> QED BY <1>1, MaxIsLargest
<1>3. \A m \in DOMAIN c : m > Max(D) => m \notin D
  <2> DEFINE k == Max(D)
  <2>1. \A m \in DOMAIN c : m \in Nat  OBVIOUS
  <2>2. k \in Nat /\ \A m \in D : m <= k  BY <1>1, <1>2
  <2> HIDE DEF D, k
  <2>3. \A m \in DOMAIN c : m > k => m \notin D  BY <2>1, <2>2
  <2> QED BY <2>3 DEF k
<1> QED BY <1>2, <1>3 DEF Chain!Depths

(* The innermost scope decides, or those around it do. *)
LEMMA NearestTop ==
  ASSUME NEW c \in Seq(Definitions), c # <<>>, NEW x \in Names
  PROVE  Chain!Nearest(c)[x] =
           IF c[Len(c)][x] # None THEN c[Len(c)][x]
           ELSE Chain!Nearest(SubSeq(c, 1, Len(c) - 1))[x]
<1> DEFINE f == SubSeq(c, 1, Len(c) - 1)
           n == Len(c)
<1>1. /\ f \in Seq(Definitions) /\ Len(f) = n - 1 /\ n \in Nat \ {0} /\ n \in DOMAIN c
      /\ \A i \in DOMAIN f : i \in DOMAIN c /\ i < n /\ f[i] = c[i]
  BY Popping
<1>2. DOMAIN c = 1..n /\ DOMAIN f = 1..(n - 1)  BY <1>1
<1> HIDE DEF f, n
<1>3. CASE c[n][x] # None
  <2>1. \A m \in DOMAIN c : m > n => c[m][x] = None  BY <1>1, <1>2
  <2> QED BY <1>1, <1>3, <2>1, NearestIs DEF f, n
<1>4. CASE c[n][x] = None
  <2>1. CASE \A m \in DOMAIN f : f[m][x] = None
    <3>1. \A m \in DOMAIN c : m = n \/ m \in DOMAIN f  BY <1>1, <1>2
    <3>2. \A m \in DOMAIN c : c[m][x] = None  BY <3>1, <2>1, <1>4, <1>1
    <3> QED BY <1>1, <2>1, <3>2, <1>4, NearestNone DEF f, n
  <2>2. CASE ~ \A m \in DOMAIN f : f[m][x] = None
    <3>1. PICK k \in DOMAIN f : f[k][x] # None /\ \A m \in DOMAIN f : m > k => f[m][x] = None
      BY <1>1, <2>2, NearestExists
    <3>2. Chain!Nearest(f)[x] = f[k][x]  BY <1>1, <3>1, NearestIs
    <3>3. k \in DOMAIN c /\ c[k][x] = f[k][x]  BY <1>1
    <3>4. \A m \in DOMAIN c : m > k => c[m][x] = None
      <4>1. \A m \in DOMAIN c : m = n \/ m \in DOMAIN f  BY <1>1, <1>2
      <4> QED BY <4>1, <3>1, <1>1, <1>4
    <3>5. Chain!Nearest(c)[x] = c[k][x]  BY <3>1, <3>3, <3>4, NearestIs
    <3> QED BY <1>4, <3>2, <3>3, <3>5 DEF f, n
  <2> QED BY <2>1, <2>2
<1> QED BY <1>3, <1>4 DEF n

LEMMA NearestTyped ==
  ASSUME NEW c \in Seq(Definitions)
  PROVE  Chain!Nearest(c) \in Definitions
<1>1. \A x \in Names : Chain!Nearest(c)[x] \in SymbolIds \cup {None}
  <2> TAKE x \in Names
  <2>1. CASE \A m \in DOMAIN c : c[m][x] = None  BY <2>1, NearestNone
  <2>2. CASE ~ \A m \in DOMAIN c : c[m][x] = None
    <3>1. PICK k \in DOMAIN c : c[k][x] # None /\ \A m \in DOMAIN c : m > k => c[m][x] = None
      BY <2>2, NearestExists
    <3> QED BY <3>1, NearestIs DEF Definitions
  <2> QED BY <2>1, <2>2
<1> QED BY <1>1 DEF Chain!Nearest, Definitions


(* Chains that agree on a name give it the same meaning. *)
LEMMA NearestSame ==
  ASSUME NEW c \in Seq(Definitions), NEW e \in Seq(Definitions), NEW x \in Names,
         Len(c) = Len(e), \A m \in 1..Len(c) : c[m][x] = e[m][x]
  PROVE  Chain!Nearest(c)[x] = Chain!Nearest(e)[x]
<1>1. DOMAIN c = 1..Len(c) /\ DOMAIN e = DOMAIN c  OBVIOUS
<1>2. CASE \A m \in DOMAIN c : c[m][x] = None
  BY <1>1, <1>2, NearestNone
<1>3. CASE ~ \A m \in DOMAIN c : c[m][x] = None
  <2>1. PICK k \in DOMAIN c : c[k][x] # None /\ \A m \in DOMAIN c : m > k => c[m][x] = None
    BY <1>3, NearestExists
  <2>2. Chain!Nearest(c)[x] = c[k][x]  BY <2>1, NearestIs
  <2>3. Chain!Nearest(e)[x] = e[k][x]
    <3>1. k \in DOMAIN e /\ e[k][x] # None /\ \A m \in DOMAIN e : m > k => e[m][x] = None
      BY <1>1, <2>1
    <3> QED BY <3>1, NearestIs
  <2> QED BY <1>1, <2>1, <2>2, <2>3
<1> QED BY <1>2, <1>3

(* Chain e is c after declaring x as d in its scope i, when none of the     *)
(* scopes inside has the name.                                              *)
Declared(c, e, i, x, d) ==
  /\ \A m \in DOMAIN c : m > i => c[m][x] = None
  /\ Len(e) = Len(c) /\ e[i][x] = d
  /\ \A m \in DOMAIN c, y \in Names : m # i \/ y # x => e[m][y] = c[m][y]

LEMMA NearestDeclared ==
  ASSUME NEW c \in Seq(Definitions), NEW e \in Seq(Definitions), NEW i \in DOMAIN c,
         NEW x \in Names, NEW d \in SymbolIds, Declared(c, e, i, x, d)
  PROVE  Chain!Nearest(e) = [Chain!Nearest(c) EXCEPT ![x] = d]
<1> USE DEF Declared
<1>1. DOMAIN e = DOMAIN c /\ DOMAIN c = 1..Len(c)  OBVIOUS
<1>2. Chain!Nearest(e)[x] = d
  <2>1. d # None  BY DEF SymbolIds, None
  <2>2. \A m \in DOMAIN e : m > i => m # i  BY <1>1
  <2>3. \A m \in DOMAIN e : m > i => e[m][x] = None  BY <1>1, <2>2
  <2> QED BY <1>1, <2>1, <2>3, NearestIs
<1>3. \A y \in Names : y # x => Chain!Nearest(e)[y] = Chain!Nearest(c)[y]
  <2> TAKE y \in Names
  <2> HAVE y # x
  <2>1. \A m \in 1..Len(c) : e[m][y] = c[m][y]  BY <1>1
  <2> QED BY <2>1, NearestSame
<1>4. Chain!Nearest(e) \in Definitions /\ Chain!Nearest(c) \in Definitions  BY NearestTyped
<1> QED BY <1>2, <1>3, <1>4 DEF Definitions

-----------------------------------------------------------------------------
(* The inductive invariant. *)

(* The chain of definitions of the scopes that are open. *)
View == [i \in DOMAIN alive |-> post_parse_table[alive[i]]]

(* What a name means in the first n scopes. *)
Meaning(n) == Chain!Nearest(SubSeq(View, 1, n))

TableIsNearest == symbol_table = Chain!Nearest(View)

(* A symbol is defined by the scope it was declared in, once. *)
OwnDefinitions ==
  \A s \in ScopeIds, x \in Names :
    post_parse_table[s][x] # None =>
      /\ declared_in[post_parse_table[s][x]] = s
      /\ post_parse_table[s][x] < free_symbol_id

UnopenedDefineNothing ==
  \A s \in ScopeIds : s >= free_scope_id =>
    \A x \in Names : post_parse_table[s][x] = None

(* A scope records the names it defines, and of each what it means outside. *)
HiddenAt(i, x) ==
  /\ DeclsOf(x, alive[i]) = {} <=> post_parse_table[alive[i]][x] = None
  /\ \A j \in DeclsOf(x, alive[i]) :
       symbols[alive[i]][j].previous = Meaning(i - 1)[x]

HiddenIsKept == \A i \in DOMAIN alive : i > 1 => \A x \in Names : HiddenAt(i, x)

(* The parser sees the scopes that are open. *)
ParserSeesThem ==
  /\ ~broken
  /\ Len(alive) = Len(frames) + 1
  /\ alive[1] = Global
  /\ \A i \in DOMAIN frames : frames[i].scope = alive[i + 1]

(* While the parameters are parsed the function has its symbol, but is not  *)
(* declared; none of them has its name.                                     *)
InParameters ==
  frames # <<>> /\ frames[1].kind = "parameters" =>
    /\ Len(frames) = 1
    /\ post_parse_table[frames[1].scope][func.name] = None
    /\ func.symbol < free_symbol_id
    /\ \A s \in ScopeIds, x \in Names : post_parse_table[s][x] # func.symbol

ChainInv == TableIsNearest /\ OwnDefinitions /\ UnopenedDefineNothing /\ HiddenIsKept

CleanInv == Inv /\ ChainInv /\ ParserSeesThem /\ InParameters

LEMMA ViewTyped ==
  ASSUME TypeOK
  PROVE  /\ View \in Seq(Definitions) /\ Len(View) = Len(alive) /\ View # <<>>
         /\ DOMAIN View = 1..Len(alive) /\ DOMAIN alive = 1..Len(alive)
         /\ Len(alive) \in Nat \ {0}
         /\ \A i \in DOMAIN alive : alive[i] \in ScopeIds /\ View[i] = post_parse_table[alive[i]]
<1>1. alive \in Seq(ScopeIds) /\ alive # <<>>  BY DEF TypeOK
<1>2. /\ Len(alive) \in Nat \ {0} /\ DOMAIN alive = 1..Len(alive)
      /\ \A i \in DOMAIN alive : alive[i] \in ScopeIds
  BY <1>1, EmptySeq
<1>3. \A i \in 1..Len(alive) : View[i] \in Definitions
  BY <1>2 DEF View, TypeOK, Definitions
<1>4. View \in Seq(Definitions) /\ Len(View) = Len(alive)
  BY <1>2, <1>3, IsASeq DEF View
<1> QED BY <1>2, <1>4 DEF View

LEMMA PrefixTyped ==
  ASSUME TypeOK, NEW n \in 0..Len(alive)
  PROVE  /\ SubSeq(View, 1, n) \in Seq(Definitions) /\ Len(SubSeq(View, 1, n)) = n
         /\ \A i \in 1..n : SubSeq(View, 1, n)[i] = View[i] /\ i \in DOMAIN alive
<1>1. n \in Nat /\ n <= Len(alive) /\ Len(alive) \in Nat  BY ViewTyped
<1>2. \A i \in 1..n : i \in DOMAIN alive /\ i \in 1..Len(View)  BY <1>1, ViewTyped
<1>3. \A i \in 1..n : View[i] \in Definitions  BY <1>2, ViewTyped
<1> DEFINE V == View
<1> HIDE DEF V
<1>4. SubSeq(V, 1, n) \in Seq(Definitions) /\ Len(SubSeq(V, 1, n)) = n
      /\ \A i \in 1..n : SubSeq(V, 1, n)[i] = V[i]
  BY <1>1, <1>3, SubSeqProperties DEF V
<1> QED BY <1>2, <1>4 DEF V

(* A declaration the parser finds valid is of a name its scope lacks, if no *)
(* scope inside has it either.                                              *)
LEMMA ValidIsNew ==
  ASSUME TypeOK, ChainInv, NEW x \in Names, NEW i \in DOMAIN alive,
         \A m \in DOMAIN alive : m > i => View[m][x] = None,
         IsDeclValid(x, alive[i])
  PROVE  View[i][x] = None
<1> SUFFICES ASSUME View[i][x] # None PROVE FALSE
  OBVIOUS
<1>1. /\ View \in Seq(Definitions) /\ i \in DOMAIN View /\ alive[i] \in ScopeIds
      /\ View[i] = post_parse_table[alive[i]] /\ DOMAIN View = DOMAIN alive
  BY ViewTyped
<1>2. Chain!Nearest(View)[x] = View[i][x]
  BY <1>1, NearestIs
<1>3. symbol_table[x] = post_parse_table[alive[i]][x]
  BY <1>1, <1>2 DEF ChainInv, TableIsNearest
<1>4. declared_in[symbol_table[x]] = alive[i]
  BY <1>1, <1>3 DEF ChainInv, OwnDefinitions
<1> QED BY <1>1, <1>3, <1>4 DEF IsDeclValid

(* Declaring a new symbol in the innermost or in the global scope, of a     *)
(* name that no scope inside has.                                           *)
LEMMA Declaring ==
  ASSUME Inv, ChainInv, NEW x \in Names, NEW i \in {1, Len(alive)}, NEW d \in SymbolIds,
         \A m \in DOMAIN alive : m > i => View[m][x] = None,
         IsDeclValid(x, alive[i]), RegisterDecl(x, alive[i], d),
         \A s \in ScopeIds, y \in Names : post_parse_table[s][y] # d,
         d < free_symbol_id', free_symbol_id <= free_symbol_id', free_symbol_id' \in Nat,
         UNCHANGED <<alive, free_scope_id>>
  PROVE  /\ ChainInv'
         /\ View[i][x] = None
         /\ View' = [View EXCEPT ![i][x] = d]
<1> DEFINE n == Len(alive)
           s == alive[i]
           e == [name |-> x, previous |-> Previous(x)]
<1>0. TypeOK /\ TablesInv /\ TableTypes  BY TablesTyped DEF Inv
<1>1. /\ View \in Seq(Definitions) /\ Len(View) = n /\ n \in Nat \ {0}
      /\ DOMAIN View = 1..n /\ DOMAIN alive = 1..n
      /\ \A k \in DOMAIN alive : alive[k] \in ScopeIds /\ View[k] = post_parse_table[alive[k]]
  BY <1>0, ViewTyped
<1>2. i \in DOMAIN alive /\ s \in ScopeIds /\ i \in Nat
  <2>1. 1 \in 1..n /\ n \in 1..n /\ i \in {1, n}  BY <1>1
  <2> HIDE DEF n
  <2> QED BY <1>1, <2>1
<1>3. View[i][x] = None  BY <1>0, <1>2, ValidIsNew
<1>4. /\ symbol_table' = [symbol_table EXCEPT ![x] = d]
      /\ declared_in' = [declared_in EXCEPT ![d] = s]
      /\ symbols' = [symbols EXCEPT ![s] = Append(symbols[s], e)]
      /\ post_parse_table' = [post_parse_table EXCEPT ![s][x] = d]
      /\ alive' = alive
  BY DEF RegisterDecl
<1>5. \A k \in DOMAIN alive : k # i => alive[k] # s
  BY <1>0, <1>2 DEF TablesInv, AliveOnce
<1>6. /\ post_parse_table'[s][x] = d
      /\ \A t \in ScopeIds, y \in Names :
           t # s \/ y # x => post_parse_table'[t][y] = post_parse_table[t][y]
      /\ post_parse_table' \in [ScopeIds -> Definitions]
  BY <1>0, <1>2, <1>4 DEF TableTypes, Definitions
<1>7. /\ View' \in Seq(Definitions) /\ Len(View') = n /\ DOMAIN View' = 1..n
      /\ \A k \in DOMAIN alive : View'[k] = post_parse_table'[alive[k]]
  <2>1. View' = [k \in 1..n |-> post_parse_table'[alive[k]]]
    BY <1>1, <1>4 DEF View
  <2>2. \A k \in 1..n : post_parse_table'[alive[k]] \in Definitions  BY <1>1, <1>6
  <2> HIDE DEF n
  <2>3. View' \in Seq(Definitions)  BY <1>1, <2>1, <2>2, IsASeq
  <2> QED BY <1>1, <2>1, <2>3
<1> HIDE DEF n, s, e
<1>8. View'[i][x] = d /\ \A k \in DOMAIN alive, y \in Names :
        k # i \/ y # x => View'[k][y] = View[k][y]
  <2>1. View'[i][x] = d  BY <1>2, <1>6, <1>7 DEF s
  <2>2. ASSUME NEW k \in DOMAIN alive, NEW y \in Names, k # i \/ y # x
        PROVE  View'[k][y] = View[k][y]
    <3>1. alive[k] # s \/ y # x  BY <2>2, <1>5
    <3> QED BY <3>1, <1>1, <1>6, <1>7
  <2> QED BY <2>1, <2>2
<1>9. View' = [View EXCEPT ![i][x] = d]
  <2>1. \A k \in 1..n : View[k] \in Definitions /\ View'[k] \in Definitions
    BY <1>1, <1>7
  <2>2. \A k \in 1..n : View'[k] = [View EXCEPT ![i][x] = d][k]
    <3> TAKE k \in 1..n
    <3>1. CASE k # i
      <4>1. \A y \in Names : View'[k][y] = View[k][y]  BY <1>1, <1>8, <3>1
      <4> QED BY <4>1, <2>1, <3>1, <1>1 DEF Definitions
    <3>2. CASE k = i
      <4>1. \A y \in Names : View'[k][y] = [View[k] EXCEPT ![x] = d][y]
        BY <1>1, <1>8, <3>2, <2>1 DEF Definitions
      <4> QED BY <4>1, <2>1, <3>2, <1>1 DEF Definitions
    <3> QED BY <3>1, <3>2
  <2>3. View' = [k \in 1..n |-> View'[k]]  BY <1>7
  <2> QED BY <1>1, <2>2, <2>3
<1>10. TableIsNearest'
  <2> DEFINE V == View
             W == View'
  <2>0. /\ V \in Seq(Definitions) /\ W \in Seq(Definitions) /\ i \in DOMAIN V
        /\ Declared(V, W, i, x, d)
    BY <1>1, <1>2, <1>7, <1>8 DEF Declared
  <2> HIDE DEF V, W
  <2>1. Chain!Nearest(W) = [Chain!Nearest(V) EXCEPT ![x] = d]
    BY <2>0, NearestDeclared
  <2> USE DEF V, W
  <2> QED BY <1>4, <2>1 DEF ChainInv, TableIsNearest
<1>11. OwnDefinitions'
  <2> SUFFICES ASSUME NEW t \in ScopeIds, NEW y \in Names, post_parse_table'[t][y] # None
               PROVE  /\ declared_in'[post_parse_table'[t][y]] = t
                      /\ post_parse_table'[t][y] < free_symbol_id'
    BY DEF OwnDefinitions
  <2>1. CASE t = s /\ y = x
    BY <1>0, <1>4, <1>6, <2>1 DEF TableTypes
  <2>2. CASE ~ (t = s /\ y = x)
    <3> DEFINE g == post_parse_table[t][y]
    <3>1. post_parse_table'[t][y] = g  BY <1>6, <2>2
    <3>2. declared_in[g] = t /\ g < free_symbol_id
      BY <3>1 DEF ChainInv, OwnDefinitions
    <3>3. g # d /\ g \in SymbolIds /\ g \in Nat /\ free_symbol_id \in Nat
      BY <1>0, <3>1, Bounds DEF TableTypes
    <3> HIDE DEF g
    <3>4. declared_in'[g] = t  BY <1>0, <1>4, <3>2, <3>3 DEF TableTypes
    <3>5. g < free_symbol_id'  BY <3>2, <3>3
    <3> QED BY <3>1, <3>4, <3>5
  <2> QED BY <2>1, <2>2
<1>12. UnopenedDefineNothing'
  <2>1. s < free_scope_id /\ s \in Nat /\ free_scope_id \in Nat
    BY <1>0, <1>2, Bounds DEF TablesInv, AliveOnce, Live, s
  <2>2. \A t \in ScopeIds : t >= free_scope_id => t # s  BY <2>1
  <2> QED BY <1>6, <2>2 DEF ChainInv, UnopenedDefineNothing
<1>13. HiddenIsKept'
  <2> SUFFICES ASSUME NEW k \in DOMAIN alive, k > 1, NEW y \in Names
               PROVE  /\ DeclsOf(y, alive[k])' = {} <=> post_parse_table'[alive[k]][y] = None
                      /\ \A j \in DeclsOf(y, alive[k])' :
                           symbols'[alive[k]][j].previous = Meaning(k - 1)'[y]
    BY <1>4 DEF HiddenIsKept, HiddenAt, DeclsOf
  <2>1. alive[k] \in ScopeIds /\ k \in 1..n /\ k - 1 \in 0..n /\ k - 1 \in Nat  BY <1>1
  <2>2. /\ DeclsOf(y, alive[k]) = {} <=> View[k][y] = None
        /\ \A j \in DeclsOf(y, alive[k]) : symbols[alive[k]][j].previous = Meaning(k - 1)[y]
    BY <1>1 DEF ChainInv, HiddenIsKept, HiddenAt
  <2>3. ASSUME y # x \/ k <= i
        PROVE  Meaning(k - 1)'[y] = Meaning(k - 1)[y]
    <3> DEFINE p == SubSeq(View, 1, k - 1)
               q == SubSeq(View', 1, k - 1)
    <3>1. /\ p \in Seq(Definitions) /\ Len(p) = k - 1
          /\ \A m \in 1..(k - 1) : p[m] = View[m] /\ m \in DOMAIN alive
      BY <1>0, <2>1, PrefixTyped DEF n
    <3>2. /\ q \in Seq(Definitions) /\ Len(q) = k - 1
          /\ \A m \in 1..(k - 1) : q[m] = View'[m]
      <4> DEFINE V == View'
      <4>1. V \in Seq(Definitions) /\ Len(V) = n /\ \A m \in 1..(k - 1) : V[m] \in Definitions
        BY <1>1, <1>7, <2>1
      <4> HIDE DEF V
      <4>2. SubSeq(V, 1, k - 1) \in Seq(Definitions) /\ Len(SubSeq(V, 1, k - 1)) = k - 1
            /\ \A m \in 1..(k - 1) : SubSeq(V, 1, k - 1)[m] = V[m]
        BY <1>1, <2>1, <4>1, SubSeqProperties
      <4> QED BY <4>2 DEF V
    <3> HIDE DEF p, q
    <3>3. \A m \in 1..(k - 1) : y # x \/ m # i  BY <2>3, <1>2, <2>1
    <3>4. \A m \in 1..(k - 1) : q[m][y] = p[m][y]  BY <3>1, <3>2, <3>3, <1>8
    <3>5. Chain!Nearest(q)[y] = Chain!Nearest(p)[y]  BY <3>1, <3>2, <3>4, NearestSame
    <3> QED BY <3>5 DEF Meaning, p, q
  <2>4. CASE k # i
    <3>1. alive[k] # s  BY <2>4, <1>5
    <3>2. symbols'[alive[k]] = symbols[alive[k]] /\ post_parse_table'[alive[k]][y] = View[k][y]
      BY <1>0, <1>1, <1>4, <1>6, <2>1, <3>1 DEF TableTypes
    <3>3. DeclsOf(y, alive[k])' = DeclsOf(y, alive[k])  BY <1>4, <3>2 DEF DeclsOf
    <3>4. ASSUME DeclsOf(y, alive[k]) # {} PROVE y # x \/ k <= i
      <4>1. View[k][y] # None  BY <2>2, <3>4
      <4> QED BY <4>1, <1>1, <1>2, <2>1
    <3> QED BY <2>2, <2>3, <3>2, <3>3, <3>4
  <2>5. CASE k = i
    <3>1. alive[k] = s /\ i = n /\ k <= i  BY <2>5, <1>1, <1>2 DEF s, n
    <3>2. symbols[s] \in Seq(Undo) /\ e \in Undo
      BY <1>0, <1>2 DEF Undo, Previous, TableTypes, e
    <3> DEFINE l == Len(symbols[s]) + 1
    <3>3. /\ l \in Nat /\ l > 0 /\ DOMAIN symbols[s] = 1..(l - 1) /\ DOMAIN symbols'[s] = 1..l
          /\ \A j \in 1..(l - 1) : symbols'[s][j] = symbols[s][j]
          /\ symbols'[s][l] = e
      BY <1>0, <1>2, <1>4, <3>2, AppendProperties DEF TableTypes
    <3> HIDE DEF l
    <3>4. CASE y # x
      <4>1. DeclsOf(y, s)' = DeclsOf(y, s)
        <5>1. \A j \in 1..l : j = l \/ j \in 1..(l - 1)  BY <3>3
        <5>2. symbols'[s][l].name # y  BY <3>3, <3>4 DEF e
        <5>3. \A j : (j \in DOMAIN symbols'[s] /\ symbols'[s][j].name = y)
                       <=> (j \in DOMAIN symbols[s] /\ symbols[s][j].name = y)
          BY <3>3, <5>1, <5>2
        <5>4. {j \in DOMAIN symbols'[s] : symbols'[s][j].name = y}
                = {j \in DOMAIN symbols[s] : symbols[s][j].name = y}
          BY <5>3
        <5> QED BY <5>4, <1>4 DEF DeclsOf, s
      <4>2. \A j \in DeclsOf(y, s) : symbols'[s][j] = symbols[s][j]
        BY <3>3 DEF DeclsOf
      <4>3. post_parse_table'[s][y] = View[k][y]  BY <1>1, <1>2, <1>6, <3>1, <3>4
      <4>4. DeclsOf(y, alive[k])' = DeclsOf(y, alive[k])  BY <4>1, <3>1, <1>4 DEF s
      <4> QED BY <2>2, <2>3, <3>1, <3>4, <4>2, <4>3, <4>4
    <3>5. CASE y = x
      <4>1. DeclsOf(x, s) = {}  BY <2>2, <2>5, <3>1, <3>5, <1>3
      <4>2. \A j \in DOMAIN symbols'[s] : symbols'[s][j].name = x <=> j = l
        <5>1. \A j \in 1..l : j = l \/ j \in 1..(l - 1)  BY <3>3
        <5>2. \A j \in 1..(l - 1) : symbols[s][j].name # x  BY <3>3, <4>1 DEF DeclsOf
        <5>3. e.name = x /\ l \in 1..l  BY <3>3 DEF e
        <5>4. \A j \in 1..(l - 1) : symbols'[s][j].name # x  BY <5>2, <3>3
        <5> QED BY <5>1, <5>3, <5>4, <3>3
      <4>3. \A j : j \in DeclsOf(y, alive[k])' <=> j \in DOMAIN symbols'[s] /\ symbols'[s][j].name = x
        BY <3>1, <3>5, <1>4 DEF DeclsOf, s
      <4>4. l \in DOMAIN symbols'[s]  BY <3>3
      <4>5. \A j : j \in DeclsOf(y, alive[k])' <=> j = l  BY <4>2, <4>3, <4>4
      <4>6. post_parse_table'[alive[k]][y] # None
        BY <1>6, <3>1, <3>5 DEF SymbolIds, None
      <4>7. symbols'[s][l].previous = symbol_table[x]  BY <3>3 DEF e, Previous
      <4>8. symbol_table[x] = Meaning(k - 1)[x]
        <5>1. View # <<>> /\ View[n][x] = None  BY <1>1, <1>3, <3>1
        <5>2. Chain!Nearest(View)[x] = Chain!Nearest(SubSeq(View, 1, n - 1))[x]
          BY <1>1, <5>1, NearestTop
        <5> QED BY <5>2, <2>5, <3>1 DEF ChainInv, TableIsNearest, Meaning
      <4> QED BY <2>3, <3>1, <3>5, <4>5, <4>6, <4>7, <4>8
    <3> QED BY <3>4, <3>5
  <2> QED BY <2>4, <2>5
<1> QED BY <1>3, <1>9, <1>10, <1>11, <1>12, <1>13 DEF ChainInv

-----------------------------------------------------------------------------
(* Opening and leaving a scope, and steps that declare nothing. *)

LEMMA SamePrefix ==
  ASSUME NEW c \in Seq(Definitions), NEW e \in Seq(Definitions), NEW n \in Nat,
         n <= Len(c), n <= Len(e), \A m \in 1..n : c[m] = e[m]
  PROVE  SubSeq(c, 1, n) = SubSeq(e, 1, n)
<1>1. \A m \in 1..n : c[m] \in Definitions /\ e[m] \in Definitions
  <2> TAKE m \in 1..n
  <2>1. m \in 1..Len(c) /\ m \in 1..Len(e)  OBVIOUS
  <2> QED BY <2>1
<1>2. /\ SubSeq(c, 1, n) \in Seq(Definitions) /\ Len(SubSeq(c, 1, n)) = n
      /\ \A m \in 1..n : SubSeq(c, 1, n)[m] = c[m]
  BY <1>1, SubSeqProperties
<1>3. /\ SubSeq(e, 1, n) \in Seq(Definitions) /\ Len(SubSeq(e, 1, n)) = n
      /\ \A m \in 1..n : SubSeq(e, 1, n)[m] = e[m]
  BY <1>1, SubSeqProperties
<1> DEFINE p == SubSeq(c, 1, n)
           q == SubSeq(e, 1, n)
<1>4. \A m \in 1..n : p[m] = q[m]  BY <1>2, <1>3
<1> HIDE DEF p, q
<1> QED BY <1>2, <1>3, <1>4, SeqEqual DEF p, q

LEMMA Keeping ==
  ASSUME Inv, ChainInv, UNCHANGED <<tables, alive>>,
         free_scope_id' \in Nat, free_scope_id <= free_scope_id',
         free_symbol_id' \in Nat, free_symbol_id <= free_symbol_id'
  PROVE  ChainInv' /\ View' = View
<1>1. /\ symbol_table' = symbol_table /\ declared_in' = declared_in /\ symbols' = symbols
      /\ post_parse_table' = post_parse_table /\ alive' = alive
  BY DEF tables
<1>2. View' = View  BY <1>1 DEF View
<1>3. TableIsNearest'  BY <1>1, <1>2 DEF ChainInv, TableIsNearest
<1>4. HiddenIsKept'
  BY <1>1, <1>2 DEF ChainInv, HiddenIsKept, HiddenAt, DeclsOf, Meaning
<1>5. OwnDefinitions'
  <2> SUFFICES ASSUME NEW s \in ScopeIds, NEW x \in Names, post_parse_table[s][x] # None
               PROVE  /\ declared_in[post_parse_table[s][x]] = s
                      /\ post_parse_table[s][x] < free_symbol_id'
    BY <1>1 DEF OwnDefinitions
  <2>1. declared_in[post_parse_table[s][x]] = s /\ post_parse_table[s][x] < free_symbol_id
    BY DEF ChainInv, OwnDefinitions
  <2>2. post_parse_table[s][x] \in Nat /\ free_symbol_id \in Nat
    BY Bounds, TablesTyped DEF TableTypes, Inv
  <2> QED BY <2>1, <2>2
<1>6. UnopenedDefineNothing'
  BY <1>1, Bounds DEF ChainInv, UnopenedDefineNothing, Inv
<1> QED BY <1>2, <1>3, <1>4, <1>5, <1>6 DEF ChainInv

LEMMA Opening ==
  ASSUME Inv, ChainInv, NewNestedScope, UNCHANGED tables,
         free_symbol_id' \in Nat, free_symbol_id <= free_symbol_id'
  PROVE  ChainInv' /\ View' = Append(View, Chain!Undefined)
<1> DEFINE n == Len(alive)
           u == Chain!Undefined
<1>0. TypeOK /\ TableTypes  BY TablesTyped DEF Inv
<1>1. /\ View \in Seq(Definitions) /\ Len(View) = n /\ n \in Nat \ {0}
      /\ DOMAIN View = 1..n /\ DOMAIN alive = 1..n
      /\ \A k \in DOMAIN alive : alive[k] \in ScopeIds /\ View[k] = post_parse_table[alive[k]]
  BY <1>0, ViewTyped
<1>2. /\ free_scope_id \in ScopeIds /\ free_scope_id' = free_scope_id + 1
      /\ free_scope_id \in Nat /\ free_scope_id' \in Nat /\ TablesInv
  BY OpenKeepsTables, Bounds DEF Inv
<1>3. /\ symbol_table' = symbol_table /\ declared_in' = declared_in /\ symbols' = symbols
      /\ post_parse_table' = post_parse_table /\ alive' = Append(alive, free_scope_id)
  BY DEF tables, NewNestedScope, FreeScopeId
<1>4. u \in Definitions /\ post_parse_table[free_scope_id] = u
  <2>1. u \in Definitions  BY DEF Chain!Undefined, Definitions
  <2>2. post_parse_table[free_scope_id] \in Definitions
    BY <1>0, <1>2 DEF TableTypes, Definitions
  <2>3. \A x \in Names : post_parse_table[free_scope_id][x] = None
    BY <1>2 DEF ChainInv, UnopenedDefineNothing
  <2> QED BY <2>1, <2>2, <2>3 DEF Chain!Undefined, Definitions
<1>5. /\ alive' \in Seq(ScopeIds) /\ Len(alive') = n + 1 /\ DOMAIN alive' = 1..(n + 1)
      /\ \A k \in 1..n : alive'[k] = alive[k]
      /\ alive'[n + 1] = free_scope_id
  <2>1. alive \in Seq(ScopeIds)  BY <1>0 DEF TypeOK
  <2> QED BY <2>1, <1>2, <1>3, AppendProperties
<1>6. Append(View, u) \in Seq(Definitions) /\ Len(Append(View, u)) = n + 1
      /\ (\A k \in 1..n : Append(View, u)[k] = View[k]) /\ Append(View, u)[n + 1] = u
  <2> HIDE DEF u
  <2> DEFINE V == View
  <2> HIDE DEF V
  <2>1. V \in Seq(Definitions) /\ Len(V) = n  BY <1>1 DEF V
  <2>2. Append(V, u) \in Seq(Definitions) /\ Len(Append(V, u)) = n + 1
        /\ (\A k \in 1..n : Append(V, u)[k] = V[k]) /\ Append(V, u)[n + 1] = u
    BY <2>1, <1>4, AppendProperties
  <2> QED BY <2>2 DEF V
<1> HIDE DEF n, u
<1>7. View' = Append(View, u)
  <2>1. View' = [k \in 1..(n + 1) |-> post_parse_table[alive'[k]]]
    BY <1>3, <1>5 DEF View
  <2>2. \A k \in 1..(n + 1) : k = n + 1 \/ k \in 1..n  BY <1>1
  <2>3. \A k \in 1..(n + 1) : Append(View, u)[k] = post_parse_table[alive'[k]]
    BY <2>2, <1>1, <1>4, <1>5, <1>6
  <2> DEFINE A == Append(View, u)
  <2>4. A = [k \in 1..(n + 1) |-> A[k]]
    <3> HIDE DEF A
    <3>1. A \in Seq(Definitions) /\ Len(A) = n + 1  BY <1>6 DEF A
    <3> QED BY <3>1
  <2>5. \A k \in 1..(n + 1) : A[k] = post_parse_table[alive'[k]]  BY <2>3
  <2> HIDE DEF A
  <2>6. A = [k \in 1..(n + 1) |-> post_parse_table[alive'[k]]]  BY <2>4, <2>5
  <2> QED BY <2>1, <2>6 DEF A
<1>8. \A m \in 0..n : Meaning(m)' = Meaning(m)
  <2> TAKE m \in 0..n
  <2>1. SubSeq(Append(View, u), 1, m) = SubSeq(View, 1, m)
    <3> DEFINE A == Append(View, u)
               V == View
    <3>1. A \in Seq(Definitions) /\ V \in Seq(Definitions) /\ m \in Nat
          /\ m <= Len(A) /\ m <= Len(V) /\ \A k \in 1..m : A[k] = V[k]
      BY <1>1, <1>6
    <3> HIDE DEF A, V
    <3>2. SubSeq(A, 1, m) = SubSeq(V, 1, m)  BY <3>1, SamePrefix
    <3> QED BY <3>2 DEF A, V
  <2> QED BY <2>1, <1>7 DEF Meaning
<1>9. TableIsNearest'
  <2> DEFINE A == Append(View, u)
  <2>1. A \in Seq(Definitions) /\ A # <<>> /\ Len(A) = n + 1 /\ \A x \in Names : A[n + 1][x] = None
    BY <1>1, <1>6 DEF u, Chain!Undefined
  <2>2. SubSeq(A, 1, n) = View
    <3>1. n \in 0..n  BY <1>1
    <3>2. \A k \in 1..n : A[k] = View[k]  BY <1>6
    <3> DEFINE V == View
    <3>3. V \in Seq(Definitions) /\ n <= Len(A) /\ n = Len(V) /\ n \in Nat  BY <1>1, <2>1
    <3>4. \A k \in 1..n : A[k] = V[k]  BY <3>2
    <3> HIDE DEF A, V
    <3>5. SubSeq(A, 1, n) = SubSeq(V, 1, n)  BY <2>1, <3>3, <3>4, SamePrefix
    <3>6. SubSeq(V, 1, n) = V  BY <3>3, SubSeqFull
    <3> QED BY <3>5, <3>6 DEF V
  <2> HIDE DEF A
  <2>3. \A x \in Names : Chain!Nearest(A)[x] = Chain!Nearest(View)[x]
    <3> TAKE x \in Names
    <3>1. Chain!Nearest(A)[x] = Chain!Nearest(SubSeq(A, 1, Len(A) - 1))[x]
      BY <2>1, NearestTop
    <3>2. Len(A) - 1 = n  BY <2>1, <1>1
    <3> QED BY <3>1, <3>2, <2>2
  <2>4. Chain!Nearest(A) \in Definitions /\ Chain!Nearest(View) \in Definitions
    BY <2>1, <1>1, NearestTyped
  <2>5. Chain!Nearest(A) = Chain!Nearest(View)  BY <2>3, <2>4 DEF Definitions
  <2> QED BY <2>5, <1>3, <1>7 DEF A, ChainInv, TableIsNearest
<1>10. OwnDefinitions'
  <2> SUFFICES ASSUME NEW s \in ScopeIds, NEW x \in Names, post_parse_table[s][x] # None
               PROVE  /\ declared_in[post_parse_table[s][x]] = s
                      /\ post_parse_table[s][x] < free_symbol_id'
    BY <1>3 DEF OwnDefinitions
  <2>1. declared_in[post_parse_table[s][x]] = s /\ post_parse_table[s][x] < free_symbol_id
    BY DEF ChainInv, OwnDefinitions
  <2>2. post_parse_table[s][x] \in Nat /\ free_symbol_id \in Nat
    BY <1>0, Bounds DEF TableTypes
  <2> QED BY <2>1, <2>2
<1>11. UnopenedDefineNothing'
  BY <1>0, <1>2, <1>3, Bounds DEF ChainInv, UnopenedDefineNothing
<1>12. HiddenIsKept'
  <2> SUFFICES ASSUME NEW k \in 1..(n + 1), k > 1, NEW x \in Names
               PROVE  HiddenAt(k, x)'
    BY <1>5 DEF HiddenIsKept
  <2>1. CASE k = n + 1
    <3>1. symbols'[alive'[k]] = <<>> /\ post_parse_table'[alive'[k]] = u
      BY <2>1, <1>2, <1>3, <1>4, <1>5 DEF TablesInv, UnopenedAreEmpty
    <3>2. DeclsOf(x, alive[k])' = {}  BY <3>1 DEF DeclsOf
    <3> QED BY <3>1, <3>2 DEF HiddenAt, u, Chain!Undefined
  <2>2. CASE k # n + 1
    <3>1. k \in DOMAIN alive /\ alive'[k] = alive[k] /\ k - 1 \in 0..n  BY <2>2, <1>1, <1>5
    <3>2. HiddenAt(k, x)  BY <3>1 DEF ChainInv, HiddenIsKept
    <3>3. symbols' = symbols /\ post_parse_table' = post_parse_table  BY <1>3
    <3>4. DeclsOf(x, alive[k])' = DeclsOf(x, alive[k])  BY <3>1, <3>3 DEF DeclsOf
    <3>5. Meaning(k - 1)' = Meaning(k - 1)  BY <3>1, <1>8
    <3> QED BY <3>1, <3>2, <3>3, <3>4, <3>5 DEF HiddenAt
  <2> QED BY <2>1, <2>2
<1> QED BY <1>7, <1>9, <1>10, <1>11, <1>12 DEF ChainInv, u

LEMMA Closing ==
  ASSUME Inv, ChainInv, RestoreScope, Len(alive) > 1,
         UNCHANGED <<free_scope_id, free_symbol_id>>
  PROVE  ChainInv' /\ View' = SubSeq(View, 1, Len(View) - 1)
<1> DEFINE n == Len(alive)
           top == alive[n]
           F == SubSeq(View, 1, n - 1)
<1>0. TypeOK /\ TableTypes /\ TableTypes'
  BY TablesTyped, RestoreKeepsTables DEF Inv
<1>1. /\ View \in Seq(Definitions) /\ Len(View) = n /\ n \in Nat \ {0} /\ View # <<>>
      /\ DOMAIN View = 1..n /\ DOMAIN alive = 1..n
      /\ \A k \in DOMAIN alive : alive[k] \in ScopeIds /\ View[k] = post_parse_table[alive[k]]
  BY <1>0, ViewTyped
<1>2. /\ alive' \in Seq(ScopeIds) /\ Len(alive') = n - 1
      /\ \A k \in DOMAIN alive' : k \in DOMAIN alive /\ k < n /\ alive'[k] = alive[k]
  <2>1. alive \in Seq(ScopeIds) /\ alive # <<>>  BY <1>0 DEF TypeOK
  <2> QED BY <2>1, Popping DEF RestoreScope
<1>3. /\ symbol_table' = UndoTables(top) /\ declared_in' = declared_in /\ symbols' = symbols
      /\ post_parse_table' = post_parse_table
  BY DEF RestoreScope, current_scope
<1>4. F \in Seq(Definitions) /\ Len(F) = n - 1 /\ \A k \in 1..(n - 1) : F[k] = View[k]
  <2>1. n - 1 \in 0..Len(alive)  BY <1>1
  <2> QED BY <1>0, <2>1, PrefixTyped
<1>5. n \in DOMAIN alive /\ top \in ScopeIds /\ View[n] = post_parse_table[top]  BY <1>1
<1>6. DOMAIN alive' = 1..(n - 1)  BY <1>1, <1>2
<1> HIDE DEF n, top, F
<1>7. View' = F
  <2>1. View' = [k \in 1..(n - 1) |-> post_parse_table[alive'[k]]]
    BY <1>3, <1>6 DEF View
  <2>2. \A k \in 1..(n - 1) : F[k] = post_parse_table[alive'[k]]
    BY <1>1, <1>2, <1>4, <1>6
  <2>3. F = [k \in 1..(n - 1) |-> F[k]]  BY <1>4
  <2> QED BY <2>1, <2>2, <2>3
<1>8. TableIsNearest'
  <2>1. \A x \in Names : UndoTables(top)[x] = Chain!Nearest(F)[x]
    <3> TAKE x \in Names
    <3>0. HiddenAt(n, x)  BY <1>5 DEF ChainInv, HiddenIsKept, n
    <3>1. CASE DeclsOf(x, top) = {}
      <4>1. View[n][x] = None  BY <3>0, <3>1, <1>5 DEF HiddenAt, top
      <4>2. Chain!Nearest(View)[x] = Chain!Nearest(F)[x]
        <5>1. View[Len(View)][x] = None /\ SubSeq(View, 1, Len(View) - 1) = F
          BY <4>1, <1>1 DEF F
        <5> QED BY <5>1, <1>1, NearestTop
      <4>3. UndoTables(top)[x] = symbol_table[x]  BY <3>1 DEF UndoTables
      <4> QED BY <4>2, <4>3 DEF ChainInv, TableIsNearest
    <3>2. CASE DeclsOf(x, top) # {}
      <4> DEFINE j == Max(DeclsOf(x, top))
      <4>1. j \in DeclsOf(x, top)
        <5>1. j \in DOMAIN symbols[top] /\ symbols[top][j].name = x
          BY <3>2, <1>0, <1>5, LastDecl
        <5> HIDE DEF j
        <5> QED BY <5>1 DEF DeclsOf
      <4>2. UndoTables(top)[x] = symbols[top][j].previous  BY <3>2 DEF UndoTables
      <4> HIDE DEF j
      <4>3. symbols[top][j].previous = Meaning(n - 1)[x]
        BY <3>0, <4>1 DEF HiddenAt, top
      <4> QED BY <4>2, <4>3 DEF Meaning, F
    <3> QED BY <3>1, <3>2
  <2>2. symbol_table' \in Definitions /\ Chain!Nearest(F) \in Definitions
    BY <1>0, <1>4, NearestTyped DEF TableTypes, Definitions
  <2>3. symbol_table' = Chain!Nearest(F)  BY <1>3, <2>1, <2>2 DEF Definitions
  <2> QED BY <2>3, <1>7 DEF TableIsNearest
<1>9. OwnDefinitions' /\ UnopenedDefineNothing'
  BY <1>3 DEF ChainInv, OwnDefinitions, UnopenedDefineNothing
<1>10. HiddenIsKept'
  <2> SUFFICES ASSUME NEW k \in 1..(n - 1), k > 1, NEW x \in Names
               PROVE  HiddenAt(k, x)'
    BY <1>6 DEF HiddenIsKept
  <2>1. k \in DOMAIN alive /\ alive'[k] = alive[k] /\ k - 1 \in Nat /\ k - 1 <= n - 1
        /\ n - 1 \in Nat
    BY <1>1, <1>2, <1>6
  <2>2. HiddenAt(k, x)  BY <2>1 DEF ChainInv, HiddenIsKept
  <2>3. DeclsOf(x, alive[k])' = DeclsOf(x, alive[k])  BY <2>1, <1>3 DEF DeclsOf
  <2>4. Meaning(k - 1)' = Meaning(k - 1)
    <3>1. SubSeq(F, 1, k - 1) = SubSeq(View, 1, k - 1)
      <4> DEFINE V == View
      <4>1. /\ V \in Seq(Definitions) /\ k - 1 <= Len(F) /\ k - 1 <= Len(V)
            /\ \A m \in 1..(k - 1) : F[m] = V[m]
        BY <1>1, <1>4, <2>1
      <4> HIDE DEF V
      <4>2. SubSeq(F, 1, k - 1) = SubSeq(V, 1, k - 1)  BY <4>1, <1>4, <2>1, SamePrefix
      <4> QED BY <4>2 DEF V
    <3> QED BY <3>1, <1>7 DEF Meaning
  <2> QED BY <1>3, <2>1, <2>2, <2>3, <2>4 DEF HiddenAt
<1>11. View' = SubSeq(View, 1, Len(View) - 1)  BY <1>1, <1>7 DEF F
<1> QED BY <1>8, <1>9, <1>10, <1>11 DEF ChainInv

-----------------------------------------------------------------------------
(* What the parser sees. *)

InView == [i \in DOMAIN ScopesInView |-> post_parse_table[ScopesInView[i]]]

LEMMA SeesTheView ==
  ASSUME TypeOK, ParserSeesThem
  PROVE  InView = View
<1> DEFINE q == [i \in DOMAIN frames |-> frames[i].scope]
           n == Len(frames)
<1>1. /\ frames \in Seq(FrameRecords) /\ n \in Nat /\ DOMAIN frames = 1..n
      /\ \A i \in 1..n : frames[i].scope \in ScopeIds
  <2>1. frames \in Seq(FrameRecords)  BY DEF TypeOK, FrameRecords
  <2>2. n \in Nat /\ DOMAIN frames = 1..n /\ \A i \in 1..n : frames[i] \in FrameRecords
    <3> HIDE DEF FrameRecords
    <3> QED BY <2>1
  <2> HIDE DEF n
  <2>3. \A i \in 1..n : frames[i].scope \in ScopeIds  BY <2>2 DEF FrameRecords
  <2> QED BY <2>1, <2>2, <2>3
<1>2. q \in Seq(ScopeIds) /\ Len(q) = n /\ \A i \in 1..n : q[i] = frames[i].scope
  <2> HIDE DEF n
  <2>1. q = [i \in 1..n |-> frames[i].scope]  BY <1>1
  <2>2. q \in Seq(ScopeIds)  BY <1>1, <2>1, IsASeq
  <2> QED BY <1>1, <2>1, <2>2
<1>3. /\ alive \in Seq(ScopeIds) /\ Len(alive) = n + 1 /\ alive[1] = Global
      /\ \A i \in 1..n : frames[i].scope = alive[i + 1]
  BY <1>1 DEF TypeOK, ParserSeesThem
<1>4. Global \in ScopeIds  BY GlobalIsOpen
<1> HIDE DEF q, n
<1>5. ScopesInView \in Seq(ScopeIds) /\ Len(ScopesInView) = n + 1
      /\ \A i \in 1..(n + 1) : ScopesInView[i] = IF i = 1 THEN Global ELSE q[i - 1]
  <2>1. <<Global>> \in Seq(ScopeIds) /\ Len(<<Global>>) = 1 /\ <<Global>>[1] = Global
    BY <1>4
  <2> DEFINE g == <<Global>>
  <2> HIDE DEF g
  <2>2. g \in Seq(ScopeIds) /\ Len(g) = 1 /\ g[1] = Global  BY <2>1 DEF g
  <2>3. /\ g \o q \in Seq(ScopeIds) /\ Len(g \o q) = n + 1
        /\ \A i \in 1..(n + 1) : (g \o q)[i] = IF i <= 1 THEN g[i] ELSE q[i - 1]
    <3>1. /\ g \o q \in Seq(ScopeIds) /\ Len(g \o q) = Len(g) + Len(q)
          /\ \A i \in 1..(Len(g) + Len(q)) :
               (g \o q)[i] = IF i <= Len(g) THEN g[i] ELSE q[i - Len(g)]
      BY <2>2, <1>2, ConcatProperties
    <3>2. Len(g) + Len(q) = n + 1  BY <2>2, <1>1, <1>2
    <3> QED BY <2>2, <3>1, <3>2
  <2>4. \A i \in 1..(n + 1) : i <= 1 <=> i = 1  BY <1>1
  <2> QED BY <2>2, <2>3, <2>4 DEF ScopesInView, g, q
<1>6. \A i \in 1..(n + 1) : ScopesInView[i] = alive[i]
  <2> TAKE i \in 1..(n + 1)
  <2>1. CASE i = 1  BY <2>1, <1>3, <1>5
  <2>2. CASE i # 1
    <3>1. i - 1 \in 1..n /\ (i - 1) + 1 = i  BY <2>2, <1>1
    <3> QED BY <3>1, <2>2, <1>2, <1>3, <1>5
  <2> QED BY <2>1, <2>2
<1>7. ScopesInView = alive  BY <1>3, <1>5, <1>6, SeqEqual
<1> QED BY <1>7 DEF InView, View

(* The steps of the chain, and none. *)
ChainStep ==
  \/ View' = View
  \/ View' = Append(View, Chain!Undefined)
  \/ Len(View) > 1 /\ View' = SubSeq(View, 1, Len(View) - 1)
  \/ \E i \in {1, Len(View)}, x \in Names, d \in SymbolIds :
       /\ View[i][x] = None
       /\ \A k \in DOMAIN View, y \in Names : View[k][y] # d
       /\ View' = [View EXCEPT ![i][x] = d]

(* A symbol id that was not given out defines nothing. *)
LEMMA FreeIsFresh ==
  ASSUME TypeOK, OwnDefinitions
  PROVE  \A s \in ScopeIds, x \in Names : post_parse_table[s][x] # free_symbol_id
<1> SUFFICES ASSUME NEW s \in ScopeIds, NEW x \in Names,
                    post_parse_table[s][x] = free_symbol_id
             PROVE  FALSE
  OBVIOUS
<1>1. free_symbol_id \in Nat /\ free_symbol_id # None  BY Bounds DEF TypeOK, None
<1>2. post_parse_table[s][x] < free_symbol_id  BY <1>1 DEF OwnDefinitions
<1> QED BY <1>1, <1>2

(* A function whose parameters are parsed has no block open. *)
LEMMA NotInParameters ==
  ASSUME TypeOK, FramesInv, InParameters, InFrame(Blocks)
  PROVE  frames[1].kind # "parameters"
<1> SUFFICES ASSUME frames[1].kind = "parameters" PROVE FALSE
  OBVIOUS
<1>1. frames # <<>> /\ Frame.kind \in Blocks  BY DEF InFrame
<1>2. Len(frames) = 1  BY <1>1 DEF InParameters
<1> QED BY <1>1, <1>2 DEF Frame, Blocks

(* The innermost scope the parser sees is the current one. *)
LEMMA SeesCurrent ==
  ASSUME TypeOK, FramesInv, ParserSeesThem, frames # <<>>
  PROVE  /\ scope_inht = alive[Len(alive)] /\ Len(alive) = Len(frames) + 1
         /\ Len(frames) \in Nat \ {0}
<1>1. Len(frames) \in Nat \ {0} /\ Len(frames) \in DOMAIN frames  BY InnermostFrame
<1>2. scope_inht = frames[Len(frames)].scope  BY DEF scope_inht, Frame
<1> QED BY <1>1, <1>2 DEF ParserSeesThem

-----------------------------------------------------------------------------
(* Every step preserves the invariant, and is a step of the chain or none.  *)

LEMMA InitClean == Init => CleanInv /\ View = <<Chain!Undefined>>
<1> SUFFICES ASSUME Init PROVE CleanInv /\ View = <<Chain!Undefined>>
  OBVIOUS
<1>1. Inv /\ TypeOK  BY InitInv DEF Inv
<1>2. /\ alive = <<0>> /\ frames = <<>> /\ ~broken /\ Global = 0 /\ 0 \in ScopeIds
      /\ \A s \in ScopeIds : post_parse_table[s] = Chain!Undefined
      /\ symbol_table = Chain!Undefined
  BY GlobalIsOpen, <1>1 DEF Init, Global, Chain!Undefined
<1>3. DOMAIN alive = {1} /\ Len(alive) = 1 /\ Len(frames) = 0 /\ DOMAIN frames = {}
  BY <1>2
<1>4. View = <<Chain!Undefined>>
  <2> DEFINE u == Chain!Undefined
  <2>1. View = [i \in {1} |-> u]
    <3>1. \A i \in {1} : post_parse_table[alive[i]] = u  BY <1>2
    <3> HIDE DEF u
    <3> QED BY <3>1, <1>3 DEF View
  <2> HIDE DEF u
  <2>2. <<u>> = [i \in {1} |-> u]  OBVIOUS
  <2> QED BY <2>1, <2>2 DEF u
<1>5. TableIsNearest
  <2> DEFINE V == View
  <2>1. V \in Seq(Definitions)  BY <1>1, ViewTyped
  <2>2. \A x \in Names : \A m \in DOMAIN V : V[m][x] = None
    BY <1>2, <1>3 DEF View, Chain!Undefined
  <2> HIDE DEF V
  <2>3. \A x \in Names : Chain!Nearest(V)[x] = None  BY <2>1, <2>2, NearestNone
  <2>4. Chain!Nearest(V) \in Definitions  BY <2>1, NearestTyped
  <2>5. Chain!Nearest(V) = Chain!Undefined  BY <2>3, <2>4 DEF Definitions, Chain!Undefined
  <2> QED BY <2>5, <1>2 DEF V, TableIsNearest
<1>6. OwnDefinitions /\ UnopenedDefineNothing
  BY <1>2 DEF OwnDefinitions, UnopenedDefineNothing, Chain!Undefined
<1>7. HiddenIsKept /\ ParserSeesThem /\ InParameters
  BY <1>2, <1>3 DEF HiddenIsKept, ParserSeesThem, InParameters
<1> QED BY <1>1, <1>4, <1>5, <1>6, <1>7 DEF CleanInv, ChainInv

(* A new scope, for an activation of its own. *)
LEMMA OpeningSeen ==
  ASSUME TypeOK, ParserSeesThem, NewNestedScope, UNCHANGED broken,
         NEW kind \in Kinds, frames' = Append(frames, [kind |-> kind, scope |-> free_scope_id])
  PROVE  /\ ParserSeesThem'
         /\ frames # <<>> => frames'[1] = frames[1]
<1> DEFINE n == Len(frames)
           r == [kind |-> kind, scope |-> free_scope_id]
<1>1. frames \in Seq(FrameRecords) /\ alive \in Seq(ScopeIds)
  BY DEF TypeOK, FrameRecords
<1>2. free_scope_id \in ScopeIds /\ r \in FrameRecords
  <2>1. free_scope_id \in ScopeIds
    BY Bounds DEF TypeOK, NewNestedScope, ScopeIds, Global
  <2> QED BY <2>1 DEF FrameRecords
<1>3. /\ n \in Nat /\ DOMAIN frames' = 1..(n + 1) /\ Len(frames') = n + 1
      /\ \A i \in 1..n : frames'[i] = frames[i]
      /\ frames'[n + 1] = r
  <2>1. frames' = Append(frames, r)  OBVIOUS
  <2> HIDE DEF r, FrameRecords
  <2> QED BY <2>1, <1>1, <1>2, AppendProperties
<1>4. /\ Len(alive) = n + 1 /\ Len(alive') = (n + 1) + 1
      /\ \A i \in 1..(n + 1) : alive'[i] = alive[i]
      /\ alive'[(n + 1) + 1] = free_scope_id
  <2>1. Len(alive) = n + 1  BY DEF ParserSeesThem
  <2>2. alive' = Append(alive, free_scope_id)  BY DEF NewNestedScope, FreeScopeId
  <2> HIDE DEF n
  <2> QED BY <2>1, <2>2, <1>1, <1>2, <1>3, AppendProperties
<1>5. DOMAIN frames = 1..n  BY <1>1
<1>6. frames # <<>> => 1 \in 1..n  BY <1>1, <1>3, EmptySeq
<1> HIDE DEF n
<1>7. \A i \in 1..(n + 1) : frames'[i].scope = alive'[i + 1]
  <2> TAKE i \in 1..(n + 1)
  <2>1. CASE i = n + 1  BY <2>1, <1>3, <1>4
  <2>2. CASE i # n + 1
    <3>1. i \in 1..n /\ i + 1 \in 1..(n + 1)  BY <2>2, <1>3
    <3> QED BY <3>1, <1>3, <1>4, <1>5 DEF ParserSeesThem
  <2> QED BY <2>1, <2>2
<1>8. alive'[1] = Global
  <2>1. 1 \in 1..(n + 1)  BY <1>3
  <2> QED BY <2>1, <1>4 DEF ParserSeesThem
<1> QED BY <1>3, <1>4, <1>6, <1>7, <1>8 DEF ParserSeesThem

(* The innermost scope is left with its activation. *)
LEMMA ClosingSeen ==
  ASSUME TypeOK, FramesInv, ParserSeesThem, frames # <<>>, UNCHANGED broken,
         frames' = Popped, alive' = SubSeq(alive, 1, Len(alive) - 1)
  PROVE  /\ ParserSeesThem'
         /\ frames' # <<>> => frames'[1] = frames[1]
<1> DEFINE n == Len(frames)
<1>1. /\ frames' \in Seq(FrameRecords) /\ Len(frames') = n - 1 /\ n \in Nat \ {0}
      /\ \A i \in DOMAIN frames' : i \in DOMAIN frames /\ frames'[i] = frames[i]
  <2>1. frames \in Seq(FrameRecords)  BY DEF TypeOK, FrameRecords
  <2>2. frames' = SubSeq(frames, 1, Len(frames) - 1)  BY DEF Popped
  <2> HIDE DEF FrameRecords
  <2> QED BY <2>1, <2>2, Popping
<1>2. /\ Len(alive) = n + 1 /\ Len(alive') = Len(alive) - 1
      /\ \A i \in DOMAIN alive' : i \in DOMAIN alive /\ alive'[i] = alive[i]
      /\ alive' \in Seq(ScopeIds)
  <2>1. alive \in Seq(ScopeIds) /\ alive # <<>>  BY DEF TypeOK
  <2> QED BY <2>1, Popping DEF ParserSeesThem
<1>3. DOMAIN frames' = 1..(n - 1)  BY <1>1
<1> HIDE DEF n
<1>4. DOMAIN alive' = 1..n /\ Len(alive') = n  BY <1>1, <1>2
<1>5. \A i \in DOMAIN frames' : frames'[i].scope = alive'[i + 1]
  <2> TAKE i \in DOMAIN frames'
  <2>1. i + 1 \in DOMAIN alive'  BY <1>1, <1>3, <1>4
  <2> QED BY <2>1, <1>1, <1>2 DEF ParserSeesThem
<1>6. alive'[1] = Global
  <2>1. 1 \in DOMAIN alive'  BY <1>1, <1>4
  <2> QED BY <2>1, <1>2 DEF ParserSeesThem
<1>7. frames' # <<>> => 1 \in DOMAIN frames'
  <2> HIDE DEF FrameRecords
  <2> QED BY <1>1, EmptySeq
<1>8. Len(alive') = Len(frames') + 1  BY <1>1, <1>4
<1> QED BY <1>1, <1>5, <1>6, <1>7, <1>8 DEF ParserSeesThem

CleanStep == ChainInv' /\ ParserSeesThem' /\ InParameters' /\ ChainStep

(* A variable or a parameter, declared in the innermost scope. *)
LEMMA DeclaringClean ==
  ASSUME CleanInv, NEW x \in Names, frames # <<>>, TakeSymbolId,
         Frame.kind = "parameters" => x # func.name,
         IsDeclValid(x, scope_inht), RegisterDecl(x, scope_inht, FreeSymbolId),
         UNCHANGED <<alive, free_scope_id, frames, func, class, members, name_types, broken>>
  PROVE  CleanStep
<1> DEFINE i == Len(alive)
           d == free_symbol_id
<1>1. Inv /\ ChainInv /\ TypeOK /\ FramesInv /\ ParserSeesThem /\ InParameters
  BY DEF CleanInv, Inv
<1>2. /\ DOMAIN alive = 1..i /\ i \in Nat \ {0} /\ Len(View) = i /\ DOMAIN View = 1..i
      /\ \A k \in DOMAIN alive : alive[k] \in ScopeIds /\ View[k] = post_parse_table[alive[k]]
  BY <1>1, ViewTyped
<1>3. scope_inht = alive[i] /\ i = Len(frames) + 1 /\ Len(frames) \in Nat \ {0}
  BY <1>1, SeesCurrent
<1>4. /\ d \in SymbolIds /\ free_symbol_id' = d + 1 /\ free_symbol_id \in Nat
      /\ RegisterDecl(x, alive[i], d) /\ IsDeclValid(x, alive[i])
  BY <1>1, <1>3, SymbolTaken, Bounds DEF TakeSymbolId, FreeSymbolId
<1>5. \A s \in ScopeIds, y \in Names : post_parse_table[s][y] # d
  BY <1>1, FreeIsFresh DEF ChainInv
<1>6. \A m \in DOMAIN alive : m > i => View[m][x] = None  BY <1>2
<1>7. d < free_symbol_id' /\ free_symbol_id <= free_symbol_id' /\ free_symbol_id' \in Nat
  BY <1>4
<1>8. ChainInv' /\ View[i][x] = None /\ View' = [View EXCEPT ![i][x] = d]
  <2>1. i \in {1, Len(alive)}  OBVIOUS
  <2> HIDE DEF i, d
  <2> QED BY <2>1, <1>1, <1>4, <1>5, <1>6, <1>7, Declaring
<1>9. ChainStep
  <2> HIDE DEF i, d
  <2>1. \A k \in DOMAIN View, y \in Names : View[k][y] # d
    <3> TAKE k \in DOMAIN View, y \in Names
    <3>1. alive[k] \in ScopeIds /\ View[k] = post_parse_table[alive[k]]  BY <1>2
    <3> QED BY <3>1, <1>5
  <2>2. i \in {1, Len(View)}  BY <1>2
  <2> QED BY <1>4, <1>8, <2>1, <2>2 DEF ChainStep
<1>10. ParserSeesThem'  BY <1>1 DEF ParserSeesThem
<1>11. InParameters'
  <2> SUFFICES ASSUME frames[1].kind = "parameters"
               PROVE  /\ Len(frames) = 1
                      /\ post_parse_table'[frames[1].scope][func.name] = None
                      /\ func.symbol < free_symbol_id'
                      /\ \A s \in ScopeIds, y \in Names : post_parse_table'[s][y] # func.symbol
    BY DEF InParameters
  <2>1. /\ Len(frames) = 1 /\ post_parse_table[frames[1].scope][func.name] = None
        /\ func.symbol < d
        /\ \A s \in ScopeIds, y \in Names : post_parse_table[s][y] # func.symbol
    BY <1>1 DEF InParameters
  <2>2. func \in [name : Names, symbol : SymbolIds, member : BOOLEAN] /\ scope_inht \in ScopeIds
    BY <1>1, InnermostFrame
  <2>3. func.symbol \in Nat /\ func.symbol # d
    <3>1. func.symbol \in SymbolIds  BY <2>2
    <3>2. SymbolIds \subseteq Nat /\ d \in Nat  BY <1>1, Bounds
    <3>3. func.symbol \in Nat  BY <3>1, <3>2
    <3>4. func.symbol < d  BY <2>1
    <3> QED BY <3>2, <3>3, <3>4
  <2>4. x # func.name /\ frames[1].scope = scope_inht
    BY <2>1 DEF Frame, scope_inht
  <2>5. post_parse_table' = [post_parse_table EXCEPT ![scope_inht][x] = d]
    BY <1>3, <1>4 DEF RegisterDecl
  <2>6. /\ post_parse_table'[scope_inht][func.name] = post_parse_table[scope_inht][func.name]
        /\ \A s \in ScopeIds, y \in Names :
             post_parse_table'[s][y] \in {post_parse_table[s][y], d}
    <3> HIDE DEF d
    <3>1. post_parse_table \in [ScopeIds -> [Names -> SymbolIds \cup {None}]]
      BY <1>1 DEF TypeOK
    <3> QED BY <3>1, <2>2, <2>4, <2>5
  <2> QED BY <1>4, <2>1, <2>3, <2>4, <2>6
<1> QED BY <1>8, <1>9, <1>10, <1>11 DEF CleanStep

(* A symbol declared in the global scope, when no scope inside has the name. *)
LEMMA DeclaringGlobal ==
  ASSUME Inv, ChainInv, NEW x \in Names, NEW d \in SymbolIds,
         alive[1] = Global, \A m \in DOMAIN alive : m > 1 => View[m][x] = None,
         IsDeclValid(x, Global), RegisterDecl(x, Global, d),
         \A s \in ScopeIds, y \in Names : post_parse_table[s][y] # d,
         d < free_symbol_id', free_symbol_id <= free_symbol_id', free_symbol_id' \in Nat,
         UNCHANGED <<alive, free_scope_id>>
  PROVE  ChainInv' /\ ChainStep
<1>1. TypeOK  BY DEF Inv
<1>2. /\ DOMAIN View = 1..Len(alive) /\ DOMAIN alive = 1..Len(alive)
      /\ \A k \in DOMAIN alive : alive[k] \in ScopeIds /\ View[k] = post_parse_table[alive[k]]
  BY <1>1, ViewTyped
<1>3. ChainInv' /\ View[1][x] = None /\ View' = [View EXCEPT ![1][x] = d]
  <2> DEFINE i == 1
  <2>1. /\ i \in {1, Len(alive)} /\ IsDeclValid(x, alive[i]) /\ RegisterDecl(x, alive[i], d)
        /\ \A m \in DOMAIN alive : m > i => View[m][x] = None
    OBVIOUS
  <2> HIDE DEF i
  <2>2. ChainInv' /\ View[i][x] = None /\ View' = [View EXCEPT ![i][x] = d]
    BY <2>1, Declaring
  <2> QED BY <2>2 DEF i
<1>4. \A k \in DOMAIN View, y \in Names : View[k][y] # d  BY <1>2
<1> QED BY <1>3, <1>4 DEF ChainStep

LEMMA OpenFunctionClean ==
  ASSUME CleanInv, NEW x \in Names, NEW member \in BOOLEAN, OpenFunction(x, member)
  PROVE  CleanStep
<1> DEFINE u == free_scope_id
           r == [kind |-> "parameters", scope |-> u]
<1>1. Inv /\ ChainInv /\ TypeOK /\ ParserSeesThem
  BY DEF CleanInv, Inv
<1>2. /\ NewNestedScope /\ UNCHANGED tables /\ UNCHANGED broken /\ frames = <<>>
      /\ func' = [name |-> x, symbol |-> free_symbol_id, member |-> member]
      /\ frames' = Append(frames, r)
  BY DEF OpenFunction, AtMember, AtTopLevel, Push, FreeScopeId, FreeSymbolId
<1>3. free_symbol_id \in Nat /\ free_symbol_id' = free_symbol_id + 1
      /\ free_symbol_id' \in Nat /\ free_symbol_id <= free_symbol_id'
  BY <1>1, Bounds DEF OpenFunction, TakeSymbolId
<1>4. ChainInv' /\ View' = Append(View, Chain!Undefined)  BY <1>1, <1>2, <1>3, Opening
<1>5. ParserSeesThem'
  <2>1. "parameters" \in Kinds  BY DEF Kinds
  <2> QED BY <2>1, <1>1, <1>2, OpeningSeen
<1>6. InParameters'
  <2>1. frames' = <<r>>  BY <1>2
  <2>2. Len(frames') = 1 /\ frames'[1].scope = u  BY <2>1
  <2>3. post_parse_table' = post_parse_table  BY <1>2 DEF tables
  <2>4. post_parse_table[u][x] = None
    <3>1. u \in ScopeIds /\ u \in Nat
      BY <1>1, <1>2, Bounds DEF NewNestedScope, ScopeIds, Global
    <3> QED BY <3>1, <1>1 DEF ChainInv, UnopenedDefineNothing
  <2>5. \A s \in ScopeIds, y \in Names : post_parse_table[s][y] # free_symbol_id
    BY <1>1, FreeIsFresh DEF ChainInv
  <2>6. func'.name = x /\ func'.symbol = free_symbol_id  BY <1>2
  <2> HIDE DEF u, r
  <2> QED BY <2>2, <2>3, <2>4, <2>5, <2>6, <1>3 DEF InParameters
<1> QED BY <1>4, <1>5, <1>6 DEF CleanStep, ChainStep

LEMMA OpenBlockClean ==
  ASSUME CleanInv, NEW kind \in {"then", "while", "else"}, OpenBlock(kind)
  PROVE  CleanStep
<1>1. Inv /\ ChainInv /\ TypeOK /\ FramesInv /\ ParserSeesThem /\ InParameters
  BY DEF CleanInv, Inv
<1>2. /\ NewNestedScope /\ UNCHANGED tables /\ UNCHANGED broken /\ InFrame(Blocks)
      /\ UNCHANGED free_symbol_id
      /\ frames' = Append(frames, [kind |-> kind, scope |-> free_scope_id])
  BY DEF OpenBlock, Push, FreeScopeId
<1>3. free_symbol_id \in Nat  BY <1>1, Bounds
<1>4. ChainInv' /\ View' = Append(View, Chain!Undefined)  BY <1>1, <1>2, <1>3, Opening
<1>5. ParserSeesThem' /\ frames'[1] = frames[1]
  <2>1. kind \in Kinds /\ frames # <<>>  BY <1>2 DEF Kinds, InFrame
  <2> QED BY <2>1, <1>1, <1>2, OpeningSeen
<1>6. InParameters'  BY <1>1, <1>2, <1>5, NotInParameters DEF InParameters
<1> QED BY <1>4, <1>5, <1>6 DEF CleanStep, ChainStep

LEMMA CloseBlockClean ==
  ASSUME CleanInv, CloseBlock
  PROVE  CleanStep
<1>1. Inv /\ ChainInv /\ TypeOK /\ FramesInv /\ ParserSeesThem /\ InParameters
  BY DEF CleanInv, Inv
<1>2. /\ RestoreScope /\ UNCHANGED broken /\ InFrame(Blocks) /\ frames # <<>>
      /\ UNCHANGED <<free_scope_id, free_symbol_id>> /\ frames' = Popped
      /\ alive' = SubSeq(alive, 1, Len(alive) - 1)
  BY DEF CloseBlock, RestoreScope, InFrame
<1>3. Len(alive) > 1 /\ Len(View) = Len(alive)  BY <1>1, <1>2, InnermostFrame, ViewTyped
<1>4. ChainInv' /\ View' = SubSeq(View, 1, Len(View) - 1)  BY <1>1, <1>2, <1>3, Closing
<1>5. ParserSeesThem' /\ (frames' # <<>> => frames'[1] = frames[1])
  BY <1>1, <1>2, ClosingSeen
<1>6. InParameters'  BY <1>1, <1>2, <1>5, NotInParameters DEF InParameters
<1> QED BY <1>3, <1>4, <1>5, <1>6 DEF CleanStep, ChainStep

(* The function is declared where it was found; its parameters do not have  *)
(* its name.                                                                *)
LEMMA EnterBodyClean ==
  ASSUME CleanInv, EnterBody
  PROVE  CleanStep
<1> DEFINE r == [kind |-> "body", scope |-> scope_inht]
           d == func.symbol
           x == func.name
<1>1. Inv /\ ChainInv /\ TypeOK /\ FramesInv /\ ParserSeesThem /\ InParameters
  BY DEF CleanInv, Inv
<1>2. /\ frames # <<>> /\ Frame.kind = "parameters" /\ frames' = Append(Popped, r)
      /\ UNCHANGED <<alive, free_scope_id, free_symbol_id, broken>>
  BY DEF EnterBody, InFrame
<1>3. /\ Len(frames) = 1 /\ frames[1].kind = "parameters" /\ frames[1].scope = scope_inht
      /\ post_parse_table[scope_inht][x] = None
      /\ d < free_symbol_id
      /\ \A s \in ScopeIds, y \in Names : post_parse_table[s][y] # d
  <2>1. Len(frames) = 1  BY <1>1, <1>2, InnermostFrame
  <2>2. frames[1].kind = "parameters" /\ frames[1].scope = scope_inht
    BY <2>1, <1>2 DEF Frame, scope_inht
  <2> QED BY <2>1, <2>2, <1>1, <1>2 DEF InParameters
<1>4. x \in Names /\ d \in SymbolIds
  BY <1>1, <1>2, InnermostFrame
<1>5. scope_inht = alive[2] /\ Len(alive) = 2
  <2>1. scope_inht = alive[Len(alive)] /\ Len(alive) = Len(frames) + 1
    BY <1>1, <1>2, SeesCurrent
  <2>2. Len(alive) = 2  BY <2>1, <1>3
  <2> QED BY <2>1, <2>2
<1>6. frames' = <<r>>
  <2>1. Popped = <<>>  BY <1>1, <1>2, PoppingFrames
  <2> QED BY <2>1, <1>2
<1>7. ParserSeesThem' /\ InParameters'
  <2>1. /\ Len(frames') = 1 /\ DOMAIN frames' = {1} /\ frames'[1].scope = scope_inht
        /\ frames'[1].kind = "body"
    BY <1>6
  <2>2. ParserSeesThem'  BY <2>1, <1>1, <1>2, <1>5 DEF ParserSeesThem
  <2>3. InParameters'  BY <2>1 DEF InParameters
  <2> QED BY <2>2, <2>3
<1>8. free_symbol_id \in Nat /\ free_scope_id \in Nat /\ d < free_symbol_id'
  BY <1>1, <1>2, <1>3, Bounds
<1>9. CASE func.member
  <2>1. UNCHANGED <<tables, alive>>  BY <1>9 DEF EnterBody
  <2>2. ChainInv' /\ View' = View  BY <2>1, <1>1, <1>2, <1>8, Keeping
  <2> QED BY <2>2, <1>7 DEF CleanStep, ChainStep
<1>10. CASE ~ func.member
  <2>1. RegisterDecl(x, Global, d) /\ IsDeclValid(x, Global)
    BY <1>10 DEF EnterBody, FuncDeclIsValid
  <2>2. \A m \in DOMAIN alive : m > 1 => View[m][x] = None
    <3>1. DOMAIN alive = 1..2 /\ 2 \in DOMAIN alive /\ View[2] = post_parse_table[alive[2]]
      BY <1>1, <1>5, ViewTyped
    <3>2. View[2][x] = None  BY <3>1, <1>3, <1>5
    <3>3. \A m \in DOMAIN alive : m > 1 => m = 2  BY <3>1
    <3> QED BY <3>2, <3>3
  <2>3. alive[1] = Global  BY <1>1 DEF ParserSeesThem
  <2> HIDE DEF x, d
  <2>4. ChainInv' /\ ChainStep
    BY <2>1, <2>2, <2>3, <1>1, <1>2, <1>3, <1>4, <1>8, DeclaringGlobal
  <2> QED BY <2>4, <1>7 DEF CleanStep
<1> QED BY <1>9, <1>10

(* A class is declared between two definitions, where its name may be taken. *)
LEMMA CloseClassClean ==
  ASSUME CleanInv, CloseClass
  PROVE  CleanStep
<1>1. Inv /\ ChainInv /\ TypeOK /\ ParserSeesThem
  BY DEF CleanInv, Inv
<1>2. /\ frames = <<>> /\ class \in Names
      /\ UNCHANGED <<alive, free_scope_id, frames, func, broken>>
      /\ RegisterDecl(class, Global, free_symbol_id)
  BY <1>1 DEF CloseClass, AtMember, TypeOK, FreeSymbolId
<1>3. /\ free_symbol_id \in SymbolIds /\ free_symbol_id \in Nat
      /\ free_symbol_id' = free_symbol_id + 1 /\ free_scope_id \in Nat
  BY <1>1, SymbolTaken, Bounds DEF CloseClass, TakeSymbolId, FreeSymbolId
<1>4. free_symbol_id' \in Nat /\ free_symbol_id < free_symbol_id'
      /\ free_symbol_id <= free_symbol_id'
  BY <1>3
<1>5. ParserSeesThem' /\ InParameters'
  BY <1>1, <1>2 DEF ParserSeesThem, InParameters
<1>6. CASE ~ IsDeclValid(class, Global)
  <2>1. UNCHANGED <<tables, alive>>  BY <1>2, <1>6 DEF RegisterDecl
  <2>2. ChainInv' /\ View' = View  BY <2>1, <1>1, <1>2, <1>3, <1>4, Keeping
  <2> QED BY <2>2, <1>5 DEF CleanStep, ChainStep
<1>7. CASE IsDeclValid(class, Global)
  <2>1. Len(alive) = 1 /\ alive[1] = Global  BY <1>1, <1>2 DEF ParserSeesThem
  <2>2. DOMAIN alive = 1..1  BY <2>1, <1>1, ViewTyped
  <2>3. \A m \in DOMAIN alive : m > 1 => View[m][class] = None  BY <2>2
  <2>4. \A s \in ScopeIds, y \in Names : post_parse_table[s][y] # free_symbol_id
    BY <1>1, FreeIsFresh DEF ChainInv
  <2> DEFINE d == free_symbol_id
             c == class
  <2>5. /\ d \in SymbolIds /\ d < free_symbol_id' /\ c \in Names
        /\ RegisterDecl(c, Global, d) /\ IsDeclValid(c, Global)
        /\ \A m \in DOMAIN alive : m > 1 => View[m][c] = None
        /\ \A s \in ScopeIds, y \in Names : post_parse_table[s][y] # d
    BY <1>2, <1>3, <1>4, <1>7, <2>3, <2>4
  <2> HIDE DEF d, c
  <2>6. ChainInv' /\ ChainStep
    BY <2>1, <2>5, <1>1, <1>2, <1>4, DeclaringGlobal
  <2> QED BY <2>6, <1>5 DEF CleanStep
<1> QED BY <1>6, <1>7

(* Steps that change no table and no activation. *)
LEMMA KeepingClean ==
  ASSUME CleanInv, UNCHANGED <<tables, alive, frames, broken>>,
         free_scope_id' \in Nat, free_scope_id <= free_scope_id',
         free_symbol_id' \in Nat, free_symbol_id <= free_symbol_id',
         frames = <<>> \/ UNCHANGED func
  PROVE  CleanStep
<1>1. Inv /\ ChainInv /\ TypeOK /\ ParserSeesThem /\ InParameters
  BY DEF CleanInv, Inv
<1>2. ChainInv' /\ View' = View  BY <1>1, Keeping
<1>3. ParserSeesThem'  BY <1>1 DEF ParserSeesThem
<1>4. InParameters'
  <2>1. CASE frames = <<>>  BY <2>1 DEF InParameters
  <2>2. CASE frames # <<>> /\ UNCHANGED func
    <3> SUFFICES ASSUME frames[1].kind = "parameters"
                 PROVE  /\ Len(frames) = 1
                        /\ post_parse_table[frames[1].scope][func.name] = None
                        /\ func.symbol < free_symbol_id'
                        /\ \A s \in ScopeIds, y \in Names : post_parse_table[s][y] # func.symbol
      BY <2>2 DEF InParameters, tables
    <3>1. /\ Len(frames) = 1
          /\ post_parse_table[frames[1].scope][func.name] = None
          /\ func.symbol < free_symbol_id
          /\ \A s \in ScopeIds, y \in Names : post_parse_table[s][y] # func.symbol
      BY <2>2, <1>1 DEF InParameters
    <3>2. func \in [name : Names, symbol : SymbolIds, member : BOOLEAN]
      BY <1>1, <2>2, InnermostFrame DEF Inv
    <3>3. func.symbol \in SymbolIds  BY <3>2
    <3>4. func.symbol \in Nat /\ free_symbol_id \in Nat  BY <3>3, <1>1, Bounds
    <3> QED BY <3>1, <3>4
  <2> QED BY <2>1, <2>2
<1> QED BY <1>2, <1>3, <1>4 DEF CleanStep, ChainStep

(* Programs without the two peculiarities: no parameter has the name of its *)
(* function, and no error makes the parser return early.                    *)
CleanPrograms == ~ OwnNameParams /\ ~ LeakyErrors

LEMMA NextClean ==
  ASSUME CleanPrograms, CleanInv, [Next]_vars
  PROVE  CleanInv' /\ ChainStep
<1>1. Inv /\ Inv' /\ TypeOK /\ ~ broken
  BY NextInv DEF CleanInv, Inv, ParserSeesThem
<1>2. free_scope_id \in Nat /\ free_symbol_id \in Nat  BY <1>1, Bounds
<1> SUFFICES CleanStep  BY <1>1 DEF CleanInv, CleanStep
<1>3. ASSUME NEW x \in Names, NEW member \in BOOLEAN, OpenFunction(x, member)
      PROVE  CleanStep
  BY <1>3, OpenFunctionClean
<1>4. ASSUME NEW x \in Names, DeclareName(x)
      PROVE  CleanStep
  <2>1. Frame.kind = "parameters" => x # func.name
    BY <1>4 DEF DeclareName, CleanPrograms
  <2> QED BY <1>4, <2>1, DeclaringClean DEF DeclareName, InFrame
<1>5. ASSUME NEW x \in Names, UseUndeclared(x)
      PROVE  CleanStep
  <2>1. Frame.kind # "parameters"
    BY <1>5 DEF UseUndeclared, InFrame, Blocks
  <2> QED BY <1>5, <2>1, DeclaringClean DEF UseUndeclared, InFrame
<1>6. CASE EnterBody  BY <1>6, EnterBodyClean
<1>7. ASSUME NEW kind \in {"then", "while", "else"}, OpenBlock(kind)
      PROVE  CleanStep
  BY <1>7, OpenBlockClean
<1>8. CASE CloseBlock  BY <1>8, CloseBlockClean
<1>9. CASE DuplicateFunction \/ BreakBlock
  BY <1>9 DEF DuplicateFunction, BreakBlock, CleanPrograms
<1>10. CASE AbandonBlock \/ CloseBroken
  BY <1>1, <1>10 DEF AbandonBlock, CloseBroken
<1>11. ASSUME NEW x \in Names, OpenClass(x) PROVE CleanStep
  <2>0. broken' = broken
    <3>1. broken = FALSE  BY <1>1 DEF TypeOK
    <3> QED BY <3>1, <1>11 DEF OpenClass
  <2>1. /\ UNCHANGED <<tables, alive, frames, broken, func, free_symbol_id>>
        /\ free_scope_id' = free_scope_id + 1
    BY <2>0, <1>11 DEF OpenClass
  <2>2. free_scope_id' \in Nat /\ free_scope_id <= free_scope_id'  BY <2>1, <1>2
  <2> QED BY <1>2, <2>1, <2>2, KeepingClean
<1>12. ASSUME NEW x \in Names, DeclareMember(x) PROVE CleanStep
  <2>1. /\ UNCHANGED <<tables, alive, frames, broken, func, free_scope_id>>
        /\ free_symbol_id' = free_symbol_id + 1
    BY <1>12 DEF DeclareMember, TakeSymbolId
  <2>2. free_symbol_id' \in Nat /\ free_symbol_id <= free_symbol_id'  BY <2>1, <1>2
  <2> QED BY <1>2, <2>1, <2>2, KeepingClean
<1>13. CASE CloseClass  BY <1>13, CloseClassClean
<1>14. CASE UNCHANGED vars
  BY <1>2, <1>14, KeepingClean DEF vars
<1> QED
  BY <1>3, <1>4, <1>5, <1>6, <1>7, <1>8, <1>9, <1>10, <1>11, <1>12, <1>13, <1>14 DEF Next

LEMMA CleanInvariance == ASSUME CleanPrograms PROVE Spec => []CleanInv
<1>1. Init => CleanInv  BY InitClean
<1>2. CleanInv /\ [Next]_vars => CleanInv'  BY NextClean
<1> QED BY <1>1, <1>2, PTL DEF Spec

-----------------------------------------------------------------------------
(* Every step is one of the chain's. *)

LEMMA RefineInit == Init => Chain!Init
<1> SUFFICES ASSUME Init PROVE Chain!Init
  OBVIOUS
<1>1. CleanInv /\ View = <<Chain!Undefined>>  BY InitClean
<1>2. InView = View  BY <1>1, SeesTheView DEF CleanInv, Inv
<1>3. symbol_table = Chain!Nearest(View)  BY <1>1 DEF CleanInv, ChainInv, TableIsNearest
<1> QED BY <1>1, <1>2, <1>3 DEF Chain!Init, InView

LEMMA SeenAlways ==
  TypeOK /\ ParserSeesThem /\ TableIsNearest
    => InView = View /\ symbol_table = Chain!Nearest(View)
BY SeesTheView DEF TableIsNearest

LEMMA RefineStep ==
  ASSUME CleanInv, CleanInv', ChainStep
  PROVE  [Chain!Next]_(Chain!vars)
<1>1. InView = View /\ symbol_table = Chain!Nearest(View)
  BY SeesTheView DEF CleanInv, Inv, ChainInv, TableIsNearest
<1>2. InView' = View' /\ symbol_table' = Chain!Nearest(View')
  <2>1. TypeOK' /\ ParserSeesThem' /\ TableIsNearest'  BY DEF CleanInv, Inv, ChainInv
  <2>2. (InView = View /\ symbol_table = Chain!Nearest(View))'  BY <2>1, SeenAlways, PTL
  <2> QED BY <2>2
<1>3. CASE View' = View
  <2>1. InView' = InView /\ symbol_table' = symbol_table  BY <1>1, <1>2, <1>3
  <2> QED BY <2>1 DEF Chain!vars, InView
<1>4. CASE View' = Append(View, Chain!Undefined)
  <2>1. InView' = Append(InView, Chain!Undefined) /\ symbol_table' = Chain!Nearest(InView')
    BY <1>1, <1>2, <1>4
  <2>2. Chain!Open  BY <2>1 DEF Chain!Open, InView
  <2> QED BY <2>2 DEF Chain!Next
<1>5. CASE Len(View) > 1 /\ View' = SubSeq(View, 1, Len(View) - 1)
  <2>1. /\ Len(InView) > 1 /\ InView' = SubSeq(InView, 1, Len(InView) - 1)
        /\ symbol_table' = Chain!Nearest(InView')
    BY <1>1, <1>2, <1>5
  <2>2. Chain!Close  BY <2>1 DEF Chain!Close, InView
  <2> QED BY <2>2 DEF Chain!Next
<1>6. ASSUME NEW i \in {1, Len(View)}, NEW x \in Names, NEW d \in SymbolIds,
             View[i][x] = None, \A k \in DOMAIN View, y \in Names : View[k][y] # d,
             View' = [View EXCEPT ![i][x] = d]
      PROVE  Chain!Next
  <2>1. /\ InView[i][x] = None /\ i \in {1, Len(InView)}
        /\ \A k \in DOMAIN InView, y \in Names : InView[k][y] # d
        /\ InView' = [InView EXCEPT ![i][x] = d] /\ symbol_table' = Chain!Nearest(InView')
    BY <1>1, <1>2, <1>6
  <2>2. Chain!Declare(i, x, d)  BY <2>1 DEF Chain!Declare, Chain!Fresh, InView
  <2> QED BY <2>1, <2>2 DEF Chain!Next, InView
<1> QED BY <1>3, <1>4, <1>5, <1>6 DEF ChainStep

(* For programs without the two peculiarities, the one symbol table shared  *)
(* by all scopes (LexicalScope::RegisterDecl, UndoTables) is block scoping: *)
(* declaring, opening and leaving scopes implement the chain of scopes.     *)
THEOREM ImplementsScopeChain == ASSUME CleanPrograms PROVE Spec => IsScopeChain
<1>1. CleanInv /\ [Next]_vars => CleanInv' /\ ChainStep  BY NextClean
<1>2. CleanInv /\ CleanInv' /\ ChainStep => [Chain!Next]_(Chain!vars)  BY RefineStep
<1>3. CleanInv /\ CleanInv' /\ [Next]_vars => [Chain!Next]_(Chain!vars)  BY <1>1, <1>2
<1> QED BY <1>3, CleanInvariance, RefineInit, PTL DEF Spec, IsScopeChain, Chain!Spec

(* For the same programs, when no function is being parsed the current      *)
(* scope is the global one, and the table holds its definitions only.       *)
THEOREM LeavesNothing == ASSUME CleanPrograms PROVE Spec => []NothingLeftBehind
<1>1. ASSUME CleanInv PROVE NothingLeftBehind
  <2> SUFFICES ASSUME frames = <<>>
               PROVE  alive = <<Global>> /\ symbol_table = post_parse_table[Global]
    BY DEF NothingLeftBehind
  <2>1. TypeOK  BY <1>1 DEF CleanInv, Inv
  <2>2. alive = <<Global>>
    <3>1. Len(alive) = 1 /\ alive[1] = Global /\ alive \in Seq(ScopeIds)
      BY <1>1, <2>1 DEF CleanInv, ParserSeesThem, TypeOK
    <3> QED BY <3>1
  <2>3. /\ View \in Seq(Definitions) /\ View # <<>> /\ Len(View) = 1
        /\ DOMAIN View = 1..1 /\ View[1] = post_parse_table[Global]
    BY <2>1, <2>2, ViewTyped
  <2>4. \A x \in Names : Chain!Nearest(View)[x] = View[1][x]
    <3> TAKE x \in Names
    <3>1. CASE View[1][x] = None
      <4>1. \A m \in DOMAIN View : View[m][x] = None  BY <2>3, <3>1
      <4> QED BY <2>3, <3>1, <4>1, NearestNone
    <3>2. CASE View[1][x] # None
      <4> DEFINE V == View
      <4>1. /\ V \in Seq(Definitions) /\ 1 \in DOMAIN V /\ V[1][x] # None
            /\ \A m \in DOMAIN V : m > 1 => V[m][x] = None
        BY <2>3, <3>2
      <4> HIDE DEF V
      <4>2. Chain!Nearest(V)[x] = V[1][x]  BY <4>1, NearestIs
      <4> QED BY <4>2 DEF V
    <3> QED BY <3>1, <3>2
  <2>5. Chain!Nearest(View) \in Definitions /\ View[1] \in Definitions
    BY <2>3, NearestTyped
  <2>6. Chain!Nearest(View) = View[1]  BY <2>4, <2>5 DEF Definitions
  <2> QED BY <1>1, <2>2, <2>3, <2>6 DEF CleanInv, ChainInv, TableIsNearest
<1> QED BY <1>1, CleanInvariance, PTL
===============================================================================
