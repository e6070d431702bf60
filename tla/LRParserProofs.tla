---------------------------- MODULE LRParserProofs ----------------------------
(***************************************************************************)
(* For any grammars, any order of their symbols and any bound on inputs:   *)
(* what the tables of GrammarLR1 say of the collection of sets of items,   *)
(* and what ParserLR1 does with them: its look-ups find a row, a reduction *)
(* takes the symbols of its rule off the stack and nothing else, and what  *)
(* is accepted is derived by the rules.                                    *)
(*                                                                         *)
(* The argument: every set has a number of its own, so a state names one   *)
(* set; at every place of the stack stands the set its state names, and    *)
(* the symbols below are those before the dots of its items.  A goto entry *)
(* that was never written is zero, the number of the first set, whose      *)
(* items have all only begun and say nothing of the stack: the reductions  *)
(* stay right, but what was pushed is not a successor any more.  So the    *)
(* last theorem asks for the entries.  With them an item begins where it   *)
(* says, a reduction undoes a rule, and the word read is what the stack    *)
(* derives.                                                                *)
(***************************************************************************)
EXTENDS GrammarProofs, SequenceTheorems

-----------------------------------------------------------------------------
(* The order of item keys and of set keys is strict and total. *)

LEMMA LeastNumber ==
  ASSUME NEW T \in SUBSET Nat, T # {}
  PROVE  \E m \in T : \A t \in T : m <= t
<1> DEFINE R == {ss \in Nat \X Nat : ss[1] < ss[2]}
<1>1. IsWellFoundedOn(R, Nat)
  BY NatLessThanWellFounded DEF OpToRel
<1>2. \E m \in T : \A t \in T : ~ (<<t, m>> \in R)
  <2> HIDE DEF R
  <2> QED BY <1>1, WFMin
<1>3. PICK m \in T : \A t \in T : ~ (<<t, m>> \in R)
  BY <1>2
<1>4. \A t \in T : m <= t
  <2> TAKE t \in T
  <2>1. ~ (t < m)  BY <1>3
  <2> QED BY <2>1
<1> QED BY <1>4

\* The place k decides that a comes before b.
DecidesAt(a, b, k) ==
  /\ k \in 1..Len(b) /\ k <= Len(a) + 1
  /\ \A j \in 1..k - 1 : a[j] = b[j]
  /\ k <= Len(a) => a[k] < b[k]

LEMMA FrontOf ==
  ASSUME NEW S, NEW s \in Seq(S), NEW n \in Nat, n <= Len(s)
  PROVE  /\ SubSeq(s, 1, n) \in Seq(S) /\ Len(SubSeq(s, 1, n)) = n
         /\ \A j \in 1..n : SubSeq(s, 1, n)[j] = s[j]
<1>1. n \in Int /\ 1 \in Int /\ \A i \in 1..n : s[i] \in S  OBVIOUS
<1>2. /\ SubSeq(s, 1, n) \in Seq(S) /\ Len(SubSeq(s, 1, n)) = IF 1 <= n THEN n - 1 + 1 ELSE 0
      /\ \A j \in 1..n - 1 + 1 : SubSeq(s, 1, n)[j] = s[1 + j - 1]
  BY <1>1, SubSeqProperties
<1>3. \A j \in 1..n : j \in 1..n - 1 + 1 /\ 1 + j - 1 = j  OBVIOUS
<1> QED BY <1>2, <1>3

LEMMA Joined ==
  ASSUME NEW S, NEW x \in Seq(S), NEW y \in Seq(S),
         NEW m, m = Len(x), NEW n, n = Len(y)
  PROVE  /\ x \o y \in Seq(S) /\ Len(x \o y) = m + n
         /\ \A k \in 1..m : (x \o y)[k] = x[k]
         /\ \A k \in 1..n : (x \o y)[m + k] = y[k]
<1>1. m \in Nat /\ n \in Nat  OBVIOUS
<1>2. /\ x \o y \in Seq(S) /\ Len(x \o y) = m + n
      /\ \A k \in 1..m + n : (x \o y)[k] = IF k <= m THEN x[k] ELSE y[k - m]
  BY ConcatProperties
<1>3. \A k \in 1..m : k \in 1..m + n /\ k <= m  BY <1>1
<1>4. ASSUME NEW k \in 1..n PROVE (x \o y)[m + k] = y[k]
  <2>1. m + k \in 1..m + n /\ ~ (m + k <= m) /\ m + k - m = k  BY <1>1
  <2> QED BY <1>2, <2>1
<1> QED BY <1>2, <1>3, <1>4

LEMMA LessMeans ==
  ASSUME NEW a \in Seq(Nat), NEW b \in Seq(Nat)
  PROVE  Less(a, b) <=> \E k \in Nat : DecidesAt(a, b, k)
<1>1. ASSUME NEW k \in 1..Len(b), k <= Len(a) + 1
      PROVE  SubSeq(a, 1, k - 1) = SubSeq(b, 1, k - 1) <=> \A j \in 1..k - 1 : a[j] = b[j]
  <2> DEFINE n == k - 1
             x == SubSeq(a, 1, n)
             y == SubSeq(b, 1, n)
  <2>0. n \in Nat /\ n <= Len(a) /\ n <= Len(b)  BY <1>1
  <2> HIDE DEF n
  <2>1. x \in Seq(Nat) /\ Len(x) = n /\ \A j \in 1..n : x[j] = a[j]  BY <2>0, FrontOf
  <2>2. y \in Seq(Nat) /\ Len(y) = n /\ \A j \in 1..n : y[j] = b[j]  BY <2>0, FrontOf
  <2> HIDE DEF x, y
  <2>3. x = y => \A j \in 1..n : a[j] = b[j]
    <3> SUFFICES ASSUME x = y, NEW j \in 1..n PROVE a[j] = b[j]  OBVIOUS
    <3> QED BY <2>1, <2>2
  <2>4. (\A j \in 1..n : a[j] = b[j]) => x = y
    <3> SUFFICES ASSUME \A j \in 1..n : a[j] = b[j] PROVE x = y  OBVIOUS
    <3>1. \A j \in 1..Len(x) : x[j] = y[j]  BY <2>1, <2>2
    <3> QED BY <2>1, <2>2, <3>1, SeqEqual
  <2> QED BY <2>3, <2>4 DEF x, y, n
<1>2. ASSUME Less(a, b) PROVE \E k \in Nat : DecidesAt(a, b, k)
  <2>1. PICK k \in 1..Len(b) : /\ k <= Len(a) + 1
                               /\ SubSeq(a, 1, k - 1) = SubSeq(b, 1, k - 1)
                               /\ k <= Len(a) => a[k] < b[k]
    BY <1>2 DEF Less
  <2>2. k \in Nat /\ \A j \in 1..k - 1 : a[j] = b[j]  BY <1>1, <2>1
  <2> QED BY <2>1, <2>2 DEF DecidesAt
<1>3. ASSUME NEW k \in Nat, DecidesAt(a, b, k) PROVE Less(a, b)
  <2>1. k \in 1..Len(b) /\ k <= Len(a) + 1 /\ (k <= Len(a) => a[k] < b[k])
        /\ \A j \in 1..k - 1 : a[j] = b[j]
    BY <1>3 DEF DecidesAt
  <2>2. SubSeq(a, 1, k - 1) = SubSeq(b, 1, k - 1)  BY <1>1, <2>1
  <2> QED BY <2>1, <2>2 DEF Less
<1> QED BY <1>2, <1>3

LEMMA LessIsStrict ==
  ASSUME NEW a \in Seq(Nat), NEW b \in Seq(Nat), NEW c \in Seq(Nat), Less(a, b)
  PROVE  /\ a # b /\ ~ Less(b, a)
         /\ Less(b, c) => Less(a, c)
<1>0. Len(a) \in Nat /\ Len(b) \in Nat /\ Len(c) \in Nat
      /\ (\A j \in 1..Len(a) : a[j] \in Nat) /\ (\A j \in 1..Len(b) : b[j] \in Nat)
      /\ (\A j \in 1..Len(c) : c[j] \in Nat)
  OBVIOUS
<1>1. PICK k \in Nat : DecidesAt(a, b, k)  BY LessMeans
<1>2. ASSUME NEW d \in Seq(Nat), Less(b, d) PROVE Less(a, d)
  <2>1. PICK m \in Nat : DecidesAt(b, d, m)  BY <1>2, LessMeans
  <2>4. /\ Len(a) \in Nat /\ Len(b) \in Nat /\ Len(d) \in Nat
        /\ (\A j \in 1..Len(a) : a[j] \in Nat) /\ (\A j \in 1..Len(b) : b[j] \in Nat)
        /\ \A j \in 1..Len(d) : d[j] \in Nat
    OBVIOUS
  <2>5. /\ k \in Nat /\ k >= 1 /\ k <= Len(b) /\ k <= Len(a) + 1
        /\ \A j \in 1..k - 1 : a[j] = b[j]
        /\ k <= Len(a) => a[k] < b[k]
    BY <1>1, <2>4 DEF DecidesAt
  <2>6. /\ m \in Nat /\ m >= 1 /\ m <= Len(d) /\ m <= Len(b) + 1
        /\ \A j \in 1..m - 1 : b[j] = d[j]
        /\ m <= Len(b) => b[m] < d[m]
    BY <2>1, <2>4 DEF DecidesAt
  <2>2. CASE k <= m
    <3>0. k <= Len(d)  BY <2>2, <2>4, <2>5, <2>6
    <3>1. ASSUME NEW j \in 1..k - 1 PROVE a[j] = d[j]
      <4>1. j \in 1..m - 1  BY <2>2, <2>5, <2>6
      <4> QED BY <2>5, <2>6, <4>1
    <3>2. ASSUME k <= Len(a) PROVE a[k] < d[k]
      <4>1. k \in 1..Len(a) /\ k \in 1..Len(b) /\ k \in 1..Len(d)  BY <2>4, <2>5, <3>0, <3>2
      <4>2. a[k] < b[k] /\ a[k] \in Nat /\ b[k] \in Nat /\ d[k] \in Nat
        BY <2>4, <2>5, <3>2, <4>1
      <4>3. CASE k = m
        <5>1. b[m] < d[m]  BY <2>5, <2>6, <4>3
        <5>2. b[k] < d[k]  BY <4>3, <5>1
        <5> QED BY <4>2, <5>2
      <4>4. CASE k # m
        <5>1. k \in 1..m - 1  BY <2>2, <2>5, <2>6, <4>4
        <5>2. b[k] = d[k]  BY <2>6, <5>1
        <5> QED BY <4>2, <5>2
      <4> QED BY <4>3, <4>4
    <3>3. DecidesAt(a, d, k)  BY <2>4, <2>5, <3>0, <3>1, <3>2 DEF DecidesAt
    <3> QED BY <3>3, LessMeans
  <2>3. CASE m < k
    <3>0. m <= Len(a) /\ m <= Len(b)  BY <2>3, <2>4, <2>5, <2>6, SMTT(60)
    <3>1. ASSUME NEW j \in 1..m - 1 PROVE a[j] = d[j]
      <4>1. j \in 1..k - 1  BY <2>3, <2>5, <2>6
      <4> QED BY <2>5, <2>6, <4>1
    <3>2. a[m] = b[m]  BY <2>3, <2>5, <2>6
    <3>3. DecidesAt(a, d, m)  BY <2>4, <2>6, <3>0, <3>1, <3>2 DEF DecidesAt
    <3> QED BY <3>3, LessMeans
  <2> QED BY <2>2, <2>3, <2>5, <2>6
<1>3. ~ Less(a, a)
  <2>1. ASSUME NEW m \in Nat, DecidesAt(a, a, m) PROVE FALSE
    BY <1>0, <2>1 DEF DecidesAt
  <2> QED BY <2>1, LessMeans
<1> QED BY <1>2, <1>3

LEMMA LessIsTotal ==
  ASSUME NEW a \in Seq(Nat), NEW b \in Seq(Nat), a # b
  PROVE  Less(a, b) \/ Less(b, a)
<1>0. Len(a) \in Nat /\ Len(b) \in Nat
      /\ (\A j \in 1..Len(a) : a[j] \in Nat) /\ (\A j \in 1..Len(b) : b[j] \in Nat)
  OBVIOUS
<1> DEFINE D == {k \in Nat : k >= 1 /\ ~ (k <= Len(a) /\ k <= Len(b) /\ a[k] = b[k])}
<1>1. Len(a) + 1 \in D  BY <1>0
<1>2. PICK m \in D : \A k \in D : m <= k
  <2>1. D \in SUBSET Nat /\ D # {}  BY <1>1
  <2> HIDE DEF D
  <2> QED BY <2>1, LeastNumber
<1>3. \A j \in 1..m - 1 : j <= Len(a) /\ j <= Len(b) /\ a[j] = b[j]
  <2> TAKE j \in 1..m - 1
  <2>1. j \notin D  BY <1>2
  <2> QED BY <2>1
<1>4. m \in Nat /\ m >= 1 /\ m <= Len(a) + 1 /\ m <= Len(b) + 1
  <2>1. Len(b) + 1 \in D  BY <1>0
  <2> QED BY <1>1, <1>2, <2>1
<1>5. CASE m <= Len(a) /\ m <= Len(b)
  <2>1. a[m] # b[m]  BY <1>2, <1>5
  <2>2. a[m] < b[m] \/ b[m] < a[m]  BY <1>0, <1>4, <1>5, <2>1
  <2>3. DecidesAt(a, b, m) \/ DecidesAt(b, a, m)
    BY <1>0, <1>3, <1>4, <1>5, <2>2 DEF DecidesAt
  <2> QED BY <1>4, <2>3, LessMeans
<1>6. CASE m = Len(a) + 1 /\ m <= Len(b)
  <2>1. DecidesAt(a, b, m)  BY <1>0, <1>3, <1>4, <1>6 DEF DecidesAt
  <2> QED BY <1>4, <2>1, LessMeans
<1>7. CASE m <= Len(a) /\ m = Len(b) + 1
  <2>1. DecidesAt(b, a, m)  BY <1>0, <1>3, <1>4, <1>7 DEF DecidesAt
  <2> QED BY <1>4, <2>1, LessMeans
<1>8. CASE m = Len(a) + 1 /\ m = Len(b) + 1
  <2>1. Len(a) = Len(b) /\ \A j \in 1..Len(a) : a[j] = b[j]  BY <1>0, <1>3, <1>8
  <2> QED BY <2>1, SeqEqual
<1> QED BY <1>0, <1>4, <1>5, <1>6, <1>7, <1>8

\* A finite set has a least element under a strict total order.
LEMMA HasLeast ==
  ASSUME NEW S, IsFiniteSet(S), S # {}, NEW R,
         \A x, y, z \in S : <<x, y>> \in R /\ <<y, z>> \in R => <<x, z>> \in R,
         \A x, y \in S : x # y => <<x, y>> \in R \/ <<y, x>> \in R
  PROVE  \E m \in S : \A x \in S \ {m} : <<m, x>> \in R
<1> DEFINE P == {n \in Nat : \A T \in SUBSET S :
                   Cardinality(T) = n + 1 => \E m \in T : \A x \in T \ {m} : <<m, x>> \in R}
<1>0. \A T \in SUBSET S : IsFiniteSet(T) /\ Cardinality(T) \in Nat
  BY FS_Subset, FS_CardinalityType
<1>1. 0 \in P
  <2>1. ASSUME NEW T \in SUBSET S, Cardinality(T) = 1
        PROVE  \E m \in T : \A x \in T \ {m} : <<m, x>> \in R
    <3>1. PICK e : T = {e}  BY <1>0, <2>1, FS_Singleton
    <3> QED BY <3>1
  <2> QED BY <2>1
<1>2. ASSUME NEW n \in Nat, n \in P PROVE n + 1 \in P
  <2>1. ASSUME NEW T \in SUBSET S, Cardinality(T) = n + 1 + 1
        PROVE  \E m \in T : \A x \in T \ {m} : <<m, x>> \in R
    <3>1. T # {}  BY <2>1, FS_EmptySet
    <3>2. PICK e \in T : TRUE  BY <3>1
    <3>3. Cardinality(T \ {e}) = n + 1  BY <1>0, <2>1, FS_RemoveElement
    <3>4. PICK m \in T \ {e} : \A x \in (T \ {e}) \ {m} : <<m, x>> \in R  BY <1>2, <3>3
    <3>5. CASE <<m, e>> \in R  BY <3>4, <3>5
    <3>6. CASE <<e, m>> \in R
      <4>1. \A x \in T \ {e} : <<e, x>> \in R  BY <3>4, <3>6
      <4> QED BY <4>1
    <3> QED BY <3>4, <3>5, <3>6
  <2> QED BY <2>1
<1>3. Nat \subseteq P
  <2> HIDE DEF P
  <2> QED BY <1>1, <1>2, AllNumbers
<1>4. Cardinality(S) - 1 \in Nat /\ Cardinality(S) - 1 + 1 = Cardinality(S)
  BY <1>0, FS_EmptySet
<1> QED BY <1>3, <1>4

LEMMA LeastOfKeys ==
  ASSUME NEW K, IsFiniteSet(K), K # {}, K \subseteq Seq(Nat)
  PROVE  LeastOf(K) \in K /\ \A k \in K \ {LeastOf(K)} : Less(LeastOf(K), k)
<1> DEFINE R == {p \in K \X K : Less(p[1], p[2])}
<1>1. \A x, y \in K : <<x, y>> \in R <=> Less(x, y)  OBVIOUS
<1>2. \A x, y, z \in K : <<x, y>> \in R /\ <<y, z>> \in R => <<x, z>> \in R
  <2> TAKE x, y, z \in K
  <2>1. x \in Seq(Nat) /\ y \in Seq(Nat) /\ z \in Seq(Nat)  OBVIOUS
  <2> HIDE DEF R
  <2> QED BY <1>1, <2>1, LessIsStrict
<1>3. \A x, y \in K : x # y => <<x, y>> \in R \/ <<y, x>> \in R
  <2> TAKE x, y \in K
  <2>1. x \in Seq(Nat) /\ y \in Seq(Nat)  OBVIOUS
  <2> HIDE DEF R
  <2> QED BY <1>1, <2>1, LessIsTotal
<1>4. \E m \in K : \A x \in K \ {m} : <<m, x>> \in R
  <2> HIDE DEF R
  <2> QED BY <1>2, <1>3, HasLeast
<1>5. \E m \in K : \A x \in K \ {m} : Less(m, x)
  <2> HIDE DEF R
  <2> QED BY <1>1, <1>4
<1> QED BY <1>5 DEF LeastOf

-----------------------------------------------------------------------------
(* Items and their keys. *)

Items ==
  {i \in [rule : Places(tool), dot : Nat, ahead : G.terminals] : i.dot <= Len(Derived(i))}

\* The derived symbols with StackTop among them.
Written(item) ==
  SubSeq(Derived(item), 1, item.dot) \o <<StackTop>>
    \o SubSeq(Derived(item), item.dot + 1, Len(Derived(item)))

LEMMA ItemFacts ==
  ASSUME tool \in LR1Tools, NEW i \in Items
  PROVE  /\ i.rule \in Places(tool) /\ i.dot \in Nat /\ i.dot <= Len(Derived(i))
         /\ i.ahead \in G.terminals /\ i.ahead \in SymbolsOf[tool]
         /\ Derived(i) = Body(tool, i.rule)
         /\ Derived(i) \in Seq(SymbolsOf[tool])
         /\ i = [rule |-> i.rule, dot |-> i.dot, ahead |-> i.ahead]
<1>1. tool \in DOMAIN Tools  BY LRToolsAssumption
<1>2. i.rule \in Places(tool) /\ i.dot \in Nat /\ i.dot <= Len(Derived(i)) /\ i.ahead \in G.terminals
      /\ i = [rule |-> i.rule, dot |-> i.dot, ahead |-> i.ahead]
  BY DEF Items
<1>3. Derived(i) = Body(tool, i.rule)  BY DEF Derived, Body, G
<1>4. Derived(i) \in Seq(SymbolsOf[tool])  BY <1>1, <1>2, <1>3, RuleFacts
<1>5. i.ahead \in SymbolsOf[tool]  BY <1>1, <1>2, SymbolFacts DEF G
<1> QED BY <1>2, <1>3, <1>4, <1>5

LEMMA WrittenFacts ==
  ASSUME tool \in LR1Tools, NEW i \in Items
  PROVE  /\ Written(i) \in Seq(SymbolsOf[tool] \cup {StackTop})
         /\ Len(Written(i)) = Len(Derived(i)) + 1
         /\ \A k \in 1..i.dot : Written(i)[k] = Derived(i)[k]
         /\ Written(i)[i.dot + 1] = StackTop
         /\ \A k \in i.dot + 1..Len(Derived(i)) : Written(i)[k + 1] = Derived(i)[k]
<1> DEFINE d == Derived(i)
           n == i.dot
           front == SubSeq(d, 1, n)
           back == SubSeq(d, n + 1, Len(d))
           S == SymbolsOf[tool] \cup {StackTop}
<1>1. d \in Seq(S) /\ n \in Nat /\ n <= Len(d) /\ Len(d) \in Nat
  <2>1. d \in Seq(SymbolsOf[tool]) /\ n \in Nat /\ n <= Len(d)  BY ItemFacts
  <2>2. SymbolsOf[tool] \subseteq S  OBVIOUS
  <2> HIDE DEF d, n, S
  <2>3. d \in Seq(S)  BY <2>1, <2>2, SeqMonotonic
  <2>4. Len(d) \in Nat  BY <2>3
  <2> QED BY <2>1, <2>3, <2>4
<1> HIDE DEF d, n, S
<1>2. front \in Seq(S) /\ Len(front) = n /\ \A k \in 1..n : front[k] = d[k]
  BY <1>1, FrontOf
<1>3. /\ back \in Seq(S) /\ Len(back) = Len(d) - n
      /\ \A k \in 1..Len(d) - n : back[k] = d[k + n]
  <2>1. n + 1 \in Int /\ Len(d) \in Int /\ \A k \in n + 1..Len(d) : d[k] \in S  BY <1>1
  <2>2. /\ back \in Seq(S) /\ Len(back) = IF n + 1 <= Len(d) THEN Len(d) - (n + 1) + 1 ELSE 0
        /\ \A k \in 1..Len(d) - (n + 1) + 1 : back[k] = d[n + 1 + k - 1]
    BY <2>1, SubSeqProperties
  <2>3. \A k \in 1..Len(d) - n : k \in 1..Len(d) - (n + 1) + 1 /\ n + 1 + k - 1 = k + n  BY <1>1
  <2> QED BY <1>1, <2>2, <2>3
<1> HIDE DEF front, back
<1>4. StackTop \in S  BY DEF S
<1> DEFINE x == front \o <<StackTop>>
<1>5. /\ x \in Seq(S) /\ Len(x) = n + 1 /\ x[n + 1] = StackTop
      /\ \A k \in 1..n : x[k] = d[k]
  BY <1>1, <1>2, <1>4
<1> HIDE DEF x
<1> DEFINE rest == Len(d) - n
<1>6. /\ x \o back \in Seq(S) /\ Len(x \o back) = n + 1 + rest
      /\ \A k \in 1..n + 1 : (x \o back)[k] = x[k]
      /\ \A k \in 1..rest : (x \o back)[n + 1 + k] = back[k]
  <2>1. Len(back) = rest /\ Len(x) = n + 1 /\ x \in Seq(S) /\ back \in Seq(S)  BY <1>3, <1>5
  <2> HIDE DEF rest
  <2> QED BY <2>1, Joined
<1>10. n + 1 + rest = Len(d) + 1  BY <1>1
<1>7. \A k \in n + 1..Len(d) : (x \o back)[k + 1] = d[k]
  <2> TAKE k \in n + 1..Len(d)
  <2>1. k - n \in 1..rest /\ n + 1 + (k - n) = k + 1 /\ k - n + n = k  BY <1>1
  <2>2. \A m \in 1..rest : back[m] = d[m + n] /\ (x \o back)[n + 1 + m] = back[m]  BY <1>3, <1>6
  <2> DEFINE m == k - n
  <2>3. m \in 1..rest /\ n + 1 + m = k + 1 /\ m + n = k  BY <2>1
  <2> HIDE DEF m, rest
  <2>4. (x \o back)[n + 1 + m] = d[m + n]  BY <2>2, <2>3
  <2> QED BY <2>3, <2>4
<1>8. Written(i) = x \o back  BY DEF Written, x, front, back, d, n
<1>9. /\ (x \o back)[n + 1] = StackTop /\ \A k \in 1..n : (x \o back)[k] = d[k]
  BY <1>1, <1>5, <1>6
<1> QED BY <1>6, <1>7, <1>8, <1>9, <1>10 DEF S, d, n

LEMMA PlaceFacts ==
  ASSUME tool \in LR1Tools, NEW s \in SymbolsOf[tool] \cup {StackTop}
  PROVE  Place(s) \in Nat /\ G.order[Place(s)] = s
<1>1. G.order \in Seq(SymbolsOf[tool] \cup {StackTop}) /\ s \in Elements(G.order)
  BY OrderAssumption DEF G
<1>2. \E n \in DOMAIN G.order : G.order[n] = s  BY <1>1 DEF Elements
<1>3. DOMAIN G.order \subseteq Nat  BY <1>1
<1> QED BY <1>2, <1>3 DEF Place

\* Keys are sequences of numbers, and no two items have the same.
LEMMA KeyFacts ==
  ASSUME tool \in LR1Tools, NEW i \in Items
  PROVE  /\ ItemKey(i) \in Seq(Nat)
         /\ Len(ItemKey(i)) = Len(Derived(i)) + 4
         /\ ItemKey(i)[1] = Place(G.rules[i.rule].head)
         /\ \A k \in 1..Len(Derived(i)) + 1 : ItemKey(i)[k + 1] = Place(Written(i)[k])
         /\ ItemKey(i)[Len(Derived(i)) + 4] = Place(i.ahead)
<1> DEFINE w == Written(i)
           p == [k \in DOMAIN w |-> Place(w[k])]
           h == Place(G.rules[i.rule].head)
           a == Place(i.ahead)
           n == Len(Derived(i))
<1>1. w \in Seq(SymbolsOf[tool] \cup {StackTop}) /\ Len(w) = n + 1 /\ n \in Nat
  BY WrittenFacts, ItemFacts
<1>2. h \in Nat /\ a \in Nat
  <2>1. i.rule \in Places(tool) /\ tool \in DOMAIN Tools /\ i.ahead \in SymbolsOf[tool]
    BY ItemFacts, LRToolsAssumption
  <2>2. G.rules[i.rule].head \in SymbolsOf[tool]  BY <2>1, RuleFacts, SymbolFacts DEF G, HeadOf
  <2> QED BY <2>1, <2>2, PlaceFacts
<1> HIDE DEF w, h, a, n
<1>3. p \in Seq(Nat) /\ Len(p) = n + 1 /\ \A k \in 1..n + 1 : p[k] = Place(w[k])
  <2>1. DOMAIN w = 1..n + 1 /\ \A k \in 1..n + 1 : w[k] \in SymbolsOf[tool] \cup {StackTop}
    BY <1>1
  <2>2. \A k \in 1..n + 1 : Place(w[k]) \in Nat  BY <2>1, PlaceFacts
  <2> QED BY <1>1, <2>1, <2>2
<1> HIDE DEF p
<1> DEFINE x == <<h>> \o p
<1>4. /\ x \in Seq(Nat) /\ Len(x) = n + 2 /\ x[1] = h
      /\ \A k \in 1..n + 1 : x[k + 1] = p[k]
  BY <1>1, <1>2, <1>3
<1> HIDE DEF x
<1> DEFINE e == <<0, a>>
<1>5. e \in Seq(Nat) /\ Len(e) = 2 /\ e[2] = a  BY <1>2
<1> HIDE DEF e
<1>6. /\ x \o e \in Seq(Nat) /\ Len(x \o e) = n + 4
      /\ \A k \in 1..n + 2 : (x \o e)[k] = x[k]
      /\ (x \o e)[n + 4] = e[2]
  <2> DEFINE m == n + 2
             q == 2
             N == Nat
  <2>0. x \in Seq(N) /\ e \in Seq(N)  BY <1>4, <1>5
  <2>1. Len(x) = m /\ Len(e) = q /\ n \in Nat /\ m + q = n + 4 /\ q \in 1..q  BY <1>1, <1>4, <1>5
  <2> HIDE DEF m, q, N
  <2>2. /\ x \o e \in Seq(N) /\ Len(x \o e) = m + q
        /\ \A k \in 1..m : (x \o e)[k] = x[k]
        /\ \A k \in 1..q : (x \o e)[m + k] = e[k]
    BY <2>0, <2>1, Joined
  <2>3. (x \o e)[m + q] = e[q]  BY <2>1, <2>2
  <2> QED BY <2>1, <2>2, <2>3 DEF m, q, N
<1>7. ItemKey(i) = x \o e  BY DEF ItemKey, Written, x, e, p, h, a, w
<1>8. (x \o e)[1] = h /\ \A k \in 1..n + 1 : (x \o e)[k + 1] = Place(w[k])
  BY <1>1, <1>3, <1>4, <1>6
<1> QED BY <1>5, <1>6, <1>7, <1>8 DEF h, a, n, w

LEMMA KeysDiffer ==
  ASSUME tool \in LR1Tools, NEW i \in Items, NEW j \in Items, ItemKey(i) = ItemKey(j)
  PROVE  i = j
<1> DEFINE n == Len(Derived(i))
           S == SymbolsOf[tool] \cup {StackTop}
<1>1. n = Len(Derived(j)) /\ n \in Nat
  <2>1. Len(Derived(i)) + 4 = Len(Derived(j)) + 4  BY KeyFacts
  <2> QED BY <2>1, ItemFacts
<1> HIDE DEF n
<1>2. \A r, s \in S : Place(r) = Place(s) => r = s  BY PlaceFacts
<1>3. /\ \A k \in 1..n + 1 : ItemKey(i)[k + 1] = Place(Written(i)[k])
      /\ \A k \in 1..n + 1 : ItemKey(j)[k + 1] = Place(Written(j)[k])
  BY <1>1, KeyFacts DEF n
<1>4. \A k \in 1..n + 1 : Written(i)[k] \in S /\ Written(j)[k] \in S
  <2>1. /\ Written(i) \in Seq(S) /\ Len(Written(i)) = n + 1
        /\ Written(j) \in Seq(S) /\ Len(Written(j)) = n + 1
    BY <1>1, WrittenFacts DEF n
  <2> HIDE DEF S
  <2> QED BY <1>1, <2>1
<1>5. \A k \in 1..n + 1 : Written(i)[k] = Written(j)[k]
  <2> TAKE k \in 1..n + 1
  <2>1. Place(Written(i)[k]) = Place(Written(j)[k])  BY <1>3
  <2>2. Written(i)[k] \in S /\ Written(j)[k] \in S  BY <1>4
  <2> HIDE DEF S
  <2> QED BY <1>2, <2>1, <2>2
<1>6. /\ i.dot \in Nat /\ i.dot <= n /\ j.dot \in Nat /\ j.dot <= n
      /\ Derived(i) \in Seq(SymbolsOf[tool]) /\ Derived(j) \in Seq(SymbolsOf[tool])
  BY <1>1, ItemFacts DEF n
<1>7. /\ \A k \in 1..n : Derived(i)[k] \in SymbolsOf[tool] /\ Derived(j)[k] \in SymbolsOf[tool]
      /\ StackTop \notin SymbolsOf[tool]
  <2>1. StackTop \notin SymbolsOf[tool]  BY OrderAssumption
  <2>2. Len(Derived(i)) = n /\ Len(Derived(j)) = n  BY <1>1 DEF n
  <2> QED BY <1>1, <1>6, <2>1, <2>2
<1>8. ASSUME NEW x \in Items, NEW y \in Items, Len(Derived(x)) = n, Len(Derived(y)) = n,
             \A k \in 1..n + 1 : Written(x)[k] = Written(y)[k],
             x.dot < y.dot, \A k \in 1..n : Derived(y)[k] \in SymbolsOf[tool]
      PROVE  FALSE
  <2>1. x.dot \in Nat /\ y.dot \in Nat /\ y.dot <= n  BY <1>8, ItemFacts
  <2>2. Written(x)[x.dot + 1] = StackTop  BY WrittenFacts
  <2>3. x.dot + 1 \in 1..y.dot /\ x.dot + 1 \in 1..n /\ x.dot + 1 \in 1..n + 1
    BY <1>1, <1>8, <2>1
  <2>4. Written(y)[x.dot + 1] = Derived(y)[x.dot + 1]  BY <2>3, WrittenFacts
  <2>5. Derived(y)[x.dot + 1] = StackTop  BY <1>8, <2>2, <2>3, <2>4
  <2> QED BY <1>7, <1>8, <2>3, <2>5
<1>9. i.dot = j.dot
  <2>1. ~ (i.dot < j.dot) /\ ~ (j.dot < i.dot)  BY <1>1, <1>5, <1>7, <1>8 DEF n
  <2> QED BY <1>6, <2>1
<1>10. Derived(i) = Derived(j)
  <2>1. ASSUME NEW k \in 1..n PROVE Derived(i)[k] = Derived(j)[k]
    <3>1. CASE k <= i.dot
      <4>1. k \in 1..i.dot /\ k \in 1..j.dot /\ k \in 1..n + 1  BY <1>1, <1>6, <1>9, <3>1
      <4>2. Written(i)[k] = Derived(i)[k] /\ Written(j)[k] = Derived(j)[k]  BY <4>1, WrittenFacts
      <4> QED BY <1>5, <4>1, <4>2
    <3>2. CASE k > i.dot
      <4>1. k \in i.dot + 1..n /\ k \in j.dot + 1..n /\ k + 1 \in 1..n + 1  BY <1>1, <1>6, <1>9, <3>2
      <4>2. Written(i)[k + 1] = Derived(i)[k] /\ Written(j)[k + 1] = Derived(j)[k]
        BY <1>1, <4>1, WrittenFacts DEF n
      <4> QED BY <1>5, <4>1, <4>2
    <3> QED BY <1>1, <1>6, <3>1, <3>2
  <2> QED BY <1>1, <1>6, <2>1, SeqEqual DEF n
<1>11. i.ahead = j.ahead
  <2>1. Place(i.ahead) = Place(j.ahead)  BY <1>1, KeyFacts DEF n
  <2>2. i.ahead \in S /\ j.ahead \in S  BY ItemFacts
  <2> QED BY <1>2, <2>1, <2>2
<1>12. i.rule = j.rule
  <2>1. tool \in DOMAIN Tools /\ i.rule \in Places(tool) /\ j.rule \in Places(tool)
    BY ItemFacts, LRToolsAssumption
  <2>2. Place(HeadOf(tool, i.rule)) = Place(HeadOf(tool, j.rule))  BY KeyFacts DEF G, HeadOf
  <2>3. HeadOf(tool, i.rule) \in S /\ HeadOf(tool, j.rule) \in S  BY <2>1, RuleFacts, SymbolFacts
  <2>4. HeadOf(tool, i.rule) = HeadOf(tool, j.rule)  BY <1>2, <2>2, <2>3
  <2>5. Body(tool, i.rule) = Body(tool, j.rule)  BY <1>10, ItemFacts
  <2> QED BY <2>1, <2>4, <2>5, RulesDiffer
<1> QED BY <1>9, <1>11, <1>12, ItemFacts

LEMMA ItemsAreOrdered ==
  ASSUME tool \in LR1Tools, NEW i \in Items, NEW j \in Items, NEW k \in Items
  PROVE  /\ Before(i, j) => i # j /\ ~ Before(j, i)
         /\ Before(i, j) /\ Before(j, k) => Before(i, k)
         /\ i # j => Before(i, j) \/ Before(j, i)
<1>1. ItemKey(i) \in Seq(Nat) /\ ItemKey(j) \in Seq(Nat) /\ ItemKey(k) \in Seq(Nat)
  BY KeyFacts
<1>2. Before(i, j) => i # j /\ ~ Before(j, i)  BY <1>1, LessIsStrict DEF Before
<1>3. Before(i, j) /\ Before(j, k) => Before(i, k)  BY <1>1, LessIsStrict DEF Before
<1>4. i # j => ItemKey(i) # ItemKey(j)  BY KeysDiffer
<1>5. i # j => Before(i, j) \/ Before(j, i)  BY <1>1, <1>4, LessIsTotal DEF Before
<1> QED BY <1>2, <1>3, <1>5

LEMMA FirstAndLastItem ==
  ASSUME tool \in LR1Tools, NEW T, IsFiniteSet(T), T # {}, T \subseteq Items
  PROVE  /\ \E m \in T : \A x \in T \ {m} : Before(m, x)
         /\ \E m \in T : \A x \in T \ {m} : Before(x, m)
<1> DEFINE R == {p \in T \X T : Before(p[1], p[2])}
           Q == {p \in T \X T : Before(p[2], p[1])}
<1>1. \A x, y \in T : (<<x, y>> \in R <=> Before(x, y)) /\ (<<x, y>> \in Q <=> Before(y, x))
  OBVIOUS
<1>2. \A x, y, z \in T : /\ Before(x, y) /\ Before(y, z) => Before(x, z)
                         /\ x # y => Before(x, y) \/ Before(y, x)
  BY ItemsAreOrdered
<1> HIDE DEF R, Q
<1>3. \E m \in T : \A x \in T \ {m} : <<m, x>> \in R
  <2>1. \A x, y, z \in T : <<x, y>> \in R /\ <<y, z>> \in R => <<x, z>> \in R  BY <1>1, <1>2
  <2>2. \A x, y \in T : x # y => <<x, y>> \in R \/ <<y, x>> \in R  BY <1>1, <1>2
  <2> QED BY <2>1, <2>2, HasLeast
<1>4. \E m \in T : \A x \in T \ {m} : <<m, x>> \in Q
  <2>1. \A x, y, z \in T : <<x, y>> \in Q /\ <<y, z>> \in Q => <<x, z>> \in Q  BY <1>1, <1>2
  <2>2. \A x, y \in T : x # y => <<x, y>> \in Q \/ <<y, x>> \in Q  BY <1>1, <1>2
  <2> QED BY <2>1, <2>2, HasLeast
<1> QED BY <1>1, <1>3, <1>4

\* A function that follows F wherever F is defined is an iteration of it.
LEMMA StaysWithin ==
  ASSUME NEW T, NEW F \in [T -> T], NEW a \in T, NEW K \in Nat,
         NEW f, f = [n \in 0..K |-> f[n]], f[0] = a,
         \A n \in 0..K - 1 : f[n] \in T => f[n + 1] = F[f[n]]
  PROVE  f \in [0..K -> T] /\ Iterated(F, a, K, f)
<1> DEFINE P == {n \in Nat : n <= K => f[n] \in T}
<1>1. 0 \in P  OBVIOUS
<1>2. ASSUME NEW n \in Nat, n \in P PROVE n + 1 \in P
  <2>1. CASE n + 1 <= K
    <3>1. n \in 0..K - 1 /\ f[n] \in T  BY <1>2, <2>1
    <3>2. f[n + 1] = F[f[n]] /\ F[f[n]] \in T  BY <3>1
    <3> QED BY <3>2
  <2>2. CASE ~ (n + 1 <= K)  BY <2>2
  <2> QED BY <2>1, <2>2
<1>3. Nat \subseteq P
  <2> HIDE DEF P
  <2> QED BY <1>1, <1>2, AllNumbers
<1>4. \A n \in 0..K : f[n] \in T  BY <1>3
<1>5. f \in [0..K -> T]  BY <1>4
<1>6. \A n \in 0..K : f[n] = IF n = 0 THEN a ELSE F[f[n - 1]]
  <2> TAKE n \in 0..K
  <2>1. CASE n # 0
    <3>1. n - 1 \in 0..K - 1 /\ n - 1 \in 0..K /\ n - 1 + 1 = n  BY <2>1
    <3> QED BY <1>4, <2>1, <3>1
  <2> QED BY <2>1
<1>7. f = [n \in 0..K |-> IF n = 0 THEN a ELSE F[f[n - 1]]]  BY <1>6
<1> QED BY <1>5, <1>7 DEF Iterated

LEMMA ImageIsFinite ==
  ASSUME NEW S, IsFiniteSet(S), NEW f, f = [x \in S |-> f[x]]
  PROVE  IsFiniteSet({f[x] : x \in S})
<1> DEFINE T == {f[x] : x \in S}
<1>1. f \in Surjection(S, T)
  <2>1. f \in [S -> T] /\ \A y \in T : \E x \in S : f[x] = y  OBVIOUS
  <2> QED BY <2>1 DEF Surjection
<1>2. IsFiniteSet(T)
  <2> HIDE DEF T
  <2> QED BY <1>1, FS_Surjection
<1> QED BY <1>2

\* The key of a finite set of items is a sequence of numbers.
LEMMA SetKeyFacts ==
  ASSUME tool \in LR1Tools, NEW set \in SUBSET Items, IsFiniteSet(set)
  PROVE  SetKey(set) \in Seq(Nat)
<1> DEFINE keys == {ItemKey(i) : i \in set}
           K == Cardinality(keys)
           N == Seq(Nat)
           T == (SUBSET keys) \X N
           a == <<keys, <<>>>>
           Step(p) == IF p[1] = {} THEN p
                      ELSE <<p[1] \ {LeastOf(p[1])}, p[2] \o LeastOf(p[1])>>
           F == [p \in T |-> Step(p)]
           Is(f) == f = [n \in 0..K |-> IF n = 0 THEN a ELSE Step(f[n - 1])]
           after == CHOOSE f : Is(f)
<1>1. keys \subseteq N  BY KeyFacts
<1>2. IsFiniteSet(keys) /\ K \in Nat
  <2> DEFINE f == [i \in set |-> ItemKey(i)]
  <2>1. keys = {f[i] : i \in set} /\ f = [i \in set |-> f[i]]  OBVIOUS
  <2> HIDE DEF f, keys
  <2>2. IsFiniteSet(keys)  BY <2>1, ImageIsFinite
  <2> QED BY <2>2, FS_CardinalityType
<1>3. SetKey(set) = after[K][2]  BY DEF SetKey
<1>10. <<>> \in N /\ \A x, y \in N : x \o y \in N  OBVIOUS
<1>4. a \in T
  <2> DEFINE e == <<>>
  <2>1. e \in N  BY <1>10
  <2> HIDE DEF keys, N, e
  <2>2. <<keys, e>> \in T  BY <2>1
  <2> QED BY <2>2 DEF e
<1>11. \A L : IsFiniteSet(L) /\ L # {} /\ L \subseteq N => LeastOf(L) \in N
  BY LeastOfKeys
<1> HIDE DEF keys, N
<1>5. F \in [T -> T]
  <2>1. ASSUME NEW p \in T PROVE Step(p) \in T
    <3>1. p[1] \in SUBSET keys /\ p[2] \in N
      <4> HIDE DEF Step, F, a, Is
      <4> QED OBVIOUS
    <3>2. CASE p[1] = {}
      <4>1. Step(p) = p  BY <3>2
      <4> HIDE DEF T, Step
      <4> QED BY <4>1
    <3>3. CASE p[1] # {}
      <4>1. IsFiniteSet(p[1]) /\ p[1] \subseteq N  BY <1>1, <1>2, <3>1, FS_Subset
      <4>2. LeastOf(p[1]) \in N  BY <1>11, <3>3, <4>1
      <4>3. p[2] \o LeastOf(p[1]) \in N  BY <1>10, <3>1, <4>2
      <4>4. Step(p) = <<p[1] \ {LeastOf(p[1])}, p[2] \o LeastOf(p[1])>>  BY <3>3
      <4>5. p[1] \ {LeastOf(p[1])} \in SUBSET keys  BY <3>1
      <4> DEFINE x == p[1] \ {LeastOf(p[1])}
                 y == p[2] \o LeastOf(p[1])
      <4>6. x \in SUBSET keys /\ y \in N /\ Step(p) = <<x, y>>  BY <4>3, <4>4, <4>5
      <4> HIDE DEF Step, x, y, F, a, Is
      <4>7. <<x, y>> \in T  BY <4>6
      <4> HIDE DEF T
      <4> QED BY <4>6, <4>7
    <3> QED BY <3>2, <3>3
  <2> HIDE DEF T, Step
  <2> QED BY <2>1
<1>6. \E f : Is(f)
  <2>1. PICK f \in [0..K -> T] : Iterated(F, a, K, f)
    <3> HIDE DEF T, F, K, a
    <3> QED BY <1>2, <1>4, <1>5, Iterates
  <2>2. ASSUME NEW n \in 0..K, n # 0 PROVE F[f[n - 1]] = Step(f[n - 1])
    <3> HIDE DEF T, Step, K
    <3>1. n - 1 \in 0..K  BY <1>2, <2>2
    <3>2. f[n - 1] \in T  BY <3>1
    <3> QED BY <3>2
  <2>3. f = [n \in 0..K |-> IF n = 0 THEN a ELSE F[f[n - 1]]]  BY <2>1 DEF Iterated
  <2> HIDE DEF F, Step, a, K
  <2>4. Is(f)  BY <2>2, <2>3
  <2> QED BY <2>4
<1>7. Is(after)
  <2> HIDE DEF Is
  <2> QED BY <1>6
<1> HIDE DEF after
<1>8. after \in [0..K -> T]
  <2> HIDE DEF K, a, Step, T
  <2>1. after = [n \in 0..K |-> after[n]] /\ after[0] = a
    <3>1. after = [n \in 0..K |-> IF n = 0 THEN a ELSE Step(after[n - 1])]  BY <1>7
    <3>2. 0 \in 0..K  BY <1>2
    <3> QED BY <3>1, <3>2
  <2>2. ASSUME NEW n \in 0..K - 1, after[n] \in T PROVE after[n + 1] = F[after[n]]
    <3>1. n + 1 \in 0..K /\ n + 1 # 0 /\ n + 1 - 1 = n  BY <1>2
    <3>2. \A m \in 0..K : after[m] = IF m = 0 THEN a ELSE Step(after[m - 1])
      <4>1. after = [m \in 0..K |-> IF m = 0 THEN a ELSE Step(after[m - 1])]  BY <1>7
      <4> HIDE DEF Is, F
      <4> QED BY <4>1
    <3>3. after[n + 1] = Step(after[n + 1 - 1])
      <4> HIDE DEF Is, F
      <4> DEFINE q == n + 1
      <4>1. q \in 0..K /\ q # 0  BY <3>1
      <4> HIDE DEF q
      <4>2. after[q] = Step(after[q - 1])  BY <3>2, <4>1
      <4> QED BY <4>2 DEF q
    <3>4. after[n + 1] = Step(after[n])  BY <3>1, <3>3
    <3> HIDE DEF Is
    <3> QED BY <2>2, <3>4
  <2> HIDE DEF F, Is
  <2> QED BY <1>2, <1>4, <1>5, <2>1, <2>2, StaysWithin
<1>9. after[K] \in T
  <2> HIDE DEF T, K, Is, F
  <2> QED BY <1>2, <1>8
<1>12. after[K][2] \in N
  <2> HIDE DEF K, Is, F, a, Step
  <2> QED BY <1>9
<1> QED BY <1>3, <1>12 DEF N

LEMMA LeastSet ==
  ASSUME tool \in LR1Tools, NEW C, IsFiniteSet(C), C # {},
         \A S \in C : S \in SUBSET Items /\ IsFiniteSet(S)
  PROVE  Least(C) \in C
<1> DEFINE f == [S \in C |-> SetKey(S)]
           K == {f[S] : S \in C}
<1>0. K = {SetKey(S) : S \in C} /\ f = [S \in C |-> f[S]]  OBVIOUS
<1>2. K \subseteq Seq(Nat)  BY SetKeyFacts
<1>5. K # {}  OBVIOUS
<1>1. IsFiniteSet(K)
  <2> HIDE DEF f
  <2> QED BY <1>0, ImageIsFinite
<1>3. LeastOf(K) \in K
  <2> HIDE DEF K
  <2> QED BY <1>1, <1>2, <1>5, LeastOfKeys
<1>4. \E S \in C : SetKey(S) = LeastOf(K)  BY <1>0, <1>3
<1>6. Least(C) = CHOOSE S \in C : SetKey(S) = LeastOf(K)  BY <1>0 DEF Least
<1> QED BY <1>4, <1>6

-----------------------------------------------------------------------------
(* Closures. *)

LEMMA ItemsAreFinite ==
  ASSUME tool \in LR1Tools
  PROVE  IsFiniteSet(Items) /\ IsFiniteSet(G.terminals) /\ IsFiniteSet(Places(tool))
         /\ Cardinality(Places(tool)) = Len(G.rules) /\ Len(G.rules) \in Nat /\ Len(G.rules) >= 1
<1>1. tool \in DOMAIN Tools  BY LRToolsAssumption
<1>2. IsFiniteSet(G.terminals)
  <2>1. IsFiniteSet(SymbolsOf[tool]) /\ G.terminals \in SUBSET SymbolsOf[tool]
    BY <1>1, SymbolFacts DEF G
  <2> QED BY <2>1, FS_Subset
<1>3. /\ Len(G.rules) \in Nat /\ Places(tool) = 1..Len(G.rules) /\ Len(G.rules) >= 1
      /\ \A r \in Places(tool) : Len(Body(tool, r)) \in Nat
  BY <1>1, RuleFacts DEF G
<1>4. IsFiniteSet(Places(tool)) /\ Cardinality(Places(tool)) = Len(G.rules)
  <2> DEFINE n == Len(G.rules)
  <2>1. n \in Nat /\ n >= 1 /\ Places(tool) = 1..n  BY <1>3
  <2> HIDE DEF n
  <2>2. IsFiniteSet(1..n) /\ Cardinality(1..n) = IF 1 > n THEN 0 ELSE n - 1 + 1  BY <2>1, FS_Interval
  <2>3. Cardinality(1..n) = n  BY <2>1, <2>2
  <2> QED BY <2>1, <2>2, <2>3 DEF n
<1> DEFINE f == [r \in Places(tool) |-> {r} \X (0..Len(Body(tool, r)))]
           U == UNION {f[r] : r \in Places(tool)}
<1>5. IsFiniteSet(U)
  <2>1. \A T \in {f[r] : r \in Places(tool)} : IsFiniteSet(T)
    <3>1. ASSUME NEW r \in Places(tool) PROVE IsFiniteSet(f[r])
      <4> DEFINE A == {r}
                 n == Len(Body(tool, r))
                 B == 0..n
      <4>3. n \in Int /\ 0 \in Int  BY <1>3
      <4>4. IsFiniteSet(B)
        <5> HIDE DEF n
        <5> QED BY <4>3, FS_Interval
      <4>1. IsFiniteSet(A) /\ IsFiniteSet(B)  BY <4>4, FS_Singleton
      <4>2. f[r] = A \X B  OBVIOUS
      <4> HIDE DEF A, B, f
      <4> QED BY <4>1, <4>2, FS_Product
    <3> HIDE DEF f
    <3> QED BY <3>1
  <2>2. f = [r \in Places(tool) |-> f[r]]  OBVIOUS
  <2> HIDE DEF f
  <2>3. IsFiniteSet({f[r] : r \in Places(tool)})  BY <1>4, <2>2, ImageIsFinite
  <2> QED BY <2>1, <2>3, FS_UNION
<1> DEFINE D == U \X G.terminals
           g == [p \in D |-> [rule |-> p[1][1], dot |-> p[1][2], ahead |-> p[2]]]
<1>6. IsFiniteSet({g[p] : p \in D})
  <2>1. g = [p \in D |-> g[p]]  OBVIOUS
  <2>2. IsFiniteSet(D)  BY <1>2, <1>5, FS_Product
  <2> HIDE DEF g, D
  <2> QED BY <2>1, <2>2, ImageIsFinite
<1>7. Items \subseteq {g[p] : p \in D}
  <2> SUFFICES ASSUME NEW i \in Items PROVE i \in {g[p] : p \in D}  OBVIOUS
  <2>1. /\ i.rule \in Places(tool) /\ i.dot \in Nat /\ i.dot <= Len(Body(tool, i.rule))
        /\ i.ahead \in G.terminals /\ i = [rule |-> i.rule, dot |-> i.dot, ahead |-> i.ahead]
    BY ItemFacts
  <2>2. <<i.rule, i.dot>> \in f[i.rule]  BY <1>3, <2>1
  <2>3. <<i.rule, i.dot>> \in U
    <3> HIDE DEF f
    <3> QED BY <2>1, <2>2
  <2>4. <<<<i.rule, i.dot>>, i.ahead>> \in D
    <3> HIDE DEF U
    <3> QED BY <2>1, <2>3
  <2>5. g[<<<<i.rule, i.dot>>, i.ahead>>] = i
    <3> DEFINE p == <<<<i.rule, i.dot>>, i.ahead>>
    <3>1. p \in D /\ p[1][1] = i.rule /\ p[1][2] = i.dot /\ p[2] = i.ahead  BY <2>4
    <3> HIDE DEF D, p
    <3>2. g[p] = [rule |-> p[1][1], dot |-> p[1][2], ahead |-> p[2]]  BY <3>1
    <3>3. g[p] = i
      <4> HIDE DEF g
      <4> QED BY <2>1, <3>1, <3>2
    <3> QED BY <3>3 DEF p
  <2> HIDE DEF g, D
  <2> QED BY <2>4, <2>5
<1> HIDE DEF g, D
<1>8. IsFiniteSet(Items)  BY <1>6, <1>7, FS_Subset
<1> QED BY <1>2, <1>3, <1>4, <1>8

\* The items that a closure adds stand at the start of their rules.
Opening == {i \in Items : i.dot = 0}

Expansions(i) ==
  IF HasSymbolAfterStackTop(i)
  THEN {InitLR1_Item(r, b) : r \in RulesOf(G, SymbolAfterStackTop(i)),
                             b \in FirstThen(SymbolsAfterC(i), i.ahead)}
  ELSE {}

LEMMA ExpansionsOpen ==
  ASSUME tool \in LR1Tools, first = FirstOf[tool], NEW i \in Items
  PROVE  /\ Expansions(i) \subseteq Opening
         /\ \A j \in Expansions(i) : HasSymbolAfterStackTop(i)
                                  /\ HeadOf(tool, j.rule) = SymbolAfterStackTop(i)
<1>1. tool \in DOMAIN Tools  BY LRToolsAssumption
<1> DEFINE d == Derived(i)
           S == SymbolsOf[tool]
<1>2. /\ i.rule \in Places(tool) /\ i.dot \in Nat /\ i.dot <= Len(d) /\ i.ahead \in G.terminals
      /\ d = Body(tool, i.rule) /\ d \in Seq(S) /\ Len(d) \in Nat
  BY ItemFacts
<1> HIDE DEF d
<1>3. SUFFICES ASSUME HasSymbolAfterStackTop(i), NEW r \in RulesOf(G, SymbolAfterStackTop(i)),
                      NEW b \in FirstThen(SymbolsAfterC(i), i.ahead)
               PROVE  /\ InitLR1_Item(r, b) \in Opening
                      /\ HeadOf(tool, InitLR1_Item(r, b).rule) = SymbolAfterStackTop(i)
  <2> SUFFICES ASSUME NEW j \in Expansions(i)
               PROVE  j \in Opening /\ HasSymbolAfterStackTop(i)
                      /\ HeadOf(tool, j.rule) = SymbolAfterStackTop(i)
    OBVIOUS
  <2>1. HasSymbolAfterStackTop(i)  BY DEF Expansions
  <2>2. PICK r \in RulesOf(G, SymbolAfterStackTop(i)), b \in FirstThen(SymbolsAfterC(i), i.ahead) :
          j = InitLR1_Item(r, b)
    BY <2>1 DEF Expansions
  <2> QED BY <1>3, <2>1, <2>2
<1>4. i.dot < Len(d) /\ SymbolAfterStackTop(i) = d[i.dot + 1]
  BY <1>3 DEF HasSymbolAfterStackTop, SymbolAfterStackTop, d
<1>5. r \in Places(tool) /\ HeadOf(tool, r) = SymbolAfterStackTop(i)
  BY DEF RulesOf, Places, HeadOf, G
<1>6. b \in G.terminals
  <2> DEFINE s == SymbolsAfterC(i)
  <2>1. s \in Seq(S)
    <3> DEFINE n == i.dot + 2
               m == Len(d)
    <3>1. n \in Int /\ m \in Int /\ \A k \in n..m : d[k] \in S  BY <1>2
    <3>2. s = SubSeq(d, n, m)  BY DEF SymbolsAfterC, d
    <3> HIDE DEF s, n, m, S
    <3> QED BY <3>1, <3>2, SubSeqProperties
  <2>2. \A x \in S : first[x] \subseteq G.terminals  BY <1>1, FirstFacts DEF G
  <2>3. Empty \in G.terminals  BY <1>1, SymbolFacts DEF G
  <2>4. First(s) \subseteq G.terminals
    <3>1. \A k \in DOMAIN s : s[k] \in S  BY <2>1
    <3> HIDE DEF s, S
    <3> QED BY <2>2, <2>3, <3>1 DEF First
  <2>5. b \in {i.ahead} \cup First(s)
    <3> HIDE DEF s
    <3> QED BY DEF FirstThen, s
  <2> HIDE DEF s
  <2> QED BY <1>2, <2>4, <2>5
<1>7. InitLR1_Item(r, b) = [rule |-> r, dot |-> 0, ahead |-> b]  BY DEF InitLR1_Item, Item
<1>8. Len(Body(tool, r)) \in Nat  BY <1>1, <1>5, RuleFacts
<1>9. InitLR1_Item(r, b) \in Items
  <2>1. Derived(InitLR1_Item(r, b)) = Body(tool, r)  BY <1>7 DEF Derived, Body, G
  <2> QED BY <1>5, <1>6, <1>7, <1>8, <2>1 DEF Items
<1> QED BY <1>5, <1>7, <1>9 DEF Opening

LEMMA OpeningIsSmall ==
  ASSUME tool \in LR1Tools
  PROVE  /\ IsFiniteSet(Opening) /\ IsFiniteSet(G.terminals)
         /\ Cardinality(Opening) <= Len(G.rules) * Cardinality(G.terminals)
<1> DEFINE D == Places(tool) \X G.terminals
           f == [p \in D |-> InitLR1_Item(p[1], p[2])]
           T == {f[p] : p \in D}
<1>1. IsFiniteSet(D) /\ Cardinality(D) = Len(G.rules) * Cardinality(G.terminals)
  BY ItemsAreFinite, FS_Product
<1>2. f \in Surjection(D, T)
  <2>1. f \in [D -> T] /\ \A y \in T : \E x \in D : f[x] = y  OBVIOUS
  <2> QED BY <2>1 DEF Surjection
<1>3. IsFiniteSet(T) /\ Cardinality(T) <= Cardinality(D)
  <2> HIDE DEF T, f, D
  <2> QED BY <1>1, <1>2, FS_Surjection
<1>4. Opening \subseteq T
  <2> SUFFICES ASSUME NEW i \in Opening PROVE i \in T  OBVIOUS
  <2>1. i \in Items /\ i.dot = 0  BY DEF Opening
  <2>2. i.rule \in Places(tool) /\ i.ahead \in G.terminals
        /\ i = [rule |-> i.rule, dot |-> i.dot, ahead |-> i.ahead]
    BY <2>1, ItemFacts
  <2>3. i = InitLR1_Item(i.rule, i.ahead)  BY <2>1, <2>2 DEF InitLR1_Item, Item
  <2>4. <<i.rule, i.ahead>> \in D /\ f[<<i.rule, i.ahead>>] = i  BY <2>2, <2>3
  <2>5. f[<<i.rule, i.ahead>>] \in T
    <3> HIDE DEF D, f
    <3> QED BY <2>4
  <2> HIDE DEF f, T, D
  <2> QED BY <2>4, <2>5
<1> HIDE DEF T, D
<1>5. IsFiniteSet(Opening) /\ Cardinality(Opening) <= Cardinality(T)  BY <1>3, <1>4, FS_Subset
<1>6. /\ Cardinality(Opening) \in Nat /\ Cardinality(T) \in Nat /\ Cardinality(D) \in Nat
  BY <1>1, <1>3, <1>5, FS_CardinalityType
<1>7. Cardinality(Opening) <= Cardinality(D)  BY <1>3, <1>5, <1>6
<1> QED BY <1>1, <1>5, <1>7, ItemsAreFinite

\* The rounds end, and a closure adds to a set nothing but items at the start
\* of a rule whose head is a next symbol.
LEMMA ClosureFacts ==
  ASSUME tool \in LR1Tools, first = FirstOf[tool], NEW set \in SUBSET Items
  PROVE  /\ set \subseteq Closure(set) /\ Closure(set) \subseteq set \cup Opening
         /\ \A i \in Closure(set) \ set : HeadOf(tool, i.rule) \in NextSymbols(Closure(set))
<1> DEFINE bound == Len(G.rules) * (Cardinality(G.terminals) + 1)
           Grown(s) == s \cup UNION {Expansions(i) : i \in s}
           Is(f) == f = [n \in 0..bound |-> IF n = 0 THEN set ELSE Grown(f[n - 1])]
           rounds == CHOOSE f : Is(f)
           last == CHOOSE n \in 0..(bound - 1) : rounds[n] = rounds[n + 1]
           S == set \cup Opening
           F == [X \in SUBSET S |-> Grown(X)]
<1>1. Closure(set) = rounds[last]  BY DEF Closure, Expansions
<1>2. S \subseteq Items  BY DEF Opening
<1>3. \A X \in SUBSET S : Grown(X) \in SUBSET S
  <2> SUFFICES ASSUME NEW X \in SUBSET S, NEW i \in X PROVE Expansions(i) \subseteq S  OBVIOUS
  <2>1. i \in Items  BY <1>2
  <2> QED BY <2>1, ExpansionsOpen
<1>4. /\ bound - 1 \in Nat /\ bound \in Nat /\ IsFiniteSet(S)
      /\ Cardinality(S) <= Cardinality(set) + (bound - 1)
  <2> DEFINE m == Len(G.rules)
             c == Cardinality(G.terminals)
             a == Cardinality(set)
             o == Cardinality(Opening)
  <2>1. m \in Nat /\ m >= 1 /\ c \in Nat /\ a \in Nat /\ o \in Nat /\ o <= m * c
        /\ IsFiniteSet(set) /\ IsFiniteSet(Opening)
    BY ItemsAreFinite, OpeningIsSmall, FS_Subset, FS_CardinalityType
  <2>2. /\ IsFiniteSet(S) /\ Cardinality(S) = a + o - Cardinality(set \cap Opening)
        /\ Cardinality(set \cap Opening) \in Nat
    BY <2>1, FS_Union, FS_Intersection, FS_CardinalityType
  <2>3. bound = m * (c + 1)  OBVIOUS
  <2> HIDE DEF m, c, a, o, bound, S
  <2>4. m * (c + 1) = m * c + m /\ m * c \in Nat  BY <2>1
  <2>5. bound - 1 \in Nat /\ bound \in Nat /\ m * c <= bound - 1  BY <2>1, <2>3, <2>4
  <2> DEFINE q == m * c
  <2>6. q <= bound - 1 /\ o <= q /\ q \in Nat  BY <2>1, <2>4, <2>5
  <2> HIDE DEF q
  <2>7. Cardinality(S) <= a + (bound - 1)  BY <2>1, <2>2, <2>5, <2>6
  <2> QED BY <2>2, <2>5, <2>7 DEF a
<1> HIDE DEF bound, S, last, rounds
<1>5. F \in [SUBSET S -> SUBSET S] /\ Inflationary(S, F) /\ set \in SUBSET S
  <2>1. F \in [SUBSET S -> SUBSET S]
    <3> HIDE DEF Grown
    <3> QED BY <1>3
  <2>2. \A X \in SUBSET S : F[X] = Grown(X)
    <3> HIDE DEF Grown
    <3> QED OBVIOUS
  <2>3. \A X \in SUBSET S : X \subseteq F[X]
    <3> HIDE DEF F
    <3> QED BY <2>2
  <2>4. set \in SUBSET S  BY DEF S
  <2> QED BY <2>1, <2>3, <2>4 DEF Inflationary
<1>6. \A X \in SUBSET S : F[X] = Grown(X) /\ F[X] \in SUBSET S /\ X \subseteq F[X]
  <2> HIDE DEF Grown
  <2>1. \A X \in SUBSET S : F[X] = Grown(X)  OBVIOUS
  <2> HIDE DEF F
  <2> QED BY <1>3, <1>5, <2>1 DEF Inflationary
<1> HIDE DEF F, Grown
<1>7. Is(rounds)
  <2>1. PICK f \in [0..bound -> SUBSET S] : Iterated(F, set, bound, f)
    <3> DEFINE T == SUBSET S
    <3>1. F \in [T -> T] /\ set \in T  BY <1>5
    <3> HIDE DEF T
    <3>2. \E f \in [0..bound -> T] : Iterated(F, set, bound, f)  BY <1>4, <3>1, Iterates
    <3> QED BY <3>2 DEF T
  <2>2. f = [n \in 0..bound |-> IF n = 0 THEN set ELSE F[f[n - 1]]]  BY <2>1 DEF Iterated
  <2>3. ASSUME NEW n \in 0..bound, n # 0 PROVE F[f[n - 1]] = Grown(f[n - 1])
    <3>1. n - 1 \in 0..bound  BY <1>4, <2>3
    <3> QED BY <1>6, <3>1
  <2>4. Is(f)  BY <2>2, <2>3
  <2> HIDE DEF Is
  <2> QED BY <2>4 DEF rounds
<1>8. \A n \in 0..bound : rounds[n] = IF n = 0 THEN set ELSE Grown(rounds[n - 1])
  BY <1>7
<1>9. rounds = [n \in 0..bound |-> rounds[n]]  BY <1>7
<1> HIDE DEF Is
<1>10. rounds[0] = set /\ \A n \in 0..bound - 1 : rounds[n + 1] = Grown(rounds[n])
  <2>1. rounds[0] = set  BY <1>4, <1>8
  <2>2. ASSUME NEW n \in 0..bound - 1 PROVE rounds[n + 1] = Grown(rounds[n])
    <3> DEFINE q == n + 1
    <3>1. q \in 0..bound /\ q # 0 /\ q - 1 = n  BY <1>4
    <3> HIDE DEF q
    <3>2. rounds[q] = Grown(rounds[q - 1])  BY <1>8, <3>1
    <3> QED BY <3>1, <3>2 DEF q
  <2> QED BY <2>1, <2>2
<1> DEFINE Led(X) == \A i \in X \ set : HeadOf(tool, i.rule) \in NextSymbols(X)
<1>16. ASSUME NEW X \in SUBSET S, Led(X) PROVE Led(Grown(X))
  <2> SUFFICES ASSUME NEW i \in Grown(X) \ set
               PROVE  HeadOf(tool, i.rule) \in NextSymbols(Grown(X))
    OBVIOUS
  <2>1. X \subseteq Grown(X)  BY <1>6
  <2>2. NextSymbols(X) \subseteq NextSymbols(Grown(X))  BY <2>1 DEF NextSymbols
  <2>3. CASE i \in X  BY <1>16, <2>2, <2>3
  <2>4. CASE i \notin X
    <3>1. PICK j \in X : i \in Expansions(j)  BY <2>4 DEF Grown
    <3>2. j \in Items  BY <1>2
    <3>3. HasSymbolAfterStackTop(j) /\ HeadOf(tool, i.rule) = SymbolAfterStackTop(j)
      BY <3>1, <3>2, ExpansionsOpen
    <3> QED BY <2>2, <3>3 DEF NextSymbols
  <2> QED BY <2>3, <2>4
<1>11. \A n \in 0..bound : rounds[n] \in SUBSET S /\ set \subseteq rounds[n] /\ Led(rounds[n])
  <2> DEFINE P == {n \in Nat : n <= bound =>
                     rounds[n] \in SUBSET S /\ set \subseteq rounds[n] /\ Led(rounds[n])}
  <2>1. 0 \in P
    <3>1. Led(rounds[0])  BY <1>10
    <3> HIDE DEF Led
    <3> QED BY <1>5, <1>10, <3>1
  <2> HIDE DEF Led
  <2>2. ASSUME NEW n \in Nat, n \in P PROVE n + 1 \in P
    <3>1. CASE n + 1 <= bound
      <4>1. n \in 0..bound - 1 /\ rounds[n] \in SUBSET S /\ set \subseteq rounds[n]
            /\ Led(rounds[n])
        BY <1>4, <2>2, <3>1
      <4>2. rounds[n + 1] = Grown(rounds[n])  BY <1>10, <4>1
      <4>3. Grown(rounds[n]) \in SUBSET S /\ rounds[n] \subseteq Grown(rounds[n])  BY <1>6, <4>1
      <4>4. Led(Grown(rounds[n]))  BY <1>16, <4>1
      <4>5. set \subseteq rounds[n + 1] /\ Led(rounds[n + 1]) /\ rounds[n + 1] \in SUBSET S
        BY <4>1, <4>2, <4>3, <4>4
      <4> QED BY <4>5
    <3>2. CASE ~ (n + 1 <= bound)  BY <3>2
    <3> QED BY <3>1, <3>2
  <2>3. Nat \subseteq P
    <3> HIDE DEF P
    <3> QED BY <2>1, <2>2, AllNumbers
  <2> QED BY <1>4, <2>3
<1>12. rounds[bound - 1] = rounds[bound - 1 + 1]
  <2> DEFINE K == bound - 1
             f == [n \in 0..K |-> rounds[n]]
  <2>1. K \in Nat /\ 0..K \subseteq 0..bound /\ K \in 0..K /\ 0 \in 0..K  BY <1>4
  <2>2. Iterated(F, set, K, f)
    <3>1. ASSUME NEW n \in 0..K PROVE rounds[n] = IF n = 0 THEN set ELSE F[f[n - 1]]
      <4>1. CASE n = 0  BY <1>10, <4>1
      <4>2. CASE n # 0
        <5>1. n - 1 \in 0..K /\ n - 1 \in 0..bound - 1 /\ n - 1 + 1 = n  BY <2>1, <4>2
        <5>2. rounds[n - 1 + 1] = Grown(rounds[n - 1])  BY <1>10, <5>1
        <5>3. f[n - 1] = rounds[n - 1]  BY <5>1
        <5>4. rounds[n - 1] \in SUBSET S  BY <1>11, <2>1, <5>1
        <5> HIDE DEF f, K
        <5>5. F[f[n - 1]] = Grown(rounds[n - 1])  BY <1>6, <5>3, <5>4
        <5> QED BY <4>2, <5>1, <5>2, <5>5
      <4> QED BY <4>1, <4>2
    <3>2. f = [n \in 0..K |-> f[n]] /\ \A n \in 0..K : f[n] = rounds[n]  OBVIOUS
    <3> HIDE DEF f, K
    <3>3. \A n \in 0..K : f[n] = IF n = 0 THEN set ELSE F[f[n - 1]]  BY <3>1, <3>2
    <3>4. f = [n \in 0..K |-> IF n = 0 THEN set ELSE F[f[n - 1]]]  BY <3>2, <3>3
    <3> QED BY <3>4 DEF Iterated
  <2>3. Cardinality(S) <= Cardinality(set) + K  BY <1>4
  <2> HIDE DEF f, K
  <2>10. IsFiniteSet(S) /\ K \in Nat  BY <1>4, <2>1
  <2>4. F[f[K]] = f[K]  BY <1>5, <2>2, <2>3, <2>10, Saturates
  <2>5. f[K] = rounds[K]  BY <2>1 DEF f
  <2>6. rounds[K] \in SUBSET S  BY <1>11, <2>1
  <2>7. K \in 0..bound - 1  BY <1>4 DEF K
  <2>8. rounds[K + 1] = Grown(rounds[K])  BY <1>10, <2>7
  <2>9. rounds[K + 1] = rounds[K]  BY <1>6, <2>4, <2>5, <2>6, <2>8
  <2> QED BY <2>9 DEF K
<1>13. last \in 0..bound - 1
  <2>1. bound - 1 \in 0..bound - 1  BY <1>4
  <2> QED BY <1>12, <2>1 DEF last
<1>14. last \in 0..bound  BY <1>4, <1>13
<1>15. rounds[last] \in SUBSET S /\ set \subseteq rounds[last] /\ Led(rounds[last])
  <2> HIDE DEF Led
  <2> QED BY <1>11, <1>14
<1> QED BY <1>1, <1>15 DEF S

-----------------------------------------------------------------------------
(* Successors. *)

LeadsBy(i, s) == HasSymbolAfterStackTop(i) /\ SymbolAfterStackTop(i) = s

LEMMA NextFacts ==
  ASSUME tool \in LR1Tools, NEW S \in SUBSET Items
  PROVE  /\ NextSymbols(S) \subseteq SymbolsOf[tool] /\ IsFiniteSet(NextSymbols(S))
         /\ \A s : s \in NextSymbols(S) <=> \E i \in S : LeadsBy(i, s)
         /\ \A i \in S : \A s : LeadsBy(i, s) => i.dot + 1 \in 1..Len(Derived(i)) /\ Derived(i)[i.dot + 1] = s
<1>1. \A s : s \in NextSymbols(S) <=> \E i \in S : LeadsBy(i, s)  BY DEF NextSymbols, LeadsBy
<1>2. ASSUME NEW i \in S, NEW s, LeadsBy(i, s)
      PROVE  s \in SymbolsOf[tool] /\ i.dot + 1 \in 1..Len(Derived(i)) /\ Derived(i)[i.dot + 1] = s
  <2>1. i.dot \in Nat /\ Derived(i) \in Seq(SymbolsOf[tool])  BY ItemFacts
  <2>2. i.dot < Len(Derived(i)) /\ Derived(i)[i.dot + 1] = s
    BY <1>2 DEF LeadsBy, HasSymbolAfterStackTop, SymbolAfterStackTop
  <2> DEFINE d == Derived(i)
  <2>3. d \in Seq(SymbolsOf[tool]) /\ Len(d) \in Nat /\ i.dot < Len(d)  BY <2>1, <2>2
  <2> HIDE DEF d
  <2>4. i.dot + 1 \in 1..Len(d)  BY <2>1, <2>3
  <2>5. d[i.dot + 1] \in SymbolsOf[tool]  BY <2>3, <2>4
  <2> QED BY <2>2, <2>4, <2>5 DEF d
<1>3. NextSymbols(S) \subseteq SymbolsOf[tool]  BY <1>1, <1>2
<1>4. IsFiniteSet(SymbolsOf[tool])  BY LRToolsAssumption, SymbolFacts
<1> QED BY <1>1, <1>2, <1>3, <1>4, FS_Subset

LEMMA SwapFacts ==
  ASSUME tool \in LR1Tools, NEW i \in Items, NEW s, LeadsBy(i, s)
  PROVE  LET j == SwapSymbolAfterStackTop(i)
         IN  /\ j \in Items /\ j.rule = i.rule /\ j.dot = i.dot + 1 /\ j.ahead = i.ahead
             /\ Derived(j) = Derived(i) /\ Derived(j)[j.dot] = s
<1> DEFINE j == SwapSymbolAfterStackTop(i)
<1>2. i.dot + 1 \in 1..Len(Derived(i)) /\ Derived(i)[i.dot + 1] = s
  <2>1. {i} \in SUBSET Items /\ i \in {i}  OBVIOUS
  <2> QED BY <2>1, NextFacts
<1>3. /\ i.rule \in Places(tool) /\ i.dot \in Nat /\ i.ahead \in G.terminals
      /\ i = [rule |-> i.rule, dot |-> i.dot, ahead |-> i.ahead] /\ Derived(i) \in Seq(SymbolsOf[tool])
  BY ItemFacts
<1>4. j = [rule |-> i.rule, dot |-> i.dot + 1, ahead |-> i.ahead]
  BY <1>3 DEF SwapSymbolAfterStackTop
<1>5. j.rule = i.rule /\ j.dot = i.dot + 1 /\ j.ahead = i.ahead  BY <1>4
<1>6. Derived(j) = Derived(i)  BY <1>5 DEF Derived
<1>7. Len(Derived(i)) \in Nat  BY <1>3
<1>8. j.dot \in Nat /\ j.dot <= Len(Derived(j))  BY <1>2, <1>3, <1>5, <1>6, <1>7
<1>9. j \in Items
  <2>1. j \in [rule : Places(tool), dot : Nat, ahead : G.terminals]  BY <1>3, <1>4
  <2> HIDE DEF j
  <2> QED BY <1>8, <2>1 DEF Items
<1> HIDE DEF j
<1> QED BY <1>2, <1>5, <1>6, <1>9 DEF j

\* What a successor of a set holds: the items that lead to it, moved on, and
\* items at the start of rules whose heads are its next symbols.
LEMMA GotoFacts ==
  ASSUME tool \in LR1Tools, first = FirstOf[tool], NEW S \in SUBSET Items, NEW s
  PROVE  /\ Goto(S, s) \in SUBSET Items
         /\ \A i \in S : LeadsBy(i, s) => SwapSymbolAfterStackTop(i) \in Goto(S, s)
         /\ \A j \in Goto(S, s) :
              \/ \E i \in S : LeadsBy(i, s) /\ j = SwapSymbolAfterStackTop(i)
              \/ j.dot = 0 /\ HeadOf(tool, j.rule) \in NextSymbols(Goto(S, s))
<1> DEFINE moved == {SwapSymbolAfterStackTop(i) : i \in {j \in S : LeadsBy(j, s)}}
<1>1. Goto(S, s) = Closure(moved)  BY DEF Goto, LeadsBy
<1>2. moved \in SUBSET Items  BY SwapFacts
<1>3. \A i \in S : LeadsBy(i, s) => SwapSymbolAfterStackTop(i) \in moved  OBVIOUS
<1>4. \A j \in moved : \E i \in S : LeadsBy(i, s) /\ j = SwapSymbolAfterStackTop(i)  OBVIOUS
<1> HIDE DEF moved
<1>5. /\ moved \subseteq Closure(moved) /\ Closure(moved) \subseteq moved \cup Opening
      /\ \A i \in Closure(moved) \ moved : HeadOf(tool, i.rule) \in NextSymbols(Closure(moved))
  BY <1>2, ClosureFacts
<1> QED BY <1>1, <1>2, <1>3, <1>4, <1>5 DEF Opening

LEMMA GotosDiffer ==
  ASSUME tool \in LR1Tools, first = FirstOf[tool], NEW S \in SUBSET Items,
         NEW s \in NextSymbols(S), NEW u, Goto(S, s) = Goto(S, u)
  PROVE  s = u
<1>1. PICK i \in S : LeadsBy(i, s)  BY NextFacts
<1> DEFINE j == SwapSymbolAfterStackTop(i)
<1>2. j \in Goto(S, u)  BY <1>1, GotoFacts
<1>3. i \in Items /\ i.dot \in Nat  BY ItemFacts
<1>4. j.dot = i.dot + 1 /\ Derived(j)[j.dot] = s  BY <1>1, <1>3, SwapFacts
<1> HIDE DEF j
<1>5. j.dot # 0  BY <1>3, <1>4
<1>6. PICK k \in S : LeadsBy(k, u) /\ j = SwapSymbolAfterStackTop(k)  BY <1>2, <1>5, GotoFacts
<1>7. k \in Items  OBVIOUS
<1>8. Derived(j)[j.dot] = u  BY <1>6, <1>7, SwapFacts
<1> QED BY <1>4, <1>8

\* The new sets get different numbers, the next ones.
LEMMA NewcomersFacts ==
  ASSUME tool \in LR1Tools, first = FirstOf[tool], NEW S \in SUBSET Items,
         IsFiniteSet(DOMAIN set_id)
  PROVE  LET ids == Newcomers(S)
             old == Cardinality(DOMAIN set_id)
         IN  /\ DOMAIN ids = {s \in NextSymbols(S) : Goto(S, s) \notin DOMAIN set_id}
             /\ IsFiniteSet(DOMAIN ids)
             /\ \A s \in DOMAIN ids : /\ ids[s] \in Nat /\ ids[s] >= old
                                      /\ ids[s] < old + Cardinality(DOMAIN ids)
             /\ \A s, u \in DOMAIN ids : ids[s] = ids[u] => s = u
<1> DEFINE unknown == {s \in NextSymbols(S) : Goto(S, s) \notin DOMAIN set_id}
           old == Cardinality(DOMAIN set_id)
           leader(s) == CHOOSE i \in S :
              /\ HasSymbolAfterStackTop(i) /\ SymbolAfterStackTop(i) = s
              /\ \A j \in S \ {i} :
                    HasSymbolAfterStackTop(j) /\ SymbolAfterStackTop(j) = s => Before(i, j)
           earlier(s) == {u \in unknown : Before(leader(u), leader(s))}
           ids == [s \in unknown |-> old + Cardinality(earlier(s))]
<1>1. Newcomers(S) = ids  BY DEF Newcomers
<1>2. IsFiniteSet(unknown)
  <2>1. IsFiniteSet(NextSymbols(S))  BY NextFacts
  <2>2. unknown \in SUBSET NextSymbols(S)  OBVIOUS
  <2> HIDE DEF unknown
  <2> QED BY <2>1, <2>2, FS_Subset
<1>3. old \in Nat  BY FS_CardinalityType
<1>4. ASSUME NEW s \in unknown PROVE leader(s) \in S /\ LeadsBy(leader(s), s)
  <2> DEFINE T == {i \in S : LeadsBy(i, s)}
  <2>1. T # {}  BY NextFacts
  <2>2. IsFiniteSet(T) /\ T \subseteq Items
    <3>1. IsFiniteSet(Items) /\ T \in SUBSET Items  BY ItemsAreFinite
    <3> HIDE DEF T
    <3> QED BY <3>1, FS_Subset
  <2>3. PICK m \in T : \A x \in T \ {m} : Before(m, x)
    <3> HIDE DEF T
    <3> QED BY <2>1, <2>2, FirstAndLastItem
  <2>4. /\ m \in S /\ HasSymbolAfterStackTop(m) /\ SymbolAfterStackTop(m) = s
        /\ \A j \in S \ {m} :
              HasSymbolAfterStackTop(j) /\ SymbolAfterStackTop(j) = s => Before(m, j)
    BY <2>3 DEF LeadsBy
  <2>5. leader(s) \in S /\ HasSymbolAfterStackTop(leader(s)) /\ SymbolAfterStackTop(leader(s)) = s
    <3> HIDE DEF T, unknown, earlier, ids
    <3> QED BY <2>4
  <2> QED BY <2>5 DEF LeadsBy
<1> HIDE DEF leader
<1>5. \A s, u \in unknown : leader(s) = leader(u) => s = u  BY <1>4 DEF LeadsBy
<1>6. \A s \in unknown : leader(s) \in Items  BY <1>4
<1>7. ASSUME NEW s \in unknown
      PROVE  /\ IsFiniteSet(earlier(s)) /\ Cardinality(earlier(s)) \in Nat
             /\ Cardinality(earlier(s)) < Cardinality(unknown)
  <2>1. s \notin earlier(s)  BY <1>6, ItemsAreOrdered
  <2>2. earlier(s) \in SUBSET (unknown \ {s})  BY <2>1
  <2> HIDE DEF earlier, unknown
  <2>3. /\ IsFiniteSet(unknown \ {s}) /\ Cardinality(unknown \ {s}) = Cardinality(unknown) - 1
        /\ Cardinality(unknown) \in Nat
    BY <1>2, FS_RemoveElement, FS_CardinalityType
  <2>4. /\ IsFiniteSet(earlier(s)) /\ Cardinality(earlier(s)) <= Cardinality(unknown \ {s})
    BY <2>2, <2>3, FS_Subset
  <2> QED BY <2>3, <2>4, FS_CardinalityType
<1>8. ASSUME NEW s \in unknown, NEW u \in unknown, Before(leader(s), leader(u))
      PROVE  Cardinality(earlier(s)) < Cardinality(earlier(u))
  <2>1. s \notin earlier(s)  BY <1>6, ItemsAreOrdered
  <2>2. s \in earlier(u)  BY <1>8
  <2>3. earlier(s) \in SUBSET earlier(u)
    <3> SUFFICES ASSUME NEW x \in unknown, Before(leader(x), leader(s))
                 PROVE  Before(leader(x), leader(u))
      OBVIOUS
    <3> QED BY <1>6, <1>8, ItemsAreOrdered
  <2>4. /\ IsFiniteSet(earlier(u)) /\ Cardinality(earlier(u)) \in Nat
        /\ Cardinality(earlier(s)) \in Nat
    BY <1>7
  <2> HIDE DEF earlier, unknown
  <2>5. /\ Cardinality(earlier(s)) <= Cardinality(earlier(u))
        /\ Cardinality(earlier(u)) = Cardinality(earlier(s)) => earlier(u) = earlier(s)
    BY <2>3, <2>4, FS_Subset
  <2> QED BY <2>1, <2>2, <2>4, <2>5
<1>9. ASSUME NEW s \in unknown, NEW u \in unknown,
             old + Cardinality(earlier(s)) = old + Cardinality(earlier(u))
      PROVE  s = u
  <2>1. Cardinality(earlier(s)) = Cardinality(earlier(u))
    <3> DEFINE a == Cardinality(earlier(s))
               b == Cardinality(earlier(u))
    <3>1. a \in Nat /\ b \in Nat  BY <1>7
    <3>2. old + a = old + b  BY <1>9
    <3> HIDE DEF a, b, old
    <3>3. a = b  BY <1>3, <3>1, <3>2
    <3> QED BY <3>3 DEF a, b
  <2>2. ~ Before(leader(s), leader(u)) /\ ~ Before(leader(u), leader(s))
    <3> HIDE DEF earlier, unknown
    <3>1. Cardinality(earlier(s)) \in Nat  BY <1>7
    <3> QED BY <1>7, <1>8, <2>1, <3>1
  <2>3. leader(s) = leader(u)  BY <1>6, <2>2, ItemsAreOrdered
  <2> QED BY <1>5, <2>3
<1> HIDE DEF earlier
<1> HIDE DEF unknown
<1>10. DOMAIN ids = unknown /\ \A s \in unknown : ids[s] = old + Cardinality(earlier(s))  OBVIOUS
<1> HIDE DEF ids
<1>11. Cardinality(unknown) \in Nat  BY <1>2, FS_CardinalityType
<1>12. \A s \in unknown : /\ ids[s] \in Nat /\ ids[s] >= old /\ ids[s] < old + Cardinality(unknown)
  <2> TAKE s \in unknown
  <2>1. Cardinality(earlier(s)) \in Nat /\ Cardinality(earlier(s)) < Cardinality(unknown)
        /\ ids[s] = old + Cardinality(earlier(s))
    BY <1>7, <1>10
  <2> HIDE DEF old
  <2> QED BY <1>3, <1>11, <2>1
<1>13. \A s, u \in unknown : ids[s] = ids[u] => s = u
  <2> HIDE DEF old
  <2> QED BY <1>9, <1>10
<1> QED BY <1>1, <1>2, <1>10, <1>12, <1>13 DEF unknown

-----------------------------------------------------------------------------
(* The collection and the tables. *)

LEMMA SameGrammar ==
  ASSUME tool' = tool, first' = first
  PROVE  /\ \A S, s : (Goto(S, s))' = Goto(S, s)
         /\ \A S : (Closure(S))' = Closure(S)
         /\ \A S : (NextSymbols(S))' = NextSymbols(S)
         /\ Items' = Items /\ G' = G
<1>1. G' = G  BY DEF G
<1>2. \A i : (Derived(i))' = Derived(i)  BY <1>1 DEF Derived
<1>3. Items' = Items  BY <1>1, <1>2 DEF Items, Places
<1>4. \A S : (NextSymbols(S))' = NextSymbols(S)
  BY DEF NextSymbols, HasSymbolAfterStackTop, SymbolAfterStackTop, Derived, G
<1>5. ASSUME NEW S PROVE (Closure(S))' = Closure(S)
  BY DEF Closure, HasSymbolAfterStackTop, SymbolAfterStackTop, SymbolsAfterC, FirstThen, First, Derived, G
<1>6. ASSUME NEW S, NEW s PROVE (Goto(S, s))' = Goto(S, s)
  <2>1. {SwapSymbolAfterStackTop(i) : i \in
           {j \in S : HasSymbolAfterStackTop(j) /\ SymbolAfterStackTop(j) = s}}'
         = {SwapSymbolAfterStackTop(i) : i \in
             {j \in S : HasSymbolAfterStackTop(j) /\ SymbolAfterStackTop(j) = s}}
    BY DEF HasSymbolAfterStackTop, SymbolAfterStackTop, SwapSymbolAfterStackTop, Derived, G
  <2> QED BY <1>5, <2>1 DEF Goto, Closure, HasSymbolAfterStackTop, SymbolAfterStackTop,
                            SymbolsAfterC, FirstThen, First, Derived, G
<1> QED BY <1>1, <1>3, <1>4, <1>5, <1>6

LEMMA SameRows ==
  ASSUME tool' = tool, first' = first, set_id' = set_id, NEW S
  PROVE  (ActionRow(S, set_id))' = ActionRow(S, set_id)
BY SameGrammar DEF ActionRow, Claims, ActionOf, NumberIn, IsInitialRule, Before, ItemKey, Place,
                   HasSymbolAfterStackTop, SymbolAfterStackTop, Derived, G, Goto, Closure,
                   SymbolsAfterC, FirstThen, First

EarlyPasses == {"first", "follow", "first_plus", "back_track", "analyzed"}
BuiltPasses == {"merge", "lalr_actions", "built", "parse", "accepted", "rejected"}

Start == Closure({InitLR1_Item(1, Eof)})

\* A set of the collection has a number of its own and is the first one or the
\* successor of another.
NumbersInv ==
  \A S \in DOMAIN set_id :
    /\ S \in SUBSET Items
    /\ set_id[S] \in Nat /\ set_id[S] < Cardinality(DOMAIN set_id)
    /\ S = Start \/ \E T \in DOMAIN set_id : \E s : S = Goto(T, s)
    /\ \A T \in DOMAIN set_id : set_id[S] = set_id[T] => S = T

\* The successors of the marked sets are there, and an entry of the goto table
\* tells the number of a successor.
SuccessorsInv ==
  /\ Start \in DOMAIN set_id /\ set_id[Start] = 0
  /\ marked \subseteq DOMAIN set_id
  /\ \A S \in marked : \A s \in NextSymbols(S) : Goto(S, s) \in DOMAIN set_id
  /\ \A e \in DOMAIN goto_table : \E S \in DOMAIN set_id : \E s :
       /\ e = <<set_id[S], s>> /\ Goto(S, s) \in DOMAIN set_id
       /\ goto_table[e] = set_id[Goto(S, s)]

\* The rows are those of the whole collection, one after the other.
RowsInv ==
  /\ \E k \in Nat : DOMAIN action_table = 0..k - 1
  /\ \A n \in DOMAIN action_table :
       /\ DOMAIN set_id = marked
       /\ \E S \in DOMAIN set_id : set_id[S] = n /\ action_table[n] = ActionRow(S, set_id)
  /\ pass \in BuiltPasses =>
       DOMAIN set_id = marked /\ \A S \in DOMAIN set_id : set_id[S] \in DOMAIN action_table

TablesInv ==
  IF pass \in EarlyPasses
  THEN set_id = <<>> /\ marked = {} /\ goto_table = <<>> /\ action_table = <<>>
  ELSE /\ tool \in LR1Tools
       /\ NumbersInv /\ SuccessorsInv /\ RowsInv

LEMMA FiniteCollection ==
  ASSUME tool \in LR1Tools, NumbersInv
  PROVE  IsFiniteSet(DOMAIN set_id) /\ Cardinality(DOMAIN set_id) \in Nat
<1>1. IsFiniteSet(SUBSET Items)  BY ItemsAreFinite, FS_SUBSET
<1>2. DOMAIN set_id \subseteq SUBSET Items  BY DEF NumbersInv
<1>3. IsFiniteSet(DOMAIN set_id)  BY <1>1, <1>2, FS_Subset
<1> QED BY <1>3, FS_CardinalityType

LEMMA FirstSetFacts ==
  ASSUME tool \in LR1Tools, first = FirstOf[tool]
  PROVE  /\ InitLR1_Item(1, Eof) \in Items
         /\ Start \in SUBSET Items /\ InitLR1_Item(1, Eof) \in Start
         /\ \A i \in Start : i.dot = 0 /\ (i # InitLR1_Item(1, Eof) =>
                                             HeadOf(tool, i.rule) \in NextSymbols(Start))
<1> DEFINE o == InitLR1_Item(1, Eof)
<1>1. o = [rule |-> 1, dot |-> 0, ahead |-> Eof]  BY DEF InitLR1_Item, Item
<1>2. tool \in DOMAIN Tools  BY LRToolsAssumption
<1>3. 1 \in Places(tool) /\ Eof \in G.terminals /\ Len(Body(tool, 1)) \in Nat
  BY <1>2, RuleFacts, SymbolFacts DEF G
<1>4. Derived(o) = Body(tool, 1)  BY <1>1 DEF Derived, Body, G
<1>5. o \in Items
  <2>1. o \in [rule : Places(tool), dot : Nat, ahead : G.terminals] /\ o.dot = 0  BY <1>1, <1>3
  <2>2. o.dot <= Len(Derived(o))  BY <1>3, <1>4, <2>1
  <2> HIDE DEF o
  <2> QED BY <2>1, <2>2 DEF Items
<1>6. o.dot = 0  BY <1>1
<1> HIDE DEF o
<1>7. {o} \in SUBSET Items  BY <1>5
<1>8. Start = Closure({o})  BY DEF Start, o
<1>9. /\ {o} \subseteq Start /\ Start \subseteq {o} \cup Opening
      /\ \A i \in Start \ {o} : HeadOf(tool, i.rule) \in NextSymbols(Start)
  BY <1>7, <1>8, ClosureFacts
<1>10. \A i \in Start : i \in Items /\ i.dot = 0  BY <1>5, <1>6, <1>9 DEF Opening
<1> QED BY <1>5, <1>9, <1>10 DEF o

LEMMA TablesFirst == ASSUME Init PROVE TablesInv
BY DEF Init, SetsInit, LRInit, TablesInv, EarlyPasses

LEMMA StartCollectionStep ==
  ASSUME AnalysisInv, TablesInv, StartCollection
  PROVE  TablesInv'
<1>1. /\ pass = "analyzed" /\ tool \in LR1Tools /\ pass' = "collect"
      /\ set_id' = [S \in {Start} |-> 0]
      /\ tool' = tool /\ first' = first /\ marked' = marked /\ goto_table' = goto_table
      /\ action_table' = action_table
  BY DEF StartCollection, Start
<1>2. first = FirstOf[tool]  BY <1>1 DEF AnalysisInv, FirstInv
<1>3. marked = {} /\ goto_table = <<>> /\ action_table = <<>>
  BY <1>1 DEF TablesInv, EarlyPasses
<1>4. DOMAIN goto_table = {} /\ DOMAIN action_table = {}
  <2>1. DOMAIN <<>> = {}  OBVIOUS
  <2> QED BY <1>3, <2>1
<1>5. Start' = Start /\ Items' = Items  BY <1>1, SameGrammar DEF Start, InitLR1_Item, Item
<1>6. DOMAIN set_id' = {Start} /\ set_id'[Start] = 0  BY <1>1
<1>7. Start \in SUBSET Items  BY <1>1, <1>2, FirstSetFacts
<1>8. Cardinality({Start}) = 1  BY FS_Singleton
<1>9. NumbersInv'
  BY <1>5, <1>6, <1>7, <1>8 DEF NumbersInv
<1>10. SuccessorsInv'
  BY <1>1, <1>3, <1>4, <1>5, <1>6 DEF SuccessorsInv
<1>11. RowsInv'
  <2>1. 0 \in Nat /\ 0..0 - 1 = {}  OBVIOUS
  <2>2. DOMAIN action_table' = {}  BY <1>1, <1>4
  <2>3. pass' \notin BuiltPasses  BY <1>1 DEF BuiltPasses
  <2>4. \E k \in Nat : (DOMAIN action_table = 0..k - 1)'  BY <2>1, <2>2
  <2> QED BY <2>2, <2>3, <2>4 DEF RowsInv
<1>12. pass' \notin EarlyPasses  BY <1>1 DEF EarlyPasses
<1> QED BY <1>1, <1>9, <1>10, <1>11, <1>12 DEF TablesInv

LEMMA CollectStep ==
  ASSUME AnalysisInv, TablesInv, Collect
  PROVE  TablesInv'
<1>1. /\ pass = "collect" /\ DOMAIN set_id # marked
      /\ tool' = tool /\ first' = first
  BY DEF Collect
<1>2. /\ first = FirstOf[tool] /\ tool \in LR1Tools /\ NumbersInv /\ SuccessorsInv /\ RowsInv
  BY <1>1 DEF AnalysisInv, FirstInv, TablesInv, EarlyPasses
<1> DEFINE set == NextSet
           ids == Newcomers(set)
           met == {Goto(set, s) : s \in DOMAIN ids}
           D == DOMAIN set_id
<1>3. CASE Empty \in DOMAIN ids
  <2>1. pass' = "aborted" /\ UNCHANGED lrVars  BY <1>3 DEF Collect
  <2>2. /\ set_id' = set_id /\ marked' = marked /\ goto_table' = goto_table
        /\ action_table' = action_table
    BY <2>1 DEF lrVars
  <2>3. Start' = Start /\ Items' = Items /\ (\A S, s : (Goto(S, s))' = Goto(S, s))
        /\ \A S : (NextSymbols(S))' = NextSymbols(S)
    BY <1>1, SameGrammar DEF Start, InitLR1_Item, Item
  <2>4. NumbersInv'  BY <1>2, <2>2, <2>3 DEF NumbersInv
  <2>5. SuccessorsInv'  BY <1>2, <2>2, <2>3 DEF SuccessorsInv
  <2>6. RowsInv'
    <3>1. \A S : (ActionRow(S, set_id))' = ActionRow(S, set_id)  BY <1>1, <2>2, SameRows
    <3> QED BY <1>2, <2>1, <2>2, <3>1 DEF RowsInv, BuiltPasses
  <2> QED BY <1>1, <1>2, <2>1, <2>4, <2>5, <2>6 DEF TablesInv, EarlyPasses
<1>4. CASE Empty \notin DOMAIN ids
  <2>1. /\ set_id' = Over([S \in met |-> ids[CHOOSE s \in DOMAIN ids : Goto(set, s) = S]], set_id)
        /\ marked' = marked \cup {set} /\ pass' = pass /\ action_table' = action_table
        /\ goto_table' = Over(Entries(set, DOMAIN ids \ G.terminals, ids), goto_table)
    BY <1>4 DEF Collect
  <2>2. IsFiniteSet(D) /\ Cardinality(D) \in Nat  BY <1>2, FiniteCollection
  <2>3. set \in D \ marked
    <3> DEFINE unmarked == D \ marked
               behind == {S \in unmarked : at # {} /\ Precedes(at, S)}
               C == IF behind # {} THEN behind ELSE unmarked
    <3>1. unmarked # {}  BY <1>1, <1>2 DEF SuccessorsInv
    <3>2. C \in SUBSET unmarked /\ C # {}  BY <3>1
    <3>3. set = Least(C)  BY DEF NextSet
    <3> HIDE DEF C, behind
    <3>4. C \in SUBSET D  BY <3>2
    <3>5. IsFiniteSet(C)  BY <2>2, <3>4, FS_Subset
    <3>6. \A S \in C : S \in SUBSET Items /\ IsFiniteSet(S)
      <4>1. \A S \in C : S \in SUBSET Items  BY <1>2, <3>4 DEF NumbersInv
      <4> QED BY <1>2, <4>1, ItemsAreFinite, FS_Subset
    <3>7. Least(C) \in C  BY <1>2, <3>2, <3>5, <3>6, LeastSet
    <3> QED BY <3>2, <3>3, <3>7
  <2>4. set \in SUBSET Items  BY <1>2, <2>3 DEF NumbersInv
  <2> HIDE DEF set
  <2> DEFINE old == Cardinality(D)
             more == Cardinality(DOMAIN ids)
  <2>5. /\ DOMAIN ids = {s \in NextSymbols(set) : Goto(set, s) \notin D}
        /\ IsFiniteSet(DOMAIN ids)
        /\ \A s \in DOMAIN ids : ids[s] \in Nat /\ ids[s] >= old /\ ids[s] < old + more
        /\ \A s, u \in DOMAIN ids : ids[s] = ids[u] => s = u
    BY <1>2, <2>2, <2>4, NewcomersFacts
  <2> HIDE DEF ids
  <2>6. \A s, u \in DOMAIN ids : Goto(set, s) = Goto(set, u) => s = u
    BY <1>2, <2>4, <2>5, GotosDiffer
  <2>7. /\ \A S \in met : S \notin D
        /\ \A s \in DOMAIN ids : Goto(set, s) \in met
        /\ \A S \in met : \E s \in DOMAIN ids : S = Goto(set, s)
    BY <2>5
  <2> DEFINE chosen == [S \in met |-> ids[CHOOSE s \in DOMAIN ids : Goto(set, s) = S]]
  <2>18. /\ DOMAIN chosen = met
         /\ \A S \in met : chosen[S] = ids[CHOOSE s \in DOMAIN ids : Goto(set, s) = S]
    <3> HIDE DEF met
    <3> QED OBVIOUS
  <2>19. set_id' = Over(chosen, set_id)  BY <2>1
  <2> HIDE DEF chosen, met
  <2>20. /\ DOMAIN set_id' = D \cup met
         /\ \A S \in D \cup met : set_id'[S] = IF S \in met THEN chosen[S] ELSE set_id[S]
    <3> HIDE DEF D
    <3>1. /\ DOMAIN set_id' = met \cup D
          /\ \A S \in met \cup D : set_id'[S] = IF S \in met THEN chosen[S] ELSE set_id[S]
      BY <2>18, <2>19 DEF Over, D
    <3> QED BY <3>1
  <2>8. DOMAIN set_id' = D \cup met  BY <2>20
  <2>9. \A S \in D : set_id'[S] = set_id[S]
    <3> TAKE S \in D
    <3>1. S \notin met  BY <2>7
    <3> QED BY <2>20, <3>1
  <2>10. \A s \in DOMAIN ids : set_id'[Goto(set, s)] = ids[s]
    <3> TAKE s \in DOMAIN ids
    <3> DEFINE u == CHOOSE r \in DOMAIN ids : Goto(set, r) = Goto(set, s)
    <3>1. u \in DOMAIN ids /\ Goto(set, u) = Goto(set, s)  OBVIOUS
    <3>2. u = s  BY <2>6, <3>1
    <3>3. Goto(set, s) \in met  BY <2>7
    <3>4. set_id'[Goto(set, s)] = ids[u]
      <4> HIDE DEF D
      <4>1. chosen[Goto(set, s)] = ids[u]  BY <2>18, <3>3
      <4> QED BY <2>20, <3>3, <4>1
    <3> QED BY <3>2, <3>4
  <2>11. /\ IsFiniteSet(met) /\ Cardinality(met) = more /\ more \in Nat
         /\ Cardinality(D \cup met) = old + more
    <3> DEFINE f == [s \in DOMAIN ids |-> Goto(set, s)]
    <3>1. f \in Surjection(DOMAIN ids, met) /\ f \in Injection(DOMAIN ids, met)
      <4>3. f = [s \in DOMAIN ids |-> f[s]] /\ \A s \in DOMAIN ids : f[s] = Goto(set, s)  OBVIOUS
      <4> HIDE DEF f
      <4>1. f \in [DOMAIN ids -> met] /\ \A y \in met : \E x \in DOMAIN ids : f[x] = y
        BY <2>7, <4>3
      <4>2. \A x, y \in DOMAIN ids : f[x] = f[y] => x = y  BY <2>6, <4>3
      <4> QED BY <4>1, <4>2, <4>3 DEF Surjection, Injection, IsInjective
    <3> HIDE DEF f, met
    <3>2. IsFiniteSet(met) /\ Cardinality(met) = more  BY <2>5, <3>1, FS_Surjection
    <3>3. D \cap met = {}  BY <2>7
    <3>4. Cardinality(D \cup met) = old + more - Cardinality(D \cap met)
      BY <2>2, <3>2, FS_Union
    <3>5. Cardinality(D \cap met) = 0  BY <3>3, FS_EmptySet
    <3>6. more \in Nat  BY <2>5, FS_CardinalityType
    <3> HIDE DEF more, old
    <3>7. old \in Nat  BY <2>2 DEF old
    <3> QED BY <3>2, <3>4, <3>5, <3>6, <3>7
  <2> HIDE DEF old, more, D
  <2>12. Start' = Start /\ Items' = Items /\ (\A S, s : (Goto(S, s))' = Goto(S, s))
         /\ \A S : (NextSymbols(S))' = NextSymbols(S)
    BY <1>1, SameGrammar DEF Start, InitLR1_Item, Item
  <2>13. /\ old \in Nat
         /\ \A S \in D : /\ S \in SUBSET Items /\ set_id[S] \in Nat /\ set_id[S] < old
                         /\ S = Start \/ \E T \in D : \E s : S = Goto(T, s)
                         /\ \A T \in D : set_id[S] = set_id[T] => S = T
    BY <1>2, <2>2 DEF NumbersInv, D, old
  <2>14. ASSUME NEW S \in D \cup met
         PROVE  /\ S \in SUBSET Items /\ set_id'[S] \in Nat /\ set_id'[S] < old + more
                /\ S = Start \/ \E T \in D \cup met : \E s : S = Goto(T, s)
                /\ \A T \in D \cup met : set_id'[S] = set_id'[T] => S = T
    <3>1. CASE S \in D
      <4>1. set_id'[S] = set_id[S] /\ set_id[S] \in Nat /\ set_id[S] < old  BY <2>9, <2>13, <3>1
      <4>2. set_id[S] < old + more  BY <2>11, <2>13, <4>1
      <4>3. ASSUME NEW T \in met PROVE set_id'[T] >= old /\ set_id'[T] \in Nat
        BY <2>5, <2>7, <2>10
      <4>4. ASSUME NEW T \in D \cup met, set_id'[S] = set_id'[T] PROVE S = T
        <5>1. CASE T \in D  BY <2>9, <2>13, <3>1, <4>4, <5>1
        <5>2. CASE T \in met  BY <2>13, <4>1, <4>3, <4>4, <5>2
        <5> QED BY <5>1, <5>2
      <4> QED BY <2>13, <3>1, <4>1, <4>2, <4>4
    <3>2. CASE S \in met
      <4>1. PICK s \in DOMAIN ids : S = Goto(set, s)  BY <2>7, <3>2
      <4>2. set_id'[S] = ids[s] /\ ids[s] \in Nat /\ ids[s] >= old /\ ids[s] < old + more
        BY <2>5, <2>10, <4>1
      <4>3. S \in SUBSET Items  BY <1>2, <2>4, <4>1, GotoFacts
      <4>4. ASSUME NEW T \in D \cup met, set_id'[S] = set_id'[T] PROVE S = T
        <5>1. CASE T \in D
          <6>1. set_id'[T] = set_id[T] /\ set_id[T] \in Nat /\ set_id[T] < old
            BY <2>9, <2>13, <5>1
          <6> QED BY <2>13, <4>2, <4>4, <6>1
        <5>2. CASE T \in met
          <6>1. PICK u \in DOMAIN ids : T = Goto(set, u)  BY <2>7, <5>2
          <6>2. ids[s] = ids[u]  BY <2>10, <4>2, <4>4, <6>1
          <6> QED BY <2>5, <4>1, <6>1, <6>2
        <5> QED BY <5>1, <5>2
      <4>5. set \in D  BY <2>3 DEF D
      <4> QED BY <4>1, <4>2, <4>3, <4>4, <4>5
    <3> QED BY <3>1, <3>2
  <2>15. NumbersInv'
    BY <2>8, <2>11, <2>12, <2>14 DEF NumbersInv
  <2>16. SuccessorsInv'
    <3>1. Start \in D /\ set_id[Start] = 0  BY <1>2 DEF SuccessorsInv, D
    <3>2. set_id'[Start] = 0  BY <2>9, <3>1
    <3>3. marked \subseteq D /\ set \in D  BY <1>2, <2>3 DEF SuccessorsInv, D
    <3>4. ASSUME NEW S \in marked \cup {set}, NEW s \in NextSymbols(S)
          PROVE  Goto(S, s) \in D \cup met
      <4>1. CASE S \in marked  BY <1>2, <4>1 DEF SuccessorsInv, D
      <4>2. CASE S = set
        <5>1. CASE Goto(set, s) \in D  BY <4>2, <5>1
        <5>2. CASE Goto(set, s) \notin D
          <6>1. s \in DOMAIN ids  BY <2>5, <4>2, <5>2
          <6> QED BY <2>7, <4>2, <6>1
        <5> QED BY <5>1, <5>2
      <4> QED BY <4>1, <4>2
    <3>5. ASSUME NEW e \in DOMAIN goto_table'
          PROVE  \E S \in D \cup met : \E s :
                   /\ e = <<set_id'[S], s>> /\ Goto(S, s) \in D \cup met
                   /\ goto_table'[e] = set_id'[Goto(S, s)]
      <4> DEFINE new == Entries(set, DOMAIN ids \ G.terminals, ids)
      <4>1. /\ DOMAIN new = {set_id[set]} \X (DOMAIN ids \ G.terminals)
            /\ \A x \in DOMAIN new : new[x] = ids[x[2]]
        BY DEF Entries
      <4> HIDE DEF new
      <4>2. DOMAIN goto_table' = DOMAIN new \cup DOMAIN goto_table
            /\ goto_table'[e] = IF e \in DOMAIN new THEN new[e] ELSE goto_table[e]
        BY <2>1 DEF new, Over
      <4>3. CASE e \in DOMAIN new
        <5>1. PICK s \in DOMAIN ids : e = <<set_id[set], s>>  BY <4>1, <4>3
        <5>2. new[e] = ids[s]  BY <4>1, <4>3, <5>1
        <5>3. Goto(set, s) \in met /\ set_id'[Goto(set, s)] = ids[s] /\ set_id'[set] = set_id[set]
          BY <2>7, <2>9, <2>10, <3>3
        <5> QED BY <3>3, <4>2, <4>3, <5>1, <5>2, <5>3
      <4>4. CASE e \notin DOMAIN new
        <5>1. e \in DOMAIN goto_table /\ goto_table'[e] = goto_table[e]  BY <4>2, <4>4
        <5>2. PICK S \in D : \E s : /\ e = <<set_id[S], s>> /\ Goto(S, s) \in D
                                    /\ goto_table[e] = set_id[Goto(S, s)]
          BY <1>2, <5>1 DEF SuccessorsInv, D
        <5> QED BY <2>9, <5>1, <5>2
      <4> QED BY <4>3, <4>4
    <3>6. marked' = marked \cup {set}  BY <2>1
    <3> QED BY <2>8, <2>12, <3>1, <3>2, <3>3, <3>4, <3>5, <3>6 DEF SuccessorsInv
  <2>17. RowsInv'
    <3>1. \A n \in DOMAIN action_table : FALSE  BY <1>1, <1>2 DEF RowsInv
    <3>2. pass' \notin BuiltPasses  BY <1>1, <2>1 DEF BuiltPasses
    <3> QED BY <1>2, <2>1, <3>1, <3>2 DEF RowsInv
  <2> QED BY <1>1, <1>2, <2>1, <2>15, <2>16, <2>17 DEF TablesInv, EarlyPasses
<1> QED BY <1>3, <1>4

\* The passes after the collection leave the sets, their numbers and the goto
\* table alone.
LEMMA KeptStep ==
  ASSUME AnalysisInv, TablesInv, pass \notin EarlyPasses, pass' \notin EarlyPasses,
         UNCHANGED <<tool, first, set_id, marked, goto_table>>
  PROVE  /\ tool' \in LR1Tools /\ NumbersInv' /\ SuccessorsInv'
         /\ UNCHANGED action_table /\ (pass' \in BuiltPasses => pass \in BuiltPasses)
              => TablesInv'
<1>1. tool \in LR1Tools /\ NumbersInv /\ SuccessorsInv /\ RowsInv  BY DEF TablesInv
<1>2. Start' = Start /\ Items' = Items /\ (\A S, s : (Goto(S, s))' = Goto(S, s))
      /\ \A S : (NextSymbols(S))' = NextSymbols(S)
  BY SameGrammar DEF Start, InitLR1_Item, Item
<1>3. NumbersInv'  BY <1>1, <1>2 DEF NumbersInv
<1>4. SuccessorsInv'  BY <1>1, <1>2 DEF SuccessorsInv
<1>5. ASSUME UNCHANGED action_table, pass' \in BuiltPasses => pass \in BuiltPasses
      PROVE  TablesInv'
  <2>1. \A S : (ActionRow(S, set_id))' = ActionRow(S, set_id)  BY SameRows
  <2>2. RowsInv'  BY <1>1, <1>5, <2>1 DEF RowsInv
  <2> QED BY <1>1, <1>3, <1>4, <2>2 DEF TablesInv
<1> QED BY <1>1, <1>3, <1>4, <1>5

LEMMA BuildActionTableStep ==
  ASSUME AnalysisInv, TablesInv, BuildActionTable
  PROVE  TablesInv'
<1>1. /\ pass = "collect" /\ DOMAIN set_id = marked
      /\ UNCHANGED <<tool, first, set_id, marked, goto_table>>
      /\ pass' = IF Cardinality(DOMAIN action_table') < Cardinality(DOMAIN set_id) THEN pass
                 ELSE IF tool \in LALRTools THEN "merge" ELSE "built"
  BY DEF BuildActionTable
<1>2. pass \notin EarlyPasses /\ pass' \notin EarlyPasses  BY <1>1 DEF EarlyPasses
<1>3. tool' \in LR1Tools /\ NumbersInv' /\ SuccessorsInv'  BY <1>1, <1>2, KeptStep
<1>4. NumbersInv /\ RowsInv /\ tool \in LR1Tools  BY <1>2 DEF TablesInv
<1>5. PICK set \in DOMAIN set_id :
         /\ set_id[set] = Cardinality(DOMAIN action_table)
         /\ action_table' = Over([n \in {set_id[set]} |-> ActionRow(set, set_id)], action_table)
  BY DEF BuildActionTable
<1>6. PICK k \in Nat : DOMAIN action_table = 0..k - 1  BY <1>4 DEF RowsInv
<1>7. Cardinality(0..k - 1) = k
  <2> DEFINE m == k - 1
  <2>1. m \in Int /\ 0 \in Int /\ m - 0 + 1 = k /\ (0 > m => k = 0)  BY <1>6
  <2> HIDE DEF m
  <2>2. Cardinality(0..m) = IF 0 > m THEN 0 ELSE m - 0 + 1  BY <2>1, FS_Interval
  <2>3. Cardinality(0..m) = k  BY <2>1, <2>2
  <2> QED BY <2>3 DEF m
<1>8. set_id[set] = k  BY <1>5, <1>6, <1>7
<1>9. /\ DOMAIN action_table' = 0..k /\ action_table'[k] = ActionRow(set, set_id)
      /\ \A n \in DOMAIN action_table : action_table'[n] = action_table[n]
  <2> DEFINE row == ActionRow(set, set_id)
             new == [n \in {k} |-> row]
  <2>1. DOMAIN new = {k} /\ new[k] = row  OBVIOUS
  <2>2. action_table' = Over(new, action_table)  BY <1>5, <1>8
  <2> HIDE DEF new, row
  <2>3. /\ DOMAIN action_table' = {k} \cup DOMAIN action_table
        /\ \A n \in {k} \cup DOMAIN action_table :
             action_table'[n] = IF n \in {k} THEN new[n] ELSE action_table[n]
    BY <2>1, <2>2 DEF Over
  <2>4. k \notin DOMAIN action_table /\ {k} \cup (0..k - 1) = 0..k  BY <1>6
  <2> QED BY <1>6, <2>1, <2>3, <2>4 DEF row
<1>10. RowsInv'
  <2>1. k + 1 \in Nat /\ k + 1 - 1 = k  OBVIOUS
  <2>2. \E m \in Nat : (DOMAIN action_table)' = 0..m - 1
    <3> DEFINE m == k + 1
    <3>1. m \in Nat /\ m - 1 = k  BY <2>1
    <3> HIDE DEF m
    <3> QED BY <1>9, <3>1
  <2>3. \A S : (ActionRow(S, set_id))' = ActionRow(S, set_id)  BY <1>1, SameRows
  <2>4. ASSUME NEW n \in DOMAIN action_table'
        PROVE  \E S \in DOMAIN set_id' : set_id'[S] = n /\ action_table'[n] = (ActionRow(S, set_id))'
    <3>1. CASE n = k  BY <1>1, <1>5, <1>8, <1>9, <2>3, <3>1
    <3>2. CASE n # k
      <4>1. n \in DOMAIN action_table  BY <1>6, <1>9, <3>2
      <4> QED BY <1>1, <1>4, <1>9, <2>3, <4>1 DEF RowsInv
    <3> QED BY <3>1, <3>2
  <2>5. ASSUME pass' \in BuiltPasses, NEW S \in DOMAIN set_id'
        PROVE  set_id'[S] \in DOMAIN action_table'
    <3> DEFINE c == Cardinality(DOMAIN set_id)
    <3>1. ~ (Cardinality(DOMAIN action_table') < c)  BY <1>1, <2>5 DEF BuiltPasses
    <3>2. Cardinality(0..k) = k + 1
      <4>1. k \in Int /\ 0 \in Int /\ ~ (0 > k) /\ k - 0 + 1 = k + 1  OBVIOUS
      <4>2. Cardinality(0..k) = IF 0 > k THEN 0 ELSE k - 0 + 1  BY <4>1, FS_Interval
      <4> QED BY <4>1, <4>2
    <3>3. c \in Nat  BY <1>4, FiniteCollection
    <3>4. set_id[S] \in Nat /\ set_id[S] < c  BY <1>1, <1>4 DEF NumbersInv
    <3> HIDE DEF c
    <3>5. ~ (k + 1 < c)  BY <1>9, <3>1, <3>2
    <3>6. set_id[S] \in 0..k  BY <3>3, <3>4, <3>5
    <3> QED BY <1>1, <1>9, <3>6
  <2> QED BY <1>1, <2>2, <2>4, <2>5 DEF RowsInv
<1> QED BY <1>2, <1>3, <1>10 DEF TablesInv

LEMMA TablesNext == ASSUME AnalysisInv, TablesInv, [Next]_allVars PROVE TablesInv'
<1>1. CASE Analyze /\ UNCHANGED <<lrVars, parserVars>>
  <2>1. pass \in EarlyPasses /\ UNCHANGED lrVars /\ pass' \in EarlyPasses
    <3>1. pass \in {"first", "follow", "first_plus", "back_track"}
      BY <1>1 DEF Analyze, ComputeFirstSets, ComputeFollowSets, ComputeFirstPlusSets, ComputeBackTrackFree
    <3>2. CASE ComputeFirstSets  BY <1>1, <3>2 DEF ComputeFirstSets, NextRule, EarlyPasses
    <3>3. CASE ComputeFollowSets  BY <1>1, <3>3 DEF ComputeFollowSets, NextRule, EarlyPasses
    <3>4. CASE ComputeFirstPlusSets  BY <1>1, <3>4 DEF ComputeFirstPlusSets, NextRule, EarlyPasses
    <3>5. CASE ComputeBackTrackFree  BY <1>1, <3>5 DEF ComputeBackTrackFree, EarlyPasses
    <3> QED BY <1>1, <3>2, <3>3, <3>4, <3>5 DEF Analyze
  <2> QED BY <2>1 DEF TablesInv, lrVars
<1>2. CASE StartCollection  BY <1>2, StartCollectionStep
<1>3. CASE Collect  BY <1>3, CollectStep
<1>4. CASE BuildActionTable  BY <1>4, BuildActionTableStep
<1>5. CASE MergeSets \/ BuildMergedActionTable
  <2>1. /\ pass \in {"merge", "lalr_actions"} /\ pass' \in {"merge", "lalr_actions", "built"}
        /\ UNCHANGED <<tool, first, set_id, marked, goto_table, action_table>>
    BY <1>5 DEF MergeSets, BuildMergedActionTable
  <2> QED BY <2>1, KeptStep DEF EarlyPasses, BuiltPasses
<1>6. CASE Parse
  <2>1. UNCHANGED <<tool, first, set_id, marked, goto_table, action_table>>
    BY <1>6 DEF Parse, StartParsing, UnknownToken, Shift, Reduce, Accept, ParseError, tablesDone, lrVars
  <2>2. pass \in {"built", "parse"} /\ pass' \in {"parse", "aborted", "accepted", "rejected"}
    BY <1>6 DEF Parse, StartParsing, UnknownToken, Shift, Reduce, Accept, ParseError
  <2> QED BY <2>1, <2>2, KeptStep DEF EarlyPasses, BuiltPasses
<1>7. CASE UNCHANGED allVars
  <2>1. UNCHANGED <<tool, first, set_id, marked, goto_table, action_table, pass>>
    BY <1>7 DEF allVars, setVars, lrVars
  <2>2. CASE pass \in EarlyPasses  BY <2>1, <2>2 DEF TablesInv
  <2>3. CASE pass \notin EarlyPasses  BY <2>1, <2>3, KeptStep
  <2> QED BY <2>2, <2>3
<1> QED BY <1>1, <1>2, <1>3, <1>4, <1>5, <1>6, <1>7 DEF Next, BuildTables

-----------------------------------------------------------------------------
(* The stack. *)

LEMMA RowFacts ==
  ASSUME tool \in LR1Tools, NEW S \in SUBSET Items, NEW s \in G.terminals \ {Empty}
  PROVE  \/ ActionRow(S, set_id)[s] = <<"none", 0>>
         \/ \E i \in S : Claims(i, s) /\ ActionRow(S, set_id)[s] = ActionOf(i, S, set_id)
<1> DEFINE T == {i \in S : Claims(i, s)}
           last == CHOOSE i \in T : \A j \in T \ {i} : Before(j, i)
<1>1. ActionRow(S, set_id)[s] = IF T = {} THEN <<"none", 0>> ELSE ActionOf(last, S, set_id)
  BY DEF ActionRow
<1>2. CASE T = {}  BY <1>1, <1>2
<1>3. CASE T # {}
  <2>1. IsFiniteSet(T) /\ T \subseteq Items
    <3>1. IsFiniteSet(Items) /\ T \in SUBSET Items  BY ItemsAreFinite
    <3> HIDE DEF T
    <3> QED BY <3>1, FS_Subset
  <2>2. \E m \in T : \A x \in T \ {m} : Before(x, m)
    <3> HIDE DEF T
    <3> QED BY <1>3, <2>1, FirstAndLastItem
  <2>3. last \in T
    <3> HIDE DEF T
    <3> QED BY <2>2
  <2> HIDE DEF last
  <2>4. last \in S /\ Claims(last, s)  BY <2>3
  <2> QED BY <1>1, <1>3, <2>4
<1> QED BY <1>2, <1>3

\* What an entry of a row of the whole collection tells.
LEMMA ActionFacts ==
  ASSUME tool \in LR1Tools, first = FirstOf[tool], NumbersInv, SuccessorsInv, DOMAIN set_id = marked,
         NEW S \in DOMAIN set_id, NEW s \in G.terminals \ {Empty},
         NEW a, a = ActionRow(S, set_id)[s]
  PROVE  /\ a[1] = "shift" => /\ s \in NextSymbols(S)
                              /\ Goto(S, s) \in DOMAIN set_id /\ a[2] = set_id[Goto(S, s)]
         /\ a[1] = "reduce" => \E i \in S : /\ a[2] = i.rule /\ i.dot = Len(Derived(i))
                                            /\ ~ (i.rule = 1 /\ i.ahead = Eof)
         /\ a[1] = "accept" => \E i \in S : /\ i.rule = 1 /\ i.dot = Len(Derived(i))
                                            /\ i.ahead = Eof /\ s = Eof
<1>1. S \in SUBSET Items  BY DEF NumbersInv
<1>2. CASE a = <<"none", 0>>  BY <1>2
<1>3. CASE a # <<"none", 0>>
  <2>1. PICK i \in S : Claims(i, s) /\ a = ActionOf(i, S, set_id)  BY <1>1, <1>3, RowFacts
  <2>2. i.dot \in Nat /\ i.dot <= Len(Derived(i)) /\ Len(Derived(i)) \in Nat
    <3>1. i \in Items  BY <1>1
    <3>2. i.dot \in Nat /\ i.dot <= Len(Derived(i)) /\ Derived(i) \in Seq(SymbolsOf[tool])
      BY <3>1, ItemFacts
    <3> QED BY <3>2
  <2>3. CASE HasSymbolAfterStackTop(i)
    <3>1. LeadsBy(i, s)  BY <2>1, <2>3 DEF Claims, LeadsBy
    <3>2. s \in NextSymbols(S)  BY <1>1, <3>1, NextFacts
    <3>3. Goto(S, s) \in DOMAIN set_id  BY <3>2 DEF SuccessorsInv
    <3>4. a = <<"shift", set_id[Goto(S, s)]>>
      BY <2>1, <2>3, <3>1, <3>3 DEF ActionOf, NumberIn, LeadsBy
    <3> QED BY <3>2, <3>3, <3>4
  <2>4. CASE ~ HasSymbolAfterStackTop(i)
    <3>1. i.dot = Len(Derived(i))  BY <2>2, <2>4 DEF HasSymbolAfterStackTop
    <3>2. i.ahead = s  BY <2>1, <2>4 DEF Claims
    <3>3. CASE i.rule = 1 /\ i.ahead = Eof
      <4>1. a = <<"accept", 0>>  BY <2>1, <2>4, <3>3 DEF ActionOf, IsInitialRule
      <4> QED BY <3>1, <3>2, <3>3, <4>1
    <3>4. CASE ~ (i.rule = 1 /\ i.ahead = Eof)
      <4>1. a = <<"reduce", i.rule>>  BY <2>1, <2>4, <3>4 DEF ActionOf, IsInitialRule
      <4> QED BY <3>1, <3>4, <4>1
    <3> QED BY <3>3, <3>4
  <2> QED BY <2>3, <2>4
<1> QED BY <1>2, <1>3

\* A set stands at a place of a stack: below the place are, for each of its
\* items, the symbols before the dot.
StandsIn(c, p, S) ==
  /\ set_id[S] = c[p][2]
  /\ \A i \in S : /\ i.dot < p
                  /\ \A d \in 1..i.dot : c[p - i.dot + d][1] = Derived(i)[d]

\* A set is rooted: the items have begun where they say, and those of the
\* starting rule at the bottom.
RootedIn(c, p, S) ==
  \A i \in S :
    /\ i.rule = 1 => i.dot = p - 1 /\ i.ahead = Eof
    /\ \E T \in DOMAIN set_id : set_id[T] = c[p - i.dot][2] /\ Item(i.rule, 0, i.ahead) \in T

LEMMA StandsBelow ==
  ASSUME tool \in LR1Tools, NumbersInv, NEW S \in DOMAIN set_id, NEW p \in Nat, p >= 1,
         NEW c, NEW b, \A k \in 1..p : b[k] = c[k], StandsIn(c, p, S)
  PROVE  StandsIn(b, p, S) /\ (RootedIn(c, p, S) => RootedIn(b, p, S))
<1>1. \A i \in S : i.dot \in Nat
  <2>1. S \in SUBSET Items  BY DEF NumbersInv
  <2> QED BY <2>1, ItemFacts
<1>2. b[p] = c[p]  OBVIOUS
<1>3. \A i \in S : i.dot < p /\ \A d \in 1..i.dot : c[p - i.dot + d][1] = Derived(i)[d]
  BY DEF StandsIn
<1>4. ASSUME NEW i \in S, NEW d \in 1..i.dot PROVE b[p - i.dot + d][1] = Derived(i)[d]
  <2>1. p - i.dot + d \in 1..p  BY <1>1, <1>3
  <2> QED BY <1>3, <2>1
<1>5. ASSUME NEW i \in S PROVE b[p - i.dot] = c[p - i.dot]
  <2>1. p - i.dot \in 1..p  BY <1>1, <1>3
  <2> QED BY <2>1
<1>6. StandsIn(b, p, S)  BY <1>2, <1>3, <1>4 DEF StandsIn
<1> QED BY <1>5, <1>6 DEF StandsIn, RootedIn

\* The successor of the set at the top stands on the pushed symbol.
LEMMA Pushed ==
  ASSUME tool \in LR1Tools, first = FirstOf[tool], NumbersInv,
         NEW S \in DOMAIN set_id, NEW s, Goto(S, s) \in DOMAIN set_id,
         NEW p \in Nat, p >= 1, NEW c, StandsIn(c, p, S),
         NEW b, NEW q, \A k \in 1..p : b[k] = c[k], q = p + 1, b[q] = <<s, set_id[Goto(S, s)]>>
  PROVE  /\ StandsIn(b, q, Goto(S, s))
         /\ StartAndEndAreOutside /\ RootedIn(c, p, S) => RootedIn(b, q, Goto(S, s))
<1>1. S \in SUBSET Items /\ Goto(S, s) \in SUBSET Items  BY DEF NumbersInv
<1>2. \A i \in S : i.dot < p /\ \A d \in 1..i.dot : c[p - i.dot + d][1] = Derived(i)[d]
  BY DEF StandsIn
<1>3. b[q][1] = s /\ b[q][2] = set_id[Goto(S, s)]  OBVIOUS
<1>4. ASSUME NEW j \in Goto(S, s)
      PROVE  \/ \E i \in S : /\ i.dot \in Nat /\ j.dot = i.dot + 1 /\ Derived(j) = Derived(i)
                             /\ j.rule = i.rule /\ j.ahead = i.ahead /\ Derived(j)[j.dot] = s
             \/ j.dot = 0 /\ HeadOf(tool, j.rule) \in NextSymbols(Goto(S, s))
  <2>1. CASE \E i \in S : LeadsBy(i, s) /\ j = SwapSymbolAfterStackTop(i)
    <3>1. PICK i \in S : LeadsBy(i, s) /\ j = SwapSymbolAfterStackTop(i)  BY <2>1
    <3>2. i \in Items /\ i.dot \in Nat  BY <1>1, ItemFacts
    <3> QED BY <3>1, <3>2, SwapFacts
  <2> QED BY <1>1, <2>1, GotoFacts
<1>5. ASSUME NEW j \in Goto(S, s)
      PROVE  j.dot < q /\ \A d \in 1..j.dot : b[q - j.dot + d][1] = Derived(j)[d]
  <2>1. CASE j.dot = 0  BY <2>1
  <2>2. CASE j.dot # 0
    <3>1. PICK i \in S : /\ i.dot \in Nat /\ j.dot = i.dot + 1 /\ Derived(j) = Derived(i)
                         /\ Derived(j)[j.dot] = s
      BY <1>4, <2>2
    <3>2. i.dot < p  BY <1>2
    <3>3. ASSUME NEW d \in 1..j.dot PROVE b[q - j.dot + d][1] = Derived(j)[d]
      <4>1. CASE d = j.dot
        <5>1. q - j.dot + d = q  BY <3>1, <4>1
        <5> QED BY <1>3, <3>1, <4>1, <5>1
      <4>2. CASE d # j.dot
        <5>1. d \in 1..i.dot /\ q - j.dot + d = p - i.dot + d /\ p - i.dot + d \in 1..p
          BY <3>1, <3>2, <4>2
        <5> DEFINE k == p - i.dot + d
        <5>2. b[k] = c[k] /\ c[k][1] = Derived(i)[d]  BY <1>2, <5>1
        <5>3. q - j.dot + d = k  BY <5>1
        <5> HIDE DEF k
        <5> QED BY <3>1, <5>2, <5>3
      <4> QED BY <4>1, <4>2
    <3> QED BY <3>1, <3>2, <3>3
  <2> QED BY <2>1, <2>2
<1>6. StandsIn(b, q, Goto(S, s))
  <2>1. b[q][2] = set_id[Goto(S, s)]  BY <1>3
  <2>2. \A j \in Goto(S, s) : j.dot < q /\ \A d \in 1..j.dot : b[q - j.dot + d][1] = Derived(j)[d]
    BY <1>5
  <2>3. StandsIn(b, q, Goto(S, s))  BY <2>1, <2>2 DEF StandsIn
  <2> QED BY <2>3
<1>7. ASSUME StartAndEndAreOutside, RootedIn(c, p, S) PROVE RootedIn(b, q, Goto(S, s))
  <2>1. ASSUME NEW j \in Goto(S, s)
        PROVE  /\ j.rule = 1 => j.dot = q - 1 /\ j.ahead = Eof
               /\ \E T \in DOMAIN set_id : set_id[T] = b[q - j.dot][2] /\ Item(j.rule, 0, j.ahead) \in T
    <3>1. CASE j.dot = 0
      <4>1. HeadOf(tool, j.rule) \in NextSymbols(Goto(S, s))  BY <1>4, <3>1
      <4>2. j.rule # 1
        <5>1. PICK x \in Goto(S, s) : LeadsBy(x, HeadOf(tool, j.rule))  BY <1>1, <4>1, NextFacts
        <5>2. x.dot + 1 \in 1..Len(Derived(x)) /\ Derived(x)[x.dot + 1] = HeadOf(tool, j.rule)
          BY <1>1, <5>1, NextFacts
        <5>3. x \in Items  BY <1>1
        <5>4. x.rule \in DOMAIN G.rules /\ Derived(x) = G.rules[x.rule].derived
              /\ Derived(x) \in Seq(SymbolsOf[tool])
          BY <5>3, ItemFacts DEF Derived, Places, G
        <5>5. HeadOf(tool, j.rule) \in Elements(G.rules[x.rule].derived)
          BY <5>2, <5>4 DEF Elements
        <5>6. HeadOf(tool, 1) \notin Elements(G.rules[x.rule].derived)
          BY <1>7, <5>4 DEF StartAndEndAreOutside, HeadOf, G
        <5> QED BY <5>5, <5>6
      <4>3. j \in Items  BY <1>1
      <4>4. j = Item(j.rule, 0, j.ahead)  BY <3>1, <4>3, ItemFacts DEF Item
      <4>5. q - j.dot = q  BY <3>1
      <4>6. set_id[Goto(S, s)] = b[q - j.dot][2]  BY <1>3, <4>5
      <4> QED BY <4>2, <4>4, <4>6
    <3>2. CASE j.dot # 0
      <4>1. PICK i \in S : /\ i.dot \in Nat /\ j.dot = i.dot + 1 /\ j.rule = i.rule /\ j.ahead = i.ahead
        BY <1>4, <3>2
      <4>2. i.dot < p  BY <1>2
      <4>3. /\ i.rule = 1 => i.dot = p - 1 /\ i.ahead = Eof
            /\ \E T \in DOMAIN set_id : set_id[T] = c[p - i.dot][2] /\ Item(i.rule, 0, i.ahead) \in T
        BY <1>7 DEF RootedIn
      <4> DEFINE k == p - i.dot
      <4>4. q - j.dot = k /\ k \in 1..p  BY <4>1, <4>2
      <4>5. b[k] = c[k]  BY <4>4
      <4>6. \E T \in DOMAIN set_id : set_id[T] = b[q - j.dot][2] /\ Item(j.rule, 0, j.ahead) \in T
        <5>1. \E T \in DOMAIN set_id : set_id[T] = c[k][2] /\ Item(i.rule, 0, i.ahead) \in T  BY <4>3
        <5> HIDE DEF k
        <5> QED BY <4>1, <4>4, <4>5, <5>1
      <4>7. j.rule = 1 => j.dot = q - 1 /\ j.ahead = Eof  BY <4>1, <4>3
      <4> QED BY <4>6, <4>7
    <3> QED BY <3>1, <3>2
  <2>2. \A j \in Goto(S, s) :
          /\ j.rule = 1 => j.dot = q - 1 /\ j.ahead = Eof
          /\ \E T \in DOMAIN set_id : set_id[T] = b[q - j.dot][2] /\ Item(j.rule, 0, j.ahead) \in T
    BY <2>1
  <2>3. RootedIn(b, q, Goto(S, s))  BY <2>2 DEF RootedIn
  <2> QED BY <2>3
<1> QED BY <1>6, <1>7


ParsePasses == {"parse", "accepted", "rejected"}

\* What the grammar and its tables must be for the reductions to be derivations.
Sound == StartAndEndAreOutside /\ GotosAreWritten

Pairs == SymbolsOf[tool] \X Nat

\* A stack holds a symbol and a state at every place, and a set stands there.
Founded(c) ==
  /\ c \in Seq(Pairs) /\ Len(c) >= 1 /\ c[1] = <<Eof, 0>>
  /\ \A p \in 1..Len(c) : c[p][1] # Empty
  /\ \A p \in 1..Len(c) : \E S \in DOMAIN set_id :
       StandsIn(c, p, S) /\ (Sound => RootedIn(c, p, S))

StackInv ==
  /\ pass \notin ParsePasses \cup {"aborted"} => read = 0
  /\ pass \in ParsePasses => input \in Seq(Alphabet) /\ read \in Nat /\ Founded(context)

LEMMA TokenFacts ==
  ASSUME tool \in LR1Tools, input \in Seq(Alphabet), read \in Nat, token # Foreign
  PROVE  /\ token \in G.terminals \ {Empty}
         /\ token # Eof => read < Len(input) /\ token = input[read + 1]
         /\ token = Eof => read >= Len(input)
<1>1. Eof \in G.terminals /\ Eof # Empty /\ Empty \in G.terminals
  BY LRToolsAssumption, SymbolFacts DEF G
<1>2. Len(input) \in Nat /\ \A k \in 1..Len(input) : input[k] \in Alphabet  OBVIOUS
<1>3. CASE read < Len(input)
  <2>1. token = input[read + 1]  BY <1>3 DEF token
  <2>2. read + 1 \in 1..Len(input)  BY <1>2, <1>3
  <2>3. token \in G.terminals \ {Empty, Eof}  BY <1>2, <2>1, <2>2 DEF Alphabet
  <2> QED BY <1>3, <2>1, <2>3
<1>4. CASE ~ (read < Len(input))
  <2>1. token = Eof  BY <1>4 DEF token
  <2> QED BY <1>1, <1>2, <1>4, <2>1
<1> QED BY <1>3, <1>4

\* The set at the top and the row that tells the next action.
LEMMA TopFacts ==
  ASSUME AnalysisInv, TablesInv, StackInv, pass = "parse", token # Foreign
  PROVE  /\ tool \in LR1Tools /\ first = FirstOf[tool]
         /\ NumbersInv /\ SuccessorsInv /\ DOMAIN set_id = marked
         /\ Len(context) \in Nat /\ Len(context) >= 1
         /\ \E S \in DOMAIN set_id :
              /\ StandsIn(context, Len(context), S)
              /\ Sound => RootedIn(context, Len(context), S)
              /\ action = ActionRow(S, set_id)[token]
<1>1. tool \in LR1Tools /\ first = FirstOf[tool] /\ NumbersInv /\ SuccessorsInv /\ RowsInv
  BY DEF AnalysisInv, FirstInv, TablesInv, EarlyPasses
<1>2. Len(context) \in Nat /\ Len(context) >= 1 /\ Len(context) \in 1..Len(context)
  BY DEF StackInv, ParsePasses, Founded
<1>3. PICK S \in DOMAIN set_id : /\ StandsIn(context, Len(context), S)
                                 /\ Sound => RootedIn(context, Len(context), S)
  BY <1>2 DEF StackInv, ParsePasses, Founded
<1>4. set_id[S] = Top(context)[2]  BY <1>3 DEF StandsIn, Top
<1>5. DOMAIN set_id = marked /\ set_id[S] \in DOMAIN action_table  BY <1>1 DEF RowsInv, BuiltPasses
<1>6. PICK T \in DOMAIN set_id : set_id[T] = set_id[S] /\ action_table[set_id[S]] = ActionRow(T, set_id)
  BY <1>1, <1>5 DEF RowsInv
<1>7. T = S  BY <1>1, <1>6 DEF NumbersInv
<1>8. action = ActionRow(S, set_id)[token]  BY <1>4, <1>6, <1>7 DEF action
<1> QED BY <1>1, <1>2, <1>3, <1>5, <1>8

\* A reduction finds the symbols of its rule on the top of the stack.
LEMMA HandleFacts ==
  ASSUME AnalysisInv, TablesInv, StackInv, pass = "parse", token # Foreign, action[1] = "reduce"
  PROVE  /\ action[2] \in Places(tool)
         /\ Len(Body(tool, action[2])) \in Nat /\ Len(context) > Len(Body(tool, action[2]))
         /\ \A k \in 1..Len(Body(tool, action[2])) :
              context[Len(context) - Len(Body(tool, action[2])) + k][1] = Body(tool, action[2])[k]
         /\ Sound => \E a : /\ action[2] # 1
                            /\ \E T \in DOMAIN set_id :
                                 /\ set_id[T] = context[Len(context) - Len(Body(tool, action[2]))][2]
                                 /\ Item(action[2], 0, a) \in T
<1>1. /\ tool \in LR1Tools /\ first = FirstOf[tool]
      /\ NumbersInv /\ SuccessorsInv /\ DOMAIN set_id = marked
  BY TopFacts
<1>2. PICK S \in DOMAIN set_id :
         /\ StandsIn(context, Len(context), S)
         /\ Sound => RootedIn(context, Len(context), S)
         /\ action = ActionRow(S, set_id)[token]
  BY TopFacts
<1>3. token \in G.terminals \ {Empty}  BY <1>1, TokenFacts DEF StackInv, ParsePasses
<1>4. PICK i \in S : /\ action[2] = i.rule /\ i.dot = Len(Derived(i))
                     /\ ~ (i.rule = 1 /\ i.ahead = Eof)
  BY <1>1, <1>2, <1>3, ActionFacts
<1>5. i \in Items  BY <1>1 DEF NumbersInv
<1>6. /\ i.rule \in Places(tool) /\ i.dot \in Nat /\ Derived(i) = Body(tool, i.rule)
  BY <1>1, <1>5, ItemFacts
<1>7. /\ i.dot < Len(context)
      /\ \A k \in 1..i.dot : context[Len(context) - i.dot + k][1] = Derived(i)[k]
  BY <1>2 DEF StandsIn
<1>8. ASSUME Sound
      PROVE  /\ i.rule # 1
             /\ \E T \in DOMAIN set_id :
                  set_id[T] = context[Len(context) - i.dot][2] /\ Item(i.rule, 0, i.ahead) \in T
  BY <1>2, <1>4, <1>8 DEF RootedIn
<1> QED BY <1>4, <1>6, <1>7, <1>8

LEMMA OutsideFacts ==
  ASSUME tool \in LR1Tools, StartAndEndAreOutside, NEW S \in SUBSET Items
  PROVE  HeadOf(tool, 1) \notin NextSymbols(S) /\ Eof \notin NextSymbols(S)
<1>1. ASSUME NEW s \in NextSymbols(S) PROVE s # HeadOf(tool, 1) /\ s # Eof
  <2>1. PICK x \in S : LeadsBy(x, s)  BY NextFacts
  <2>2. x.dot + 1 \in 1..Len(Derived(x)) /\ Derived(x)[x.dot + 1] = s  BY <2>1, NextFacts
  <2>3. x.rule \in DOMAIN G.rules /\ Derived(x) = G.rules[x.rule].derived
        /\ Derived(x) \in Seq(SymbolsOf[tool])
    BY ItemFacts DEF Derived, Places, G
  <2>4. s \in Elements(G.rules[x.rule].derived)  BY <2>2, <2>3 DEF Elements
  <2>5. {G.rules[1].head, Eof} \cap Elements(G.rules[x.rule].derived) = {}
    BY <2>3 DEF StartAndEndAreOutside
  <2> QED BY <2>4, <2>5 DEF HeadOf, G
<1> QED BY <1>1

\* An item that has only begun was added by the closure, but for the first one.
LEMMA OpenedFacts ==
  ASSUME tool \in LR1Tools, first = FirstOf[tool], NumbersInv,
         NEW T \in DOMAIN set_id, NEW r \in Places(tool), r # 1, NEW a, Item(r, 0, a) \in T
  PROVE  HeadOf(tool, r) \in NextSymbols(T) /\ HeadOf(tool, r) \notin G.terminals
<1> DEFINE j == Item(r, 0, a)
<1>1. j.dot = 0 /\ j.rule = r  BY DEF Item
<1>2. HeadOf(tool, r) \notin G.terminals
  BY LRToolsAssumption, RuleFacts, SymbolFacts DEF G
<1>3. T = Start \/ \E S \in DOMAIN set_id : \E s : T = Goto(S, s)  BY DEF NumbersInv
<1>4. CASE T = Start
  <2>1. j # InitLR1_Item(1, Eof) /\ j \in T  BY DEF Item, InitLR1_Item
  <2> HIDE DEF j
  <2> QED BY <1>1, <1>2, <1>4, <2>1, FirstSetFacts
<1>5. ASSUME NEW S \in DOMAIN set_id, NEW s, T = Goto(S, s) PROVE HeadOf(tool, r) \in NextSymbols(T)
  <2>1. S \in SUBSET Items  BY DEF NumbersInv
  <2> HIDE DEF j
  <2>2. ASSUME NEW i \in S, LeadsBy(i, s), j = SwapSymbolAfterStackTop(i) PROVE FALSE
    <3>1. i \in Items /\ i.dot \in Nat  BY <2>1, ItemFacts
    <3>2. j.dot = i.dot + 1  BY <2>2, <3>1, SwapFacts
    <3> QED BY <1>1, <3>1, <3>2
  <2>3. j \in Goto(S, s)  BY <1>5 DEF j
  <2> QED BY <1>1, <1>5, <2>1, <2>2, <2>3, GotoFacts
<1> QED BY <1>2, <1>3, <1>4, <1>5

LEMMA FrontIsFounded ==
  ASSUME tool \in LR1Tools, NumbersInv, NEW c, Founded(c), NEW n \in 1..Len(c)
  PROVE  /\ Founded(SubSeq(c, 1, n)) /\ Len(SubSeq(c, 1, n)) = n
         /\ \A p \in 1..n : SubSeq(c, 1, n)[p] = c[p]
<1> DEFINE b == SubSeq(c, 1, n)
<1>1. c \in Seq(Pairs) /\ Len(c) \in Nat /\ c[1] = <<Eof, 0>>  BY DEF Founded
<1>2. b \in Seq(Pairs) /\ Len(b) = n /\ \A p \in 1..n : b[p] = c[p]
  <2>1. \A p \in 1..n : c[p] \in Pairs  BY <1>1
  <2>2. n \in Int /\ 1 <= n  BY <1>1
  <2> HIDE DEF Pairs
  <2> QED BY <2>1, <2>2, SubSeqProperties
<1> HIDE DEF b
<1>3. ASSUME NEW p \in 1..n
      PROVE  /\ b[p][1] # Empty
             /\ \E S \in DOMAIN set_id : StandsIn(b, p, S) /\ (Sound => RootedIn(b, p, S))
  <2>1. p \in 1..Len(c) /\ p \in Nat /\ p >= 1 /\ \A k \in 1..p : b[k] = c[k]
    BY <1>1, <1>2
  <2>2. PICK S \in DOMAIN set_id : StandsIn(c, p, S) /\ (Sound => RootedIn(c, p, S))
    BY <2>1 DEF Founded
  <2>3. StandsIn(b, p, S) /\ (RootedIn(c, p, S) => RootedIn(b, p, S))
    BY <2>1, <2>2, StandsBelow
  <2>4. b[p][1] # Empty  BY <1>2, <2>1 DEF Founded
  <2> QED BY <2>2, <2>3, <2>4
<1>4. b[1] = <<Eof, 0>> /\ Len(b) >= 1  BY <1>1, <1>2
<1>5. Founded(b)  BY <1>2, <1>3, <1>4 DEF Founded
<1> QED BY <1>2, <1>5 DEF b

\* Pushed on a founded stack: the number of a successor, or zero where no goto
\* was written.
LEMMA PushIsFounded ==
  ASSUME tool \in LR1Tools, first = FirstOf[tool], NumbersInv, SuccessorsInv,
         NEW c, Founded(c), NEW s \in SymbolsOf[tool] \ {Empty},
         NEW S \in DOMAIN set_id, StandsIn(c, Len(c), S), Sound => RootedIn(c, Len(c), S),
         NEW n, \/ Goto(S, s) \in DOMAIN set_id /\ n = set_id[Goto(S, s)]
                \/ n = 0 /\ ~ Sound
  PROVE  Founded(Append(c, <<s, n>>))
<1> DEFINE b == Append(c, <<s, n>>)
           q == Len(c) + 1
<1>1. c \in Seq(Pairs) /\ Len(c) \in Nat /\ Len(c) >= 1 /\ c[1] = <<Eof, 0>>  BY DEF Founded
<1>2. n \in Nat  BY DEF NumbersInv
<1>3. <<s, n>> \in Pairs  BY <1>2 DEF Pairs
<1>4. /\ b \in Seq(Pairs) /\ Len(b) = q /\ q \in Nat
      /\ (\A p \in 1..Len(c) : b[p] = c[p]) /\ b[q] = <<s, n>>
  <2> HIDE DEF Pairs
  <2> QED BY <1>1, <1>3, AppendProperties
<1> HIDE DEF b
<1>5. ASSUME NEW p \in 1..Len(c)
      PROVE  /\ b[p][1] # Empty
             /\ \E T \in DOMAIN set_id : StandsIn(b, p, T) /\ (Sound => RootedIn(b, p, T))
  <2>1. p \in Nat /\ p >= 1 /\ \A k \in 1..p : b[k] = c[k]  BY <1>1, <1>4
  <2>2. PICK T \in DOMAIN set_id : StandsIn(c, p, T) /\ (Sound => RootedIn(c, p, T))
    BY DEF Founded
  <2>3. StandsIn(b, p, T) /\ (RootedIn(c, p, T) => RootedIn(b, p, T))
    BY <2>1, <2>2, StandsBelow
  <2>4. b[p][1] # Empty  BY <1>4 DEF Founded
  <2> QED BY <2>2, <2>3, <2>4
<1>6. \E T \in DOMAIN set_id : StandsIn(b, q, T) /\ (Sound => RootedIn(b, q, T))
  <2>1. CASE Goto(S, s) \in DOMAIN set_id /\ n = set_id[Goto(S, s)]
    <3> DEFINE p == Len(c)
    <3>1. p \in Nat /\ p >= 1 /\ StandsIn(c, p, S) /\ q = p + 1 /\ b[q] = <<s, set_id[Goto(S, s)]>>
          /\ \A k \in 1..p : b[k] = c[k]
      BY <1>1, <1>4, <2>1
    <3>2. Sound => RootedIn(c, p, S)  OBVIOUS
    <3> HIDE DEF p, q
    <3>3. /\ StandsIn(b, q, Goto(S, s))
          /\ StartAndEndAreOutside /\ RootedIn(c, p, S) => RootedIn(b, q, Goto(S, s))
      BY <2>1, <3>1, Pushed
    <3> QED BY <2>1, <3>2, <3>3 DEF Sound
  <2>2. CASE n = 0 /\ ~ Sound
    <3>1. \A i \in Start : i.dot = 0  BY FirstSetFacts
    <3>2. q > 0  BY <1>1
    <3> HIDE DEF q
    <3>3. b[q][2] = 0 /\ q \in Nat  BY <1>4, <2>2
    <3>4. \A i \in Start : i.dot < q /\ \A d \in 1..i.dot : b[q - i.dot + d][1] = Derived(i)[d]
      BY <3>1, <3>2, <3>3
    <3>5. Start \in DOMAIN set_id /\ set_id[Start] = b[q][2]  BY <3>3 DEF SuccessorsInv
    <3>6. StandsIn(b, q, Start)  BY <3>4, <3>5 DEF StandsIn
    <3> QED BY <2>2, <3>5, <3>6
  <2> QED BY <2>1, <2>2
<1>7. \A p \in 1..Len(b) : p \in 1..Len(c) \/ p = q  BY <1>1, <1>4
<1>8. b[q][1] # Empty  BY <1>4
<1>9. b[1] = <<Eof, 0>> /\ Len(b) >= 1  BY <1>1, <1>4
<1>10. Founded(b)
  <2> HIDE DEF q
  <2> QED BY <1>4, <1>5, <1>6, <1>7, <1>8, <1>9 DEF Founded
<1> QED BY <1>10 DEF b

LEMMA SameStack ==
  ASSUME tool' = tool, first' = first, set_id' = set_id, goto_table' = goto_table, NEW c, Founded(c)
  PROVE  (Founded(c))'
<1>1. G' = G /\ Pairs' = Pairs /\ \A i : (Derived(i))' = Derived(i)  BY DEF G, Pairs, Derived
<1>2. \A S : (NextSymbols(S))' = NextSymbols(S)  BY SameGrammar
<1>3. Sound' <=> Sound
  BY <1>1, <1>2 DEF Sound, StartAndEndAreOutside, GotosAreWritten
<1>4. \A p, S : (StandsIn(c, p, S))' <=> StandsIn(c, p, S)  BY <1>1 DEF StandsIn
<1>5. \A p, S : (RootedIn(c, p, S))' <=> RootedIn(c, p, S)  BY DEF RootedIn
<1> QED BY <1>1, <1>3, <1>4, <1>5 DEF Founded

LEMMA StartIsFounded ==
  ASSUME tool \in LR1Tools, first = FirstOf[tool], SuccessorsInv
  PROVE  Founded(<< <<Eof, 0>> >>)
<1> DEFINE c == << <<Eof, 0>> >>
<1>1. Eof \in SymbolsOf[tool] /\ Eof # Empty  BY LRToolsAssumption, SymbolFacts
<1>2. c \in Seq(Pairs) /\ Len(c) = 1 /\ c[1] = <<Eof, 0>>  BY <1>1 DEF Pairs
<1>3. \A i \in Start : i.dot = 0  BY FirstSetFacts
<1>4. Start \in DOMAIN set_id /\ set_id[Start] = 0 /\ Start \in SUBSET Items
  BY FirstSetFacts DEF SuccessorsInv
<1> HIDE DEF c
<1>5. StandsIn(c, 1, Start)  BY <1>2, <1>3, <1>4 DEF StandsIn
<1>6. ASSUME Sound PROVE RootedIn(c, 1, Start)
  <2>1. ASSUME NEW i \in Start
        PROVE  /\ i.rule = 1 => i.dot = 0 /\ i.ahead = Eof
               /\ Item(i.rule, 0, i.ahead) \in Start
    <3>1. i \in Items /\ i.dot = 0  BY <1>3, <1>4
    <3>2. i = Item(i.rule, 0, i.ahead)  BY <3>1, ItemFacts DEF Item
    <3>3. i.rule = 1 => i.ahead = Eof
      <4>1. CASE i = InitLR1_Item(1, Eof)  BY <4>1 DEF InitLR1_Item, Item
      <4>2. CASE i # InitLR1_Item(1, Eof)
        <5>1. HeadOf(tool, i.rule) \in NextSymbols(Start)  BY <4>2, FirstSetFacts
        <5>2. HeadOf(tool, 1) \notin NextSymbols(Start)  BY <1>4, <1>6, OutsideFacts DEF Sound
        <5> QED BY <5>1, <5>2
      <4> QED BY <4>1, <4>2
    <3> QED BY <3>1, <3>2, <3>3
  <2> QED BY <1>2, <1>3, <1>4, <2>1 DEF RootedIn
<1>7. c[1][1] # Empty  BY <1>1, <1>2
<1>8. Founded(c)  BY <1>2, <1>4, <1>5, <1>6, <1>7 DEF Founded
<1> QED BY <1>8 DEF c

LEMMA ReducedStack ==
  ASSUME AnalysisInv, TablesInv, StackInv, pass = "parse", token # Foreign, action[1] = "reduce"
  PROVE  LET rest == SubSeq(context, 1, Len(context) - Len(Body(tool, action[2])))
             head == HeadOf(tool, action[2])
         IN  Founded(Append(rest, <<head, GetGoto(Top(rest)[2], head)>>))
<1>1. /\ tool \in LR1Tools /\ first = FirstOf[tool]
      /\ NumbersInv /\ SuccessorsInv /\ DOMAIN set_id = marked
      /\ Len(context) \in Nat /\ Len(context) >= 1
  BY TopFacts
<1> DEFINE r == action[2]
           n == Len(context) - Len(Body(tool, r))
           rest == SubSeq(context, 1, n)
           head == HeadOf(tool, r)
           e == <<Top(rest)[2], head>>
<1>2. r \in Places(tool) /\ Len(Body(tool, r)) \in Nat /\ n \in 1..Len(context)
      /\ (Sound => \E a : /\ r # 1
                          /\ \E T \in DOMAIN set_id : set_id[T] = context[n][2] /\ Item(r, 0, a) \in T)
  BY <1>1, HandleFacts
<1> HIDE DEF r, n
<1>3. Founded(context)  BY DEF StackInv, ParsePasses
<1>4. Founded(rest) /\ Len(rest) = n /\ \A p \in 1..n : rest[p] = context[p]
  BY <1>1, <1>2, <1>3, FrontIsFounded
<1>5. n \in 1..n /\ n \in Nat  BY <1>1, <1>2
<1> HIDE DEF rest
<1>6. Top(rest) = rest[n] /\ rest[n] = context[n]  BY <1>4, <1>5 DEF Top
<1>7. PICK S \in DOMAIN set_id : StandsIn(rest, n, S) /\ (Sound => RootedIn(rest, n, S))
  BY <1>4, <1>5 DEF Founded
<1>8. set_id[S] = Top(rest)[2]  BY <1>6, <1>7 DEF StandsIn
<1>9. head \in SymbolsOf[tool] \ {Empty}
  <2>1. tool \in DOMAIN Tools  BY <1>1, LRToolsAssumption
  <2> QED BY <1>2, <2>1, RuleFacts, SymbolFacts
<1> HIDE DEF head
<1>10. CASE e \in DOMAIN goto_table
  <2>1. PICK T \in DOMAIN set_id : \E s : /\ e = <<set_id[T], s>> /\ Goto(T, s) \in DOMAIN set_id
                                          /\ goto_table[e] = set_id[Goto(T, s)]
    BY <1>1, <1>10 DEF SuccessorsInv
  <2>2. set_id[T] = set_id[S]  BY <1>8, <2>1
  <2>3. T = S  BY <1>1, <2>2 DEF NumbersInv
  <2>4. Goto(S, head) \in DOMAIN set_id /\ goto_table[e] = set_id[Goto(S, head)]  BY <2>1, <2>3
  <2>5. GetGoto(Top(rest)[2], head) = set_id[Goto(S, head)]  BY <1>10, <2>4 DEF GetGoto
  <2> QED BY <1>1, <1>4, <1>7, <1>9, <2>4, <2>5, PushIsFounded DEF r, n, rest, head
<1>11. CASE e \notin DOMAIN goto_table
  <2>1. ~ Sound
    <3> SUFFICES ASSUME Sound PROVE FALSE  OBVIOUS
    <3>0. PICK a : \E T \in DOMAIN set_id : set_id[T] = context[n][2] /\ Item(r, 0, a) \in T
      BY <1>2
    <3>1. PICK T \in DOMAIN set_id : set_id[T] = context[n][2] /\ Item(r, 0, a) \in T  BY <3>0
    <3>2. r # 1  BY <1>2
    <3>3. T = S  BY <1>1, <1>6, <1>8, <3>1 DEF NumbersInv
    <3>4. head \in NextSymbols(S) \ G.terminals  BY <1>1, <1>2, <3>1, <3>2, <3>3, OpenedFacts DEF head
    <3>5. <<set_id[S], head>> \in DOMAIN goto_table  BY <3>4 DEF Sound, GotosAreWritten
    <3> QED BY <1>8, <1>11, <3>5
  <2>2. GetGoto(Top(rest)[2], head) = 0  BY <1>11 DEF GetGoto
  <2> QED BY <1>1, <1>4, <1>7, <1>9, <2>1, <2>2, PushIsFounded DEF r, n, rest, head
<1> QED BY <1>10, <1>11

LEMMA StackFirst == ASSUME Init PROVE StackInv
BY DEF Init, SetsInit, ParserInit, StackInv, ParsePasses

LEMMA StackNext == ASSUME AnalysisInv, TablesInv, StackInv, [Next]_allVars PROVE StackInv'
<1>1. CASE Analyze /\ UNCHANGED <<lrVars, parserVars>>
  <2>1. read' = read /\ pass \in EarlyPasses /\ pass' \in EarlyPasses
    <3>1. pass \in {"first", "follow", "first_plus", "back_track"} /\ read' = read
      BY <1>1 DEF Analyze, ComputeFirstSets, ComputeFollowSets, ComputeFirstPlusSets,
                  ComputeBackTrackFree, parserVars
    <3>2. CASE ComputeFirstSets  BY <3>1, <3>2 DEF ComputeFirstSets, NextRule, EarlyPasses
    <3>3. CASE ComputeFollowSets  BY <3>1, <3>3 DEF ComputeFollowSets, NextRule, EarlyPasses
    <3>4. CASE ComputeFirstPlusSets  BY <3>1, <3>4 DEF ComputeFirstPlusSets, NextRule, EarlyPasses
    <3>5. CASE ComputeBackTrackFree  BY <3>1, <3>5 DEF ComputeBackTrackFree, EarlyPasses
    <3> QED BY <1>1, <3>2, <3>3, <3>4, <3>5 DEF Analyze
  <2> QED BY <2>1 DEF StackInv, ParsePasses, EarlyPasses
<1>2. CASE BuildTables /\ UNCHANGED parserVars
  <2>1. /\ read' = read /\ pass \in {"analyzed", "collect", "merge", "lalr_actions"}
        /\ pass' \notin ParsePasses
    BY <1>2 DEF BuildTables, StartCollection, Collect, BuildActionTable, MergeSets,
                BuildMergedActionTable, parserVars, ParsePasses
  <2> QED BY <2>1 DEF StackInv, ParsePasses
<1>3. CASE Parse
  <2>1. tool' = tool /\ first' = first /\ set_id' = set_id /\ goto_table' = goto_table
    BY <1>3 DEF Parse, StartParsing, UnknownToken, Shift, Reduce, Accept, ParseError, tablesDone, lrVars
  <2>2. Alphabet' = Alphabet  BY <2>1 DEF Alphabet, G
  <2>3. CASE StartParsing
    <3>1. /\ pass = "built" /\ pass' = "parse" /\ context' = << <<Eof, 0>> >>
          /\ input' \in Inputs /\ read' = read
      BY <2>3 DEF StartParsing
    <3>2. tool \in LR1Tools /\ first = FirstOf[tool] /\ SuccessorsInv
      BY <3>1 DEF AnalysisInv, FirstInv, TablesInv, EarlyPasses
    <3>3. Founded(context')  BY <3>1, <3>2, StartIsFounded
    <3>4. (Founded(context))'  BY <2>1, <3>3, SameStack
    <3>5. input' \in Seq(Alphabet)
      <4>1. PICK n \in 0..MaxLen : input' \in [1..n -> Alphabet]  BY <3>1 DEF Inputs
      <4>2. n \in Nat  BY <4>1, LengthAssumption
      <4> QED BY <4>1, <4>2
    <3>6. read = 0  BY <3>1 DEF StackInv, ParsePasses
    <3> QED BY <2>2, <3>1, <3>4, <3>5, <3>6 DEF StackInv, ParsePasses
  <2>4. CASE UnknownToken  BY <2>4 DEF UnknownToken, StackInv, ParsePasses
  <2>5. CASE Shift
    <3>1. /\ pass = "parse" /\ pass' = "parse" /\ token # Foreign /\ action[1] = "shift"
          /\ context' = Append(context, <<token, action[2]>>)
          /\ input' = input /\ read' = read + 1
      BY <2>5 DEF Shift
    <3>2. input \in Seq(Alphabet) /\ read \in Nat /\ Founded(context)
      BY <3>1 DEF StackInv, ParsePasses
    <3>3. /\ tool \in LR1Tools /\ first = FirstOf[tool]
          /\ NumbersInv /\ SuccessorsInv /\ DOMAIN set_id = marked
      BY <3>1, TopFacts
    <3>4. PICK S \in DOMAIN set_id :
            /\ StandsIn(context, Len(context), S)
            /\ Sound => RootedIn(context, Len(context), S)
            /\ action = ActionRow(S, set_id)[token]
      BY <3>1, TopFacts
    <3>5. token \in G.terminals \ {Empty}  BY <3>1, <3>2, <3>3, TokenFacts
    <3>6. Goto(S, token) \in DOMAIN set_id /\ action[2] = set_id[Goto(S, token)]
      BY <3>1, <3>3, <3>4, <3>5, ActionFacts
    <3>7. token \in SymbolsOf[tool] \ {Empty}
      BY <3>3, <3>5, LRToolsAssumption, SymbolFacts DEF G
    <3>8. Founded(context')  BY <3>1, <3>2, <3>3, <3>4, <3>6, <3>7, PushIsFounded
    <3>9. (Founded(context))'  BY <2>1, <3>8, SameStack
    <3> QED BY <2>2, <3>1, <3>2, <3>9 DEF StackInv, ParsePasses
  <2>6. CASE Reduce
    <3>1. /\ pass = "parse" /\ pass' = "parse" /\ token # Foreign /\ action[1] = "reduce"
          /\ input' = input /\ read' = read
      BY <2>6 DEF Reduce
    <3>2. context' = LET rest == SubSeq(context, 1, Len(context) - Len(Body(tool, action[2])))
                         head == HeadOf(tool, action[2])
                     IN  Append(rest, <<head, GetGoto(Top(rest)[2], head)>>)
      BY <2>6 DEF Reduce, Body, HeadOf, G
    <3>3. Founded(context')  BY <3>1, <3>2, ReducedStack
    <3>4. (Founded(context))'  BY <2>1, <3>3, SameStack
    <3> QED BY <2>2, <3>1, <3>4 DEF StackInv, ParsePasses
  <2>7. CASE Accept \/ ParseError
    <3>1. /\ pass = "parse" /\ pass' \in {"accepted", "rejected"}
          /\ input' = input /\ read' = read /\ context' = context
      BY <2>7 DEF Accept, ParseError, parserVars
    <3>2. Founded(context')  BY <3>1 DEF StackInv, ParsePasses
    <3>3. (Founded(context))'  BY <2>1, <3>2, SameStack
    <3> QED BY <2>2, <3>1, <3>3 DEF StackInv, ParsePasses
  <2> QED BY <1>3, <2>3, <2>4, <2>5, <2>6, <2>7 DEF Parse
<1>4. CASE UNCHANGED allVars
  <2>1. /\ tool' = tool /\ first' = first /\ set_id' = set_id /\ goto_table' = goto_table
        /\ pass' = pass /\ input' = input /\ read' = read /\ context' = context
    BY <1>4 DEF allVars, setVars, lrVars, parserVars
  <2>2. Alphabet' = Alphabet  BY <2>1 DEF Alphabet, G
  <2>3. CASE pass \in ParsePasses
    <3>1. Founded(context')  BY <2>1, <2>3 DEF StackInv
    <3>2. (Founded(context))'  BY <2>1, <3>1, SameStack
    <3> QED BY <2>1, <2>2, <2>3, <3>2 DEF StackInv, ParsePasses
  <2>4. CASE pass \notin ParsePasses  BY <2>1, <2>4 DEF StackInv, ParsePasses
  <2> QED BY <2>3, <2>4
<1> QED BY <1>1, <1>2, <1>3, <1>4 DEF Next

-----------------------------------------------------------------------------
(* What is read. *)

\* The symbols on the stack, and what a rule puts in the place of its head.
Symbols(c) == [k \in 1..Len(c) - 1 |-> c[k + 1][1]]
Word(body) == IF body = <<Empty>> THEN <<>> ELSE body

\* A set of words that the rules of the grammar do not lead out of, and the words
\* in every such set that holds the starting symbol: those it derives.
RulesKeep(C) ==
  \A r \in Places(tool) : \A u, v \in Seq(SymbolsOf[tool]) :
    (u \o <<HeadOf(tool, r)>>) \o v \in C => (u \o Word(Body(tool, r))) \o v \in C
IsDerived(w) ==
  \A C \in SUBSET Seq(SymbolsOf[tool]) : RulesKeep(C) /\ <<HeadOf(tool, 1)>> \in C => w \in C

\* What a stack derives, with what may follow it, the word read derives too.
Reads(c, w) ==
  \A C \in SUBSET Seq(SymbolsOf[tool]) : RulesKeep(C) =>
    \A v \in Seq(SymbolsOf[tool]) : Symbols(c) \o v \in C => w \o v \in C

ReadInv ==
  pass \in ParsePasses /\ Sound =>
    /\ read <= Len(input)
    /\ Reads(context, SubSeq(input, 1, read))
    /\ pass = "accepted" => /\ read = Len(input)
                            /\ Symbols(context) = Body(tool, 1) /\ Body(tool, 1) # <<Empty>>

LEMMA SymbolsFacts ==
  ASSUME NEW c \in Seq(Pairs), Len(c) >= 1
  PROVE  /\ Symbols(c) \in Seq(SymbolsOf[tool]) /\ Len(Symbols(c)) = Len(c) - 1
         /\ \A k \in 1..Len(c) - 1 : Symbols(c)[k] = c[k + 1][1]
<1> DEFINE n == Len(c) - 1
<1>1. n \in Nat /\ Len(c) = n + 1  OBVIOUS
<1>2. ASSUME NEW k \in 1..n PROVE c[k + 1][1] \in SymbolsOf[tool]
  <2>1. k + 1 \in 1..Len(c)  BY <1>1
  <2>2. c[k + 1] \in Pairs  BY <2>1
  <2> QED BY <2>2 DEF Pairs
<1>3. Symbols(c) = [k \in 1..n |-> c[k + 1][1]]  BY DEF Symbols
<1> HIDE DEF n
<1>4. Symbols(c) \in [1..n -> SymbolsOf[tool]]  BY <1>2, <1>3
<1>5. Symbols(c) \in Seq(SymbolsOf[tool]) /\ Len(Symbols(c)) = n  BY <1>1, <1>4
<1> QED BY <1>3, <1>5 DEF n

LEMMA SymbolsOfFront ==
  ASSUME NEW c \in Seq(Pairs), NEW n \in 1..Len(c), NEW body \in Seq(SymbolsOf[tool]),
         Len(body) = Len(c) - n, \A k \in 1..Len(body) : c[n + k][1] = body[k],
         NEW b \in Seq(Pairs), Len(b) = n, \A p \in 1..n : b[p] = c[p]
  PROVE  Symbols(c) = Symbols(b) \o body
<1> DEFINE Sy == SymbolsOf[tool]
           s == Symbols(c)
           t == Symbols(b) \o body
<1>0. c \in Seq(Pairs) /\ b \in Seq(Pairs)  OBVIOUS
<1>1. /\ Len(c) \in Nat /\ n \in Nat /\ n >= 1 /\ n <= Len(c) /\ Len(body) \in Nat
      /\ Len(c) >= 1 /\ Len(b) >= 1
  OBVIOUS
<1>2. /\ s \in Seq(Sy) /\ Len(s) = Len(c) - 1
      /\ \A k \in 1..Len(c) - 1 : s[k] = c[k + 1][1]
  BY <1>0, <1>1, SymbolsFacts
<1>3. /\ Symbols(b) \in Seq(Sy) /\ Len(Symbols(b)) = n - 1
      /\ \A k \in 1..n - 1 : Symbols(b)[k] = b[k + 1][1]
  BY <1>0, <1>1, SymbolsFacts
<1>4. /\ t \in Seq(Sy) /\ Len(t) = n - 1 + Len(body)
      /\ \A i \in 1..n - 1 + Len(body) :
           t[i] = IF i <= n - 1 THEN Symbols(b)[i] ELSE body[i - (n - 1)]
  <2> DEFINE x == Symbols(b)
  <2>1. body \in Seq(Sy) /\ x \in Seq(Sy) /\ Len(x) = n - 1 /\ t = x \o body  BY <1>3
  <2> HIDE DEF Sy, x, t
  <2>2. /\ t \in Seq(Sy) /\ Len(t) = Len(x) + Len(body)
        /\ \A i \in 1..Len(x) + Len(body) : t[i] = IF i <= Len(x) THEN x[i] ELSE body[i - Len(x)]
    BY <2>1, ConcatProperties
  <2> QED BY <2>1, <2>2 DEF x
<1> HIDE DEF s, t, Sy
<1>5. Len(s) = Len(t)  BY <1>1, <1>2, <1>4
<1>6. ASSUME NEW i \in 1..Len(s) PROVE s[i] = t[i]
  <2>1. i \in Nat /\ i >= 1 /\ i <= Len(c) - 1  BY <1>1, <1>2
  <2>2. s[i] = c[i + 1][1]  BY <1>2
  <2>3. CASE i <= n - 1
    <3>1. t[i] = Symbols(b)[i] /\ i \in 1..n - 1  BY <1>1, <1>4, <1>5, <2>1, <2>3
    <3>2. i + 1 \in 1..n  BY <1>1, <2>1, <2>3
    <3>3. b[i + 1] = c[i + 1]  BY <3>2
    <3> QED BY <1>3, <2>2, <3>1, <3>3
  <2>4. CASE ~ (i <= n - 1)
    <3> DEFINE k == i - (n - 1)
    <3>1. t[i] = body[k]  BY <1>1, <1>4, <1>5, <2>1, <2>4
    <3>2. k \in 1..Len(body) /\ n + k = i + 1  BY <1>1, <2>1, <2>4
    <3> HIDE DEF k
    <3> QED BY <2>2, <3>1, <3>2
  <2> QED BY <2>3, <2>4
<1>7. s = t
  <2>1. DOMAIN s = 1..Len(s) /\ DOMAIN t = 1..Len(t)  BY <1>2, <1>4
  <2>2. s = [i \in 1..Len(s) |-> s[i]] /\ t = [i \in 1..Len(t) |-> t[i]]  BY <1>2, <1>4, <2>1
  <2> QED BY <1>5, <1>6, <2>1, <2>2
<1> QED BY <1>7 DEF s, t

LEMMA OneIsASeq == ASSUME NEW S, NEW s \in S PROVE <<s>> \in Seq(S)
OBVIOUS

LEMMA SymbolsOfPush ==
  ASSUME NEW c \in Seq(Pairs), Len(c) >= 1, NEW s \in SymbolsOf[tool], NEW n \in Nat
  PROVE  Symbols(Append(c, <<s, n>>)) = Symbols(c) \o <<s>>
<1> DEFINE b == Append(c, <<s, n>>)
           body == <<s>>
<1>1. <<s, n>> \in Pairs /\ Len(c) \in Nat  BY DEF Pairs
<1>2. /\ b \in Seq(Pairs) /\ Len(b) = Len(c) + 1
      /\ (\A p \in 1..Len(c) : b[p] = c[p]) /\ b[Len(c) + 1] = <<s, n>>
  <2> HIDE DEF Pairs
  <2> QED BY <1>1, AppendProperties
<1> HIDE DEF b
<1>3. body \in Seq(SymbolsOf[tool]) /\ Len(body) = 1 /\ body[1] = s
  <2>1. body[1] = s /\ Len(body) = 1  OBVIOUS
  <2>2. body \in Seq(SymbolsOf[tool])  BY OneIsASeq
  <2> QED BY <2>1, <2>2
<1> HIDE DEF body
<1>4. Len(c) \in 1..Len(b) /\ Len(body) = Len(b) - Len(c)  BY <1>1, <1>2, <1>3
<1>5. \A k \in 1..Len(body) : b[Len(c) + k][1] = body[k]
  <2>1. \A k \in 1..Len(body) : k = 1  BY <1>3
  <2>2. b[Len(c) + 1][1] = body[1]  BY <1>2, <1>3
  <2> QED BY <2>1, <2>2
<1> DEFINE m == Len(c)
<1>6. Symbols(b) = Symbols(c) \o body
  <2>1. m \in 1..Len(b) /\ Len(body) = Len(b) - m /\ Len(c) = m
        /\ (\A k \in 1..Len(body) : b[m + k][1] = body[k]) /\ \A p \in 1..m : c[p] = b[p]
    BY <1>2, <1>4, <1>5
  <2> HIDE DEF m
  <2> QED BY <1>2, <1>3, <2>1, SymbolsOfFront
<1> QED BY <1>6 DEF b, body

LEMMA Regroup ==
  ASSUME NEW S, NEW x \in Seq(S), NEW y \in Seq(S), NEW z \in Seq(S)
  PROVE  (x \o y) \o z = x \o (y \o z)
BY SMTT(60)

LEMMA ReadsPushed ==
  ASSUME NEW c \in Seq(Pairs), Len(c) >= 1, NEW s \in SymbolsOf[tool], NEW n \in Nat,
         NEW A, NEW w \in Seq(A), SymbolsOf[tool] \subseteq A, Reads(c, w)
  PROVE  Reads(Append(c, <<s, n>>), w \o <<s>>)
<1> DEFINE x == Symbols(c)
           t == <<s>>
           Sy == SymbolsOf[tool]
<1>1. x \in Seq(Sy) /\ Symbols(Append(c, <<s, n>>)) = x \o t  BY SymbolsFacts, SymbolsOfPush
<1>2. t \in Seq(Sy)  BY OneIsASeq
<1>3. s \in Sy /\ Sy \subseteq A  OBVIOUS
<1> HIDE DEF x, t, Sy
<1>4. ASSUME NEW C \in SUBSET Seq(Sy), RulesKeep(C), NEW v \in Seq(Sy), (x \o t) \o v \in C
      PROVE  (w \o t) \o v \in C
  <2>1. (x \o t) \o v = x \o (t \o v) /\ t \o v \in Seq(Sy)
    <3>1. x \in Seq(Sy) /\ t \in Seq(Sy) /\ v \in Seq(Sy)  BY <1>1, <1>2
    <3>2. t \o v \in Seq(Sy)  BY <3>1, ConcatProperties
    <3> QED BY <3>1, <3>2, Regroup, SMTT(60)
  <2>2. w \o (t \o v) \in C
    <3>1. x \o (t \o v) \in C  BY <1>4, <2>1
    <3> QED BY <1>4, <2>1, <3>1 DEF Reads, x, Sy
  <2>3. t \in Seq(A) /\ v \in Seq(A)  BY <1>2, <1>3, SeqMonotonic
  <2>4. (w \o t) \o v = w \o (t \o v)  BY <2>3, Regroup, SMTT(60)
  <2> QED BY <2>2, <2>4
<1> QED BY <1>1, <1>4 DEF Reads, Sy, t

LEMMA ReadsReduced ==
  ASSUME tool \in LR1Tools, NEW r \in Places(tool), Body(tool, r) # <<Empty>>,
         NEW c \in Seq(Pairs), NEW n \in 1..Len(c), Len(Body(tool, r)) = Len(c) - n,
         \A k \in 1..Len(Body(tool, r)) : c[n + k][1] = Body(tool, r)[k],
         NEW b \in Seq(Pairs), Len(b) = n, \A p \in 1..n : b[p] = c[p],
         NEW m \in Nat, NEW w, Reads(c, w)
  PROVE  Reads(Append(b, <<HeadOf(tool, r), m>>), w)
<1> DEFINE head == HeadOf(tool, r)
           body == Body(tool, r)
           x == Symbols(b)
           Sy == SymbolsOf[tool]
<1>1. head \in Sy /\ body \in Seq(Sy) /\ Word(body) = body
  <2>1. tool \in DOMAIN Tools  BY LRToolsAssumption
  <2> QED BY <2>1, RuleFacts, SymbolFacts DEF Word
<1>2. Len(b) >= 1 /\ x \in Seq(Sy)  BY SymbolsFacts
<1>3. Symbols(Append(b, <<head, m>>)) = x \o <<head>>  BY <1>1, <1>2, SymbolsOfPush
<1>4. Symbols(c) = x \o body  BY <1>1, SymbolsOfFront
<1> HIDE DEF x, head, body, Sy
<1>5. ASSUME NEW C \in SUBSET Seq(Sy), RulesKeep(C), NEW v \in Seq(Sy), (x \o <<head>>) \o v \in C
      PROVE  w \o v \in C
  <2>1. (x \o Word(body)) \o v \in C  BY <1>2, <1>5 DEF RulesKeep, head, body, Sy
  <2>2. Symbols(c) \o v \in C  BY <1>1, <1>4, <2>1
  <2> QED BY <1>5, <2>2 DEF Reads, Sy
<1> QED BY <1>3, <1>5 DEF Reads, Sy, head

LEMMA ReadFirst == ASSUME Init PROVE ReadInv
BY DEF Init, SetsInit, ReadInv, ParsePasses

LEMMA ReadNext ==
  ASSUME AnalysisInv, TablesInv, StackInv, ReadInv, [Next]_allVars
  PROVE  ReadInv'
<1> SUFFICES ASSUME pass' \in ParsePasses, Sound'
             PROVE  /\ (read <= Len(input) /\ Reads(context, SubSeq(input, 1, read)))'
                    /\ pass' = "accepted" => (/\ read = Len(input) /\ Symbols(context) = Body(tool, 1)
                                              /\ Body(tool, 1) # <<Empty>>)'
  BY DEF ReadInv
<1>1. Parse \/ (UNCHANGED allVars /\ pass \in ParsePasses)
  <2>1. Analyze \/ BuildTables => pass' \notin ParsePasses
    BY DEF Analyze, ComputeFirstSets, ComputeFollowSets, ComputeFirstPlusSets, ComputeBackTrackFree,
           NextRule, BuildTables, StartCollection, Collect, BuildActionTable, MergeSets,
           BuildMergedActionTable, ParsePasses
  <2>2. UNCHANGED allVars => pass \in ParsePasses  BY DEF allVars, setVars
  <2> QED BY <2>1, <2>2 DEF Next
<1>2. tool' = tool /\ first' = first /\ set_id' = set_id /\ goto_table' = goto_table
  BY <1>1 DEF Parse, StartParsing, UnknownToken, Shift, Reduce, Accept, ParseError, tablesDone, lrVars,
              allVars, setVars
<1>3. Sound
  <2>1. G' = G /\ \A S : (NextSymbols(S))' = NextSymbols(S)  BY <1>2, SameGrammar
  <2> QED BY <1>2, <2>1 DEF Sound, StartAndEndAreOutside, GotosAreWritten
<1>4. /\ pass \in {"built"} \cup ParsePasses
      /\ tool \in LR1Tools /\ first = FirstOf[tool] /\ NumbersInv /\ SuccessorsInv
  <2>1. pass \in {"built"} \cup ParsePasses
    BY <1>1 DEF Parse, StartParsing, UnknownToken, Shift, Reduce, Accept, ParseError, ParsePasses
  <2> QED BY <2>1 DEF AnalysisInv, FirstInv, TablesInv, EarlyPasses, ParsePasses
<1>5. \A c, w : (Reads(c, w))' <=> Reads(c, w)
  BY <1>2 DEF Reads, RulesKeep, Symbols, Places, HeadOf, Body
<1>6. (Body(tool, 1))' = Body(tool, 1)  BY <1>2 DEF Body
<1>7. CASE StartParsing
  <2>1. /\ pass = "built" /\ pass' = "parse" /\ context' = << <<Eof, 0>> >> /\ read' = 0
        /\ input' \in Inputs
    BY <1>7 DEF StartParsing, StackInv, ParsePasses
  <2>2. Len(input') \in Nat
    <3>1. PICK n \in 0..MaxLen : input' \in [1..n -> Alphabet]  BY <2>1 DEF Inputs
    <3>2. n \in Nat  BY <3>1, LengthAssumption
    <3> QED BY <3>1, <3>2
  <2>3. SubSeq(input', 1, read') = <<>>  BY <2>1, SubSeqEmpty
  <2>4. Symbols(context') = <<>>
    <3> DEFINE c == << <<Eof, 0>> >>
    <3>1. c \in Seq(Pairs) /\ Len(c) = 1  BY <1>3, <1>4, StartIsFounded DEF Founded
    <3> HIDE DEF c
    <3>2. Symbols(c) \in Seq(SymbolsOf[tool]) /\ Len(Symbols(c)) = 0
      BY <3>1, SymbolsFacts, SMTT(60)
    <3>3. Symbols(c) = <<>>  BY <3>2, EmptySeq
    <3> QED BY <2>1, <3>3 DEF c
  <2>5. Reads(context', SubSeq(input', 1, read'))  BY <2>3, <2>4 DEF Reads
  <2> QED BY <1>5, <2>1, <2>2, <2>5
<1>8. CASE UnknownToken  BY <1>8 DEF UnknownToken, ParsePasses
<1>9. CASE Shift
  <2>1. /\ pass = "parse" /\ pass' = "parse" /\ token # Foreign /\ action[1] = "shift"
        /\ context' = Append(context, <<token, action[2]>>)
        /\ input' = input /\ read' = read + 1
    BY <1>9 DEF Shift
  <2>2. /\ input \in Seq(Alphabet) /\ read \in Nat /\ context \in Seq(Pairs) /\ Len(context) >= 1
        /\ read <= Len(input) /\ Len(input) \in Nat /\ Reads(context, SubSeq(input, 1, read))
    BY <1>3, <2>1 DEF StackInv, ReadInv, Founded, ParsePasses
  <2>3. DOMAIN set_id = marked  BY <2>1, TopFacts
  <2>4. PICK S \in DOMAIN set_id : action = ActionRow(S, set_id)[token]  BY <2>1, TopFacts
  <2>5. token \in G.terminals \ {Empty}  BY <1>4, <2>1, <2>2, TokenFacts
  <2>6. /\ token \in NextSymbols(S) /\ Goto(S, token) \in DOMAIN set_id
        /\ action[2] = set_id[Goto(S, token)]
    BY <1>4, <2>1, <2>3, <2>4, <2>5, ActionFacts
  <2>7. token # Eof
    <3>1. S \in SUBSET Items  BY <1>4 DEF NumbersInv
    <3> QED BY <1>3, <1>4, <2>6, <3>1, OutsideFacts DEF Sound
  <2>8. read < Len(input) /\ token = input[read + 1]  BY <1>4, <2>1, <2>2, <2>7, TokenFacts
  <2>9. token \in SymbolsOf[tool] /\ action[2] \in Nat
    BY <1>4, <2>5, <2>6, LRToolsAssumption, SymbolFacts DEF G, NumbersInv
  <2> DEFINE A == Alphabet \cup SymbolsOf[tool]
             w == SubSeq(input, 1, read)
  <2>10. w \in Seq(A)
    <3>1. \A i \in 1..read : input[i] \in A  BY <2>2
    <3> HIDE DEF A
    <3> QED BY <2>2, <3>1, SubSeqProperties
  <2>11. SubSeq(input, 1, read + 1) = w \o <<token>>
    <3>1. read + 1 \in 1..Len(input)  BY <2>2, <2>8
    <3>2. 1 \in 1..Len(input) /\ read + 1 - 1 = read  BY <2>2, <2>8
    <3> DEFINE n == read + 1
    <3>3. n \in 1..Len(input) /\ n - 1 = read /\ input[n] = token
      <4>1. input[n] = token  BY <2>8
      <4>2. n \in 1..Len(input) /\ n - 1 = read  BY <2>2, <3>1
      <4> QED BY <4>1, <4>2
    <3> HIDE DEF n
    <3>4. SubSeq(input, 1, n) = SubSeq(input, 1, n - 1) \o <<input[n]>>
      BY <2>2, <3>2, <3>3, SubSeqRecursiveSecond
    <3> QED BY <3>3, <3>4 DEF n
  <2>12. Reads(context', w \o <<token>>)
    <3>1. SymbolsOf[tool] \subseteq A  OBVIOUS
    <3> HIDE DEF A, w
    <3> QED BY <2>1, <2>2, <2>9, <2>10, <3>1, ReadsPushed DEF w
  <2>13. read' <= Len(input')  BY <2>1, <2>2, <2>8
  <2> QED BY <1>5, <2>1, <2>11, <2>12, <2>13
<1>10. CASE Reduce
  <2> DEFINE r == action[2]
             n == Len(context) - Len(Body(tool, r))
             b == SubSeq(context, 1, n)
             m == GetGoto(Top(b)[2], HeadOf(tool, r))
  <2>1. /\ pass = "parse" /\ pass' = "parse" /\ token # Foreign /\ action[1] = "reduce"
        /\ input' = input /\ read' = read
        /\ context' = Append(b, <<HeadOf(tool, r), m>>)
    BY <1>10 DEF Reduce, Body, HeadOf, G
  <2>2. /\ r \in Places(tool) /\ Len(Body(tool, r)) \in Nat /\ Len(context) > Len(Body(tool, r))
        /\ \A k \in 1..Len(Body(tool, r)) : context[n + k][1] = Body(tool, r)[k]
    BY <2>1, HandleFacts
  <2>3. /\ Founded(context) /\ context \in Seq(Pairs) /\ Len(context) \in Nat
        /\ read <= Len(input) /\ Reads(context, SubSeq(input, 1, read))
    BY <1>3, <2>1 DEF StackInv, ReadInv, Founded, ParsePasses
  <2>4. n \in 1..Len(context) /\ Len(Body(tool, r)) = Len(context) - n  BY <2>2, <2>3
  <2>5. Body(tool, r) # <<Empty>>
    <3> SUFFICES ASSUME Body(tool, r) = <<Empty>> PROVE FALSE  OBVIOUS
    <3>1. Len(Body(tool, r)) = 1 /\ Body(tool, r)[1] = Empty
      <4> DEFINE body == Body(tool, r)
      <4>1. body = <<Empty>>  OBVIOUS
      <4> HIDE DEF body
      <4>2. Len(body) = 1 /\ body[1] = Empty  BY <4>1
      <4> QED BY <4>2 DEF body
    <3>2. n + 1 = Len(context) /\ n + 1 \in 1..Len(context)
      <4> HIDE DEF n, r
      <4> QED BY <2>3, <2>4, <3>1
    <3>3. context[n + 1][1] = Empty
      <4> HIDE DEF n, r
      <4> QED BY <2>2, <3>1
    <3> HIDE DEF n
    <3> QED BY <2>3, <3>2, <3>3 DEF Founded
  <2> HIDE DEF r, n
  <2>6. b \in Seq(Pairs) /\ Len(b) = n /\ \A p \in 1..n : b[p] = context[p]
    BY <1>4, <2>3, <2>4, FrontIsFounded DEF Founded
  <2>7. m \in Nat
    <3> HIDE DEF b
    <3>1. CASE <<Top(b)[2], HeadOf(tool, r)>> \in DOMAIN goto_table
      BY <1>4, <3>1 DEF GetGoto, SuccessorsInv, NumbersInv
    <3> QED BY <3>1 DEF GetGoto
  <2> HIDE DEF b, m
  <2>8. Reads(context', SubSeq(input, 1, read))
    <3> HIDE DEF Reads
    <3> QED BY <1>4, <2>1, <2>2, <2>3, <2>4, <2>5, <2>6, <2>7, ReadsReduced
  <2> QED BY <1>5, <2>1, <2>3, <2>8
<1>11. CASE Accept
  <2>1. /\ pass = "parse" /\ pass' = "accepted" /\ token # Foreign /\ action[1] = "accept"
        /\ input' = input /\ read' = read /\ context' = context
    BY <1>11 DEF Accept, parserVars
  <2>2. /\ input \in Seq(Alphabet) /\ read \in Nat /\ Founded(context) /\ context \in Seq(Pairs)
        /\ Len(context) >= 1 /\ Len(context) \in Nat
        /\ read <= Len(input) /\ Len(input) \in Nat /\ Reads(context, SubSeq(input, 1, read))
    BY <1>3, <2>1 DEF StackInv, ReadInv, Founded, ParsePasses
  <2>3. DOMAIN set_id = marked  BY <2>1, TopFacts
  <2>4. PICK S \in DOMAIN set_id : /\ action = ActionRow(S, set_id)[token]
                                   /\ StandsIn(context, Len(context), S)
                                   /\ RootedIn(context, Len(context), S)
    BY <1>3, <2>1, TopFacts
  <2>5. token \in G.terminals \ {Empty}  BY <1>4, <2>1, <2>2, TokenFacts
  <2>6. PICK i \in S : i.rule = 1 /\ i.dot = Len(Derived(i)) /\ token = Eof
    BY <1>4, <2>1, <2>3, <2>4, <2>5, ActionFacts
  <2>7. i \in Items  BY <1>4 DEF NumbersInv
  <2>8. /\ Derived(i) = Body(tool, 1) /\ Derived(i) \in Seq(SymbolsOf[tool])
        /\ i.dot = Len(context) - 1
        /\ \A d \in 1..i.dot : context[Len(context) - i.dot + d][1] = Derived(i)[d]
    BY <1>4, <2>4, <2>6, <2>7, ItemFacts DEF StandsIn, RootedIn
  <2>9. /\ Symbols(context) \in Seq(SymbolsOf[tool]) /\ Len(Symbols(context)) = Len(context) - 1
        /\ \A k \in 1..Len(context) - 1 : Symbols(context)[k] = context[k + 1][1]
    BY <2>2, SymbolsFacts
  <2> DEFINE body == Body(tool, 1)
             len == Len(context) - 1
  <2>10. /\ body \in Seq(SymbolsOf[tool]) /\ Len(body) = len
         /\ \A d \in 1..len : context[d + 1][1] = body[d]
    <3>1. Len(context) - i.dot = 1  BY <2>2, <2>8
    <3>2. \A d \in 1..len : Len(context) - i.dot + d = d + 1  BY <2>2, <2>8
    <3> QED BY <2>6, <2>8, <3>2
  <2>11. Symbols(context) = body
    <3> HIDE DEF body
    <3>1. \A k \in 1..Len(Symbols(context)) : Symbols(context)[k] = body[k]  BY <2>9, <2>10
    <3> QED BY <2>9, <2>10, <3>1, SeqEqual
  <2>12. body # <<Empty>>
    <3> SUFFICES ASSUME body = <<Empty>> PROVE FALSE  OBVIOUS
    <3>1. len = 1 /\ body[1] = Empty  BY <2>10
    <3>2. context[2][1] = Empty /\ 2 \in 1..Len(context)  BY <2>2, <2>10, <3>1
    <3> QED BY <2>2, <3>2 DEF Founded
  <2>13. read = Len(input)  BY <1>4, <2>1, <2>2, <2>6, TokenFacts
  <2> QED BY <1>5, <1>6, <2>1, <2>2, <2>11, <2>12, <2>13
<1>12. CASE ParseError \/ (UNCHANGED allVars /\ pass \in ParsePasses)
  <2>1. /\ pass \in ParsePasses /\ (pass' = "rejected" \/ pass' = pass)
        /\ input' = input /\ read' = read /\ context' = context
    BY <1>12 DEF ParseError, parserVars, allVars, setVars, ParsePasses
  <2>2. /\ read <= Len(input) /\ Reads(context, SubSeq(input, 1, read))
        /\ pass = "accepted" => /\ read = Len(input) /\ Symbols(context) = Body(tool, 1)
                                /\ Body(tool, 1) # <<Empty>>
    BY <1>3, <2>1 DEF ReadInv
  <2>3. Symbols(context') = Symbols(context)  BY <2>1
  <2>4. (Symbols(context))' = Symbols(context)  BY <2>1 DEF Symbols
  <2>5. pass' = "accepted" => pass = "accepted"  BY <2>1
  <2> QED BY <1>5, <1>6, <2>1, <2>2, <2>4, <2>5
<1> QED BY <1>1, <1>7, <1>8, <1>9, <1>10, <1>11, <1>12 DEF Parse

-----------------------------------------------------------------------------
(* The theorems. *)

LEMMA InvFirstParser == ASSUME Init PROVE AnalysisInv /\ TablesInv /\ StackInv /\ ReadInv
BY InvFirst, TablesFirst, StackFirst, ReadFirst

LEMMA ParserInvariant == Spec => [](AnalysisInv /\ TablesInv /\ StackInv /\ ReadInv)
<1> DEFINE I == AnalysisInv /\ TablesInv /\ StackInv /\ ReadInv
<1>1. Init => I  BY InvFirstParser
<1>2. I /\ [Next]_allVars => I'  BY InvNext, TablesNext, StackNext, ReadNext
<1> QED BY <1>1, <1>2, PTL DEF Spec

(* For every grammar, GrammarLR1::BuildTables gives every set of items it  *)
(* meets one number of its own, collects the successors of every set it    *)
(* has handled, writes into the goto table nothing but numbers of          *)
(* successors, and into the rows the actions of the whole collection.      *)
THEOREM TablesDescribeTheCollection == Spec => []TablesInv
BY ParserInvariant, PTL

\* The state of every place of the stack has its row of actions.
StatesHaveRows ==
  pass = "parse" => \A p \in 1..Len(context) : context[p][2] \in DOMAIN action_table

(* For every grammar and input, ParserLR1::Parse looks actions up only     *)
(* with states that have a row, those a goto that was never written leads  *)
(* to among them.                                                          *)
THEOREM ActionsAreFound == Spec => []StatesHaveRows
<1>1. TablesInv /\ StackInv => StatesHaveRows
  <2> SUFFICES ASSUME TablesInv, StackInv, pass = "parse", NEW p \in 1..Len(context)
               PROVE  context[p][2] \in DOMAIN action_table
    BY DEF StatesHaveRows
  <2>1. PICK S \in DOMAIN set_id : StandsIn(context, p, S)  BY DEF StackInv, ParsePasses, Founded
  <2>2. set_id[S] \in DOMAIN action_table  BY DEF TablesInv, RowsInv, EarlyPasses, BuiltPasses
  <2> QED BY <2>1, <2>2 DEF StandsIn
<1> QED BY <1>1, ParserInvariant, PTL

\* What a reduction takes off the stack: the symbols its rule derives, and never
\* the mark at the bottom.
TakesItsHandle ==
  pass = "parse" /\ token # Foreign /\ action[1] = "reduce" =>
    LET body == Body(tool, action[2])
    IN  /\ action[2] \in Places(tool) /\ Len(context) > Len(body)
        /\ \A k \in 1..Len(body) : context[Len(context) - Len(body) + k][1] = body[k]

(* For every grammar and input, ParserLR1::Parse reduces by a rule of the  *)
(* grammar when the symbols the rule derives are on the top of the stack,  *)
(* so it pops nothing else and never empties the stack: neither a conflict *)
(* that a later item won nor a goto of zero makes it.                      *)
THEOREM ReductionsFindTheirHandle == Spec => []TakesItsHandle
<1>1. AnalysisInv /\ TablesInv /\ StackInv => TakesItsHandle
  <2> SUFFICES ASSUME AnalysisInv, TablesInv, StackInv PROVE TakesItsHandle  OBVIOUS
  <2> QED BY HandleFacts DEF TakesItsHandle
<1> QED BY <1>1, ParserInvariant, PTL

\* An accepted input can be derived from the starting symbol, where no rule derives
\* that symbol or the end of the input and every goto has its entry.
AcceptedIsDerived ==
  StartAndEndAreOutside /\ GotosAreWritten /\ pass = "accepted" => IsDerived(input)

(* For every grammar in which no rule derives the starting symbol or the   *)
(* end of the input, and whose goto table has an entry for every successor *)
(* (the run checks both of its grammars), what ParserLR1::Parse accepts    *)
(* the rules derive, whatever conflicts the tables hide.                   *)
THEOREM AcceptsOnlySentences == Spec => []AcceptedIsDerived
<1>1. AnalysisInv /\ TablesInv /\ StackInv /\ ReadInv => AcceptedIsDerived
  <2> SUFFICES ASSUME AnalysisInv, TablesInv, StackInv, ReadInv, Sound, pass = "accepted",
                      NEW C \in SUBSET Seq(SymbolsOf[tool]), RulesKeep(C), <<HeadOf(tool, 1)>> \in C
               PROVE  input \in C
    BY DEF AcceptedIsDerived, IsDerived, Sound
  <2> DEFINE Sy == SymbolsOf[tool]
             head == <<HeadOf(tool, 1)>>
             body == Body(tool, 1)
  <2>1. /\ input \in Seq(Alphabet) /\ read = Len(input) /\ Reads(context, SubSeq(input, 1, read))
        /\ Symbols(context) = body /\ body # <<Empty>>
    BY DEF StackInv, ReadInv, ParsePasses
  <2>2. 1 \in Places(tool) /\ HeadOf(tool, 1) \in Sy /\ body \in Seq(Sy)
    <3>1. tool \in DOMAIN Tools  BY DEF AnalysisInv
    <3> QED BY <3>1, RuleFacts, SymbolFacts
  <2>3. head \in Seq(Sy) /\ <<>> \in Seq(Sy)  BY <2>2, OneIsASeq, EmptySeq
  <2>4. (<<>> \o head) \o <<>> = head /\ (<<>> \o body) \o <<>> = body
    <3> HIDE DEF Sy, head, body
    <3> QED BY <2>2, <2>3, ConcatEmptySeq
  <2>5. (<<>> \o Word(body)) \o <<>> \in C
    <3>1. (<<>> \o head) \o <<>> \in C  BY <2>4
    <3> QED BY <2>2, <2>3, <3>1 DEF RulesKeep
  <2>6. Symbols(context) \o <<>> \in C
    <3>1. Word(body) = body  BY <2>1 DEF Word
    <3>2. Symbols(context) \o <<>> = body
      <4> HIDE DEF Sy, body
      <4> QED BY <2>1, <2>2, ConcatEmptySeq
    <3>3. body \in C  BY <2>4, <2>5, <3>1
    <3> QED BY <3>2, <3>3
  <2>7. SubSeq(input, 1, read) \o <<>> \in C  BY <2>1, <2>3, <2>6 DEF Reads
  <2>8. SubSeq(input, 1, read) = input /\ input \o <<>> = input
    BY <2>1, SubSeqFull, ConcatEmptySeq
  <2> QED BY <2>7, <2>8
<1> QED BY <1>1, ParserInvariant, PTL
===============================================================================
