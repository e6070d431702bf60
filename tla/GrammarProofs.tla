--------------------------- MODULE GrammarProofs ---------------------------
(***************************************************************************)
(* Proofs that Grammar::Analyze computes, for every grammar, the sets that *)
(* the derivations of the grammar give.  The argument has three parts:     *)
(*                                                                         *)
(*   - the sets of module Derivations, told there by counting rounds, are  *)
(*     the least ones closed under the rules (NullableLeast, FirstClosed   *)
(*     and FirstLeast, FollowClosed and FollowLeast).  Rounds are counted, *)
(*     so this takes induction on numbers (AllNumbers, from the fact that  *)
(*     every set of numbers has a least one) and on finite sets: a set     *)
(*     that grows in every round is full after as many rounds as it can    *)
(*     take elements (Saturates);                                          *)
(*   - AnalysisInv, the inductive invariant: the sets lie within the least *)
(*     ones, and when no set has changed in this sweep, no rule that the   *)
(*     sweep has passed would change one.  A sweep that changed nothing    *)
(*     therefore ends with sets that are closed, hence no smaller than the *)
(*     least ones;                                                         *)
(*   - PlusDecides, by which the First+ sets of the code and those of the  *)
(*     definition find the same rules that collide.                        *)
(***************************************************************************)
EXTENDS LRParser, FiniteSetTheorems, WellFoundedInduction, TLAPS

-----------------------------------------------------------------------------
(* Induction on a set of numbers, and sets that grow within a finite one.   *)

LEMMA AllNumbers ==
  ASSUME NEW P, 0 \in P, \A n \in Nat : n \in P => n + 1 \in P
  PROVE  Nat \subseteq P
<1> DEFINE R == {ss \in Nat \X Nat : ss[1] < ss[2]}
           T == Nat \ P
<1>1. IsWellFoundedOn(R, Nat)
  BY NatLessThanWellFounded DEF OpToRel
<1>2. ASSUME T # {} PROVE FALSE
  <2>1. T \in SUBSET Nat  OBVIOUS
  <2>2. PICK m \in T : \A t \in T : ~ (<<t, m>> \in R)
    <3> HIDE DEF R, T
    <3> QED BY <1>1, <1>2, <2>1, WFMin
  <2>3. m \in Nat /\ m # 0  OBVIOUS
  <2>4. m - 1 \in Nat /\ m - 1 + 1 = m  BY <2>3
  <2>5. m - 1 \in T  BY <2>4
  <2>6. <<m - 1, m>> \in R  BY <2>3, <2>4
  <2> QED BY <2>2, <2>5, <2>6
<1> QED BY <1>2

\* f applies F to a set K times.
Iterated(F, a, K, f) == f = [n \in 0..K |-> IF n = 0 THEN a ELSE F[f[n - 1]]]

LEMMA Iterates ==
  ASSUME NEW S, NEW F \in [S -> S], NEW a \in S, NEW K \in Nat
  PROVE  \E f \in [0..K -> S] : Iterated(F, a, K, f)
<1> DEFINE P == {k \in Nat : \E f \in [0..k -> S] : Iterated(F, a, k, f)}
<1>1. 0 \in P
  <2> DEFINE f == [n \in 0..0 |-> a]
  <2>1. f \in [0..0 -> S] /\ Iterated(F, a, 0, f)  BY DEF Iterated
  <2> QED BY <2>1
<1>2. ASSUME NEW k \in Nat, k \in P PROVE k + 1 \in P
  <2>1. PICK f \in [0..k -> S] : Iterated(F, a, k, f)  BY <1>2
  <2>a. f = [n \in 0..k |-> IF n = 0 THEN a ELSE F[f[n - 1]]]  BY <2>1 DEF Iterated
  <2> DEFINE g == [n \in 0..k + 1 |-> IF n = k + 1 THEN F[f[k]] ELSE f[n]]
  <2>2. f[k] \in S  OBVIOUS
  <2>3. g \in [0..k + 1 -> S]  BY <2>2
  <2>4. ASSUME NEW n \in 0..k + 1 PROVE g[n] = IF n = 0 THEN a ELSE F[g[n - 1]]
    <3>1. CASE n = k + 1
      <4>1. g[n] = F[f[k]] /\ g[n - 1] = f[k] /\ n # 0  BY <3>1
      <4> QED BY <4>1
    <3>2. CASE n = 0  BY <2>a, <3>2
    <3>3. CASE n \in 1..k
      <4>1. g[n] = f[n] /\ g[n - 1] = f[n - 1] /\ n # 0 /\ n \in 0..k  BY <3>3
      <4> QED BY <2>a, <4>1
    <3> QED BY <3>1, <3>2, <3>3
  <2>5. Iterated(F, a, k + 1, g)  BY <2>3, <2>4 DEF Iterated
  <2>6. \E h \in [0..k + 1 -> S] : Iterated(F, a, k + 1, h)
    <3> HIDE DEF g
    <3> QED BY <2>3, <2>5
  <2> QED BY <2>6
<1>3. Nat \subseteq P
  <2> HIDE DEF P
  <2> QED BY <1>1, <1>2, AllNumbers
<1> QED BY <1>3

Inflationary(S, F) == \A X \in SUBSET S : X \subseteq F[X]
Monotone(S, F) == \A X, Y \in SUBSET S : X \subseteq Y => F[X] \subseteq F[Y]

LEMMA IteratedType ==
  ASSUME NEW S, NEW F \in [S -> S], NEW a \in S, NEW K \in Nat,
         NEW f, Iterated(F, a, K, f)
  PROVE  f \in [0..K -> S] /\ f[0] = a /\ \A n \in 0..K - 1 : f[n + 1] = F[f[n]]
<1>1. f[0] = a  BY DEF Iterated
<1>2. ASSUME NEW n \in 0..K - 1 PROVE f[n + 1] = F[f[n]]
  <2>1. n + 1 \in 0..K /\ n + 1 # 0 /\ n + 1 - 1 = n  OBVIOUS
  <2> QED BY <2>1 DEF Iterated
<1> DEFINE P == {n \in Nat : n <= K => f[n] \in S}
<1>3. 0 \in P  BY <1>1
<1>4. ASSUME NEW n \in Nat, n \in P PROVE n + 1 \in P
  <2>1. CASE n + 1 <= K
    <3>1. n \in 0..K - 1 /\ f[n] \in S  BY <1>4, <2>1
    <3>2. f[n + 1] \in S  BY <1>2, <3>1
    <3> QED BY <3>2
  <2>2. CASE ~ (n + 1 <= K)  BY <2>2
  <2> QED BY <2>1, <2>2
<1>5. Nat \subseteq P
  <2> HIDE DEF P
  <2> QED BY <1>3, <1>4, AllNumbers
<1>6. \A n \in 0..K : f[n] \in S  BY <1>5
<1>7. f \in [0..K -> S]
  <2>1. f = [n \in 0..K |-> f[n]]  BY DEF Iterated
  <2> QED BY <1>6, <2>1
<1> QED BY <1>1, <1>2, <1>7

\* A growing iteration within a finite set has ended after as many rounds as
\* the set has elements that were not there at first.
LEMMA Saturates ==
  ASSUME NEW S, IsFiniteSet(S), NEW F \in [SUBSET S -> SUBSET S], Inflationary(S, F),
         NEW a \in SUBSET S, NEW K \in Nat, Cardinality(S) <= Cardinality(a) + K,
         NEW f, Iterated(F, a, K, f)
  PROVE  F[f[K]] = f[K]
<1>1. /\ f \in [0..K -> SUBSET S] /\ f[0] = a
      /\ \A n \in 0..K - 1 : f[n + 1] = F[f[n]]
  <2> DEFINE T == SUBSET S
  <2>1. F \in [T -> T] /\ a \in T  OBVIOUS
  <2> HIDE DEF T
  <2>2. /\ f \in [0..K -> T] /\ f[0] = a
        /\ \A n \in 0..K - 1 : f[n + 1] = F[f[n]]
    BY <2>1, IteratedType
  <2> QED BY <2>2 DEF T
<1>2. \A n \in 0..K : /\ IsFiniteSet(f[n]) /\ Cardinality(f[n]) \in Nat
                      /\ Cardinality(f[n]) <= Cardinality(S)
  BY <1>1, FS_Subset, FS_CardinalityType
<1>3. SUFFICES ASSUME F[f[K]] # f[K] PROVE FALSE  OBVIOUS
<1> DEFINE Q == {n \in Nat : n <= K => F[f[K - n]] # f[K - n]}
\* Going back from the last round, no round left the set as it was.
<1>4. 0 \in Q  BY <1>3
<1>5. ASSUME NEW n \in Nat, n \in Q PROVE n + 1 \in Q
  <2>1. CASE n + 1 <= K
    <3>1. F[f[K - n]] # f[K - n]  BY <1>5, <2>1
    <3>2. K - (n + 1) \in 0..K - 1 /\ K - (n + 1) + 1 = K - n  BY <2>1
    <3>3. f[K - n] = F[f[K - (n + 1)]]  BY <1>1, <3>2
    <3>4. F[f[K - (n + 1)]] # f[K - (n + 1)]  BY <3>1, <3>3
    <3> QED BY <3>4
  <2>2. CASE ~ (n + 1 <= K)  BY <2>2
  <2> QED BY <2>1, <2>2
<1>6. Nat \subseteq Q
  <2> HIDE DEF Q
  <2> QED BY <1>4, <1>5, AllNumbers
<1>7. ASSUME NEW n \in 0..K PROVE F[f[n]] # f[n]
  <2>1. K - n \in Nat /\ K - n <= K /\ K - (K - n) = n  OBVIOUS
  <2>2. K - n \in Q  BY <1>6, <2>1
  <2> QED BY <2>1, <2>2
<1> HIDE DEF Q
\* So every round added an element.
<1> DEFINE P == {n \in Nat : n <= K => Cardinality(f[n]) >= Cardinality(a) + n}
<1>8. Cardinality(a) \in Nat  BY <1>1, <1>2
<1>9. ASSUME NEW n \in 0..K PROVE Cardinality(F[f[n]]) >= Cardinality(f[n]) + 1
  <2>1. f[n] \in SUBSET S /\ F[f[n]] \in SUBSET S  BY <1>1
  <2>2. IsFiniteSet(F[f[n]]) /\ f[n] \subseteq F[f[n]]
    BY <2>1, FS_Subset DEF Inflationary
  <2>3. /\ Cardinality(f[n]) <= Cardinality(F[f[n]])
        /\ Cardinality(F[f[n]]) = Cardinality(f[n]) => F[f[n]] = f[n]
    BY <2>2, FS_Subset
  <2>4. Cardinality(f[n]) \in Nat /\ Cardinality(F[f[n]]) \in Nat
    BY <1>2, <2>2, FS_CardinalityType
  <2> QED BY <1>7, <2>3, <2>4
<1>10. 0 \in P  BY <1>1, <1>8
<1>11. ASSUME NEW n \in Nat, n \in P PROVE n + 1 \in P
  <2>1. CASE n + 1 <= K
    <3>1. n \in 0..K - 1 /\ n \in 0..K /\ Cardinality(f[n]) >= Cardinality(a) + n
      BY <1>11, <2>1
    <3>2. Cardinality(f[n + 1]) >= Cardinality(f[n]) + 1  BY <1>1, <1>9, <3>1
    <3>3. Cardinality(f[n]) \in Nat /\ Cardinality(f[n + 1]) \in Nat
      BY <1>2, <2>1, <3>1
    <3> QED BY <1>8, <3>1, <3>2, <3>3
  <2>2. CASE ~ (n + 1 <= K)  BY <2>2
  <2> QED BY <2>1, <2>2
<1>12. Nat \subseteq P
  <2> HIDE DEF P
  <2> QED BY <1>10, <1>11, AllNumbers
<1>13. Cardinality(f[K]) >= Cardinality(a) + K  BY <1>12
<1>14. Cardinality(F[f[K]]) <= Cardinality(S) /\ Cardinality(F[f[K]]) \in Nat
  <2>1. F[f[K]] \in SUBSET S  BY <1>1
  <2> QED BY <2>1, FS_Subset, FS_CardinalityType
<1>15. /\ Cardinality(F[f[K]]) >= Cardinality(f[K]) + 1
       /\ Cardinality(f[K]) \in Nat /\ Cardinality(S) \in Nat
  BY <1>2, <1>9, FS_CardinalityType
<1> QED BY <1>8, <1>13, <1>14, <1>15

Grows(S, F, a, K) ==
  /\ IsFiniteSet(S) /\ F \in [SUBSET S -> SUBSET S]
  /\ Inflationary(S, F) /\ Monotone(S, F)
  /\ a \in SUBSET S /\ K \in Nat /\ Cardinality(S) <= Cardinality(a) + K

\* T is the least set with a that F does not enlarge.
IsLeastClosed(S, F, a, T) ==
  /\ T \in SUBSET S /\ a \subseteq T /\ F[T] = T
  /\ \A X \in SUBSET S : a \subseteq X /\ F[X] \subseteq X => T \subseteq X

LEMMA LeastClosed ==
  ASSUME NEW S, NEW F, NEW a, NEW K, Grows(S, F, a, K), NEW f, Iterated(F, a, K, f)
  PROVE  IsLeastClosed(S, F, a, f[K])
<1>0. /\ IsFiniteSet(S) /\ F \in [SUBSET S -> SUBSET S]
      /\ Inflationary(S, F) /\ Monotone(S, F)
      /\ a \in SUBSET S /\ K \in Nat /\ Cardinality(S) <= Cardinality(a) + K
  BY DEF Grows
<1>1. /\ f \in [0..K -> SUBSET S] /\ f[0] = a
      /\ \A n \in 0..K - 1 : f[n + 1] = F[f[n]]
  <2> DEFINE T == SUBSET S
  <2>1. F \in [T -> T] /\ a \in T  BY <1>0
  <2> HIDE DEF T
  <2>2. /\ f \in [0..K -> T] /\ f[0] = a
        /\ \A n \in 0..K - 1 : f[n + 1] = F[f[n]]
    BY <1>0, <2>1, IteratedType
  <2> QED BY <2>2 DEF T
<1>2. F[f[K]] = f[K]  BY <1>0, Saturates
<1> DEFINE P == {n \in Nat : n <= K => a \subseteq f[n]}
<1>3. 0 \in P  BY <1>1
<1>4. ASSUME NEW n \in Nat, n \in P PROVE n + 1 \in P
  <2>1. CASE n + 1 <= K
    <3>1. n \in 0..K - 1 /\ a \subseteq f[n] /\ f[n] \in SUBSET S  BY <1>0, <1>1, <1>4, <2>1
    <3>2. f[n] \subseteq f[n + 1]  BY <1>0, <1>1, <3>1 DEF Inflationary
    <3> QED BY <3>1, <3>2
  <2>2. CASE ~ (n + 1 <= K)  BY <2>2
  <2> QED BY <2>1, <2>2
<1>5. Nat \subseteq P
  <2> HIDE DEF P
  <2> QED BY <1>3, <1>4, AllNumbers
<1>6. a \subseteq f[K]  BY <1>0, <1>5
<1> HIDE DEF P
<1>7. ASSUME NEW X \in SUBSET S, a \subseteq X, F[X] \subseteq X PROVE f[K] \subseteq X
  <2> DEFINE Q == {n \in Nat : n <= K => f[n] \subseteq X}
  <2>1. 0 \in Q  BY <1>1, <1>7
  <2>2. ASSUME NEW n \in Nat, n \in Q PROVE n + 1 \in Q
    <3>1. CASE n + 1 <= K
      <4>1. n \in 0..K - 1 /\ f[n] \subseteq X /\ f[n] \in SUBSET S
        BY <1>0, <1>1, <2>2, <3>1
      <4>2. F[f[n]] \subseteq F[X]  BY <1>0, <4>1 DEF Monotone
      <4>3. f[n + 1] \subseteq X  BY <1>1, <1>7, <4>1, <4>2
      <4> QED BY <4>3
    <3>2. CASE ~ (n + 1 <= K)  BY <3>2
    <3> QED BY <3>1, <3>2
  <2>3. Nat \subseteq Q
    <3> HIDE DEF Q
    <3> QED BY <2>1, <2>2, AllNumbers
  <2> QED BY <1>0, <2>3
<1> QED BY <1>0, <1>1, <1>2, <1>6, <1>7 DEF IsLeastClosed

-----------------------------------------------------------------------------
(* What a symbol reaches.                                                   *)

LEMMA ReachedLeast ==
  ASSUME NEW D, IsFiniteSet(D), NEW succ \in [D -> SUBSET D], NEW s \in D
  PROVE  /\ Reached(succ, s) \in SUBSET D /\ s \in Reached(succ, s)
         /\ \A x \in Reached(succ, s) : succ[x] \subseteq Reached(succ, s)
         /\ \A X \in SUBSET D :
              s \in X /\ (\A x \in X : succ[x] \subseteq X) => Reached(succ, s) \subseteq X
<1> DEFINE K == Cardinality(D)
           F == [X \in SUBSET D |-> X \cup UNION {succ[x] : x \in X}]
           Is(f) == f = [n \in 0..K |-> IF n = 0 THEN {s}
                           ELSE f[n - 1] \cup UNION {succ[x] : x \in f[n - 1]}]
           within == CHOOSE f : Is(f)
<1>1. K \in Nat /\ DOMAIN succ = D  BY FS_CardinalityType
<1>2. F \in [SUBSET D -> SUBSET D] /\ {s} \in SUBSET D  OBVIOUS
<1>3. Inflationary(D, F) /\ Monotone(D, F)
  BY DEF Inflationary, Monotone
<1>4. Reached(succ, s) = within[K]  BY <1>1 DEF Reached
<1>5. \E f : Is(f)
  <2>1. PICK f \in [0..K -> SUBSET D] : Iterated(F, {s}, K, f)
    <3> DEFINE T == SUBSET D
    <3>1. F \in [T -> T] /\ {s} \in T  BY <1>2
    <3> HIDE DEF T, F
    <3>2. \E f \in [0..K -> T] : Iterated(F, {s}, K, f)  BY <1>1, <3>1, Iterates
    <3> QED BY <3>2 DEF T
  <2>2. ASSUME NEW n \in 0..K, n # 0
        PROVE  F[f[n - 1]] = f[n - 1] \cup UNION {succ[x] : x \in f[n - 1]}
    <3>1. n - 1 \in 0..K  BY <1>1, <2>2
    <3>2. f[n - 1] \in SUBSET D  BY <3>1
    <3> QED BY <3>2
  <2>3. f = [n \in 0..K |-> IF n = 0 THEN {s} ELSE F[f[n - 1]]]  BY <2>1 DEF Iterated
  <2> HIDE DEF F
  <2>4. Is(f)  BY <2>2, <2>3
  <2> QED BY <2>4
<1>6. Is(within)
  <2> HIDE DEF Is
  <2> QED BY <1>5
<1> HIDE DEF within
\* The rounds stay within D, so F describes them.
<1>7. \A n \in 0..K : within[n] \in SUBSET D
  <2> DEFINE P == {n \in Nat : n <= K => within[n] \in SUBSET D}
  <2>1. 0 \in P  BY <1>1, <1>6
  <2>2. ASSUME NEW n \in Nat, n \in P PROVE n + 1 \in P
    <3>1. CASE n + 1 <= K
      <4>1. within[n] \in SUBSET D  BY <2>2, <3>1, <1>1
      <4>2. n + 1 \in 0..K /\ n + 1 # 0 /\ n + 1 - 1 = n  BY <1>1, <3>1
      <4>3. within[n + 1] = within[n] \cup UNION {succ[x] : x \in within[n]}
        <5> DEFINE E(m) == within[m - 1] \cup UNION {succ[x] : x \in within[m - 1]}
        <5>1. within = [m \in 0..K |-> IF m = 0 THEN {s} ELSE E(m)]  BY <1>6
        <5> HIDE DEF E, K
        <5>2. within[n + 1] = E(n + 1)  BY <4>2, <5>1
        <5> QED BY <4>2, <5>2 DEF E
      <4>4. within[n + 1] \in SUBSET D  BY <4>1, <4>3
      <4> QED BY <4>4
    <3>2. CASE ~ (n + 1 <= K)  BY <3>2
    <3> QED BY <3>1, <3>2
  <2>3. Nat \subseteq P
    <3> HIDE DEF P
    <3> QED BY <2>1, <2>2, AllNumbers
  <2> HIDE DEF K
  <2> QED BY <1>1, <2>3
<1>8. Iterated(F, {s}, K, within)
  <2>1. ASSUME NEW n \in 0..K, n # 0
        PROVE  F[within[n - 1]] = within[n - 1] \cup UNION {succ[x] : x \in within[n - 1]}
    <3>1. n - 1 \in 0..K  BY <1>1, <2>1
    <3>2. within[n - 1] \in SUBSET D  BY <1>7, <3>1
    <3> QED BY <3>2
  <2>2. within = [n \in 0..K |-> IF n = 0 THEN {s}
                    ELSE within[n - 1] \cup UNION {succ[x] : x \in within[n - 1]}]
    BY <1>6
  <2>3. within = [n \in 0..K |-> IF n = 0 THEN {s} ELSE F[within[n - 1]]]
    <3> HIDE DEF F, K
    <3> QED BY <2>1, <2>2
  <2> QED BY <2>3 DEF Iterated
<1>9. Cardinality(D) <= Cardinality({s}) + K
  <2>1. Cardinality({s}) = 1  BY FS_Singleton
  <2> HIDE DEF K
  <2>2. K <= 1 + K  BY <1>1
  <2> QED BY <2>1, <2>2 DEF K
<1>10. /\ within[K] \in SUBSET D /\ {s} \subseteq within[K] /\ F[within[K]] = within[K]
       /\ \A X \in SUBSET D : {s} \subseteq X /\ F[X] \subseteq X => within[K] \subseteq X
  <2> DEFINE a == {s}
  <2>1. Grows(D, F, a, K) /\ Iterated(F, a, K, within)
    BY <1>1, <1>2, <1>3, <1>8, <1>9 DEF Grows
  <2> HIDE DEF F, K, a
  <2>2. /\ within[K] \in SUBSET D /\ a \subseteq within[K] /\ F[within[K]] = within[K]
        /\ \A X \in SUBSET D : a \subseteq X /\ F[X] \subseteq X => within[K] \subseteq X
    BY <2>1, LeastClosed DEF IsLeastClosed
  <2> QED BY <2>2 DEF a
<1>11. ASSUME NEW x \in within[K] PROVE succ[x] \subseteq within[K]
  <2>1. F[within[K]] = within[K] \cup UNION {succ[y] : y \in within[K]}  BY <1>10
  <2> QED BY <1>10, <2>1
<1>12. ASSUME NEW X \in SUBSET D, s \in X, \A x \in X : succ[x] \subseteq X
       PROVE  within[K] \subseteq X
  <2>1. F[X] \subseteq X  BY <1>12
  <2> QED BY <1>10, <1>12, <2>1
<1> QED BY <1>4, <1>10, <1>11, <1>12

-----------------------------------------------------------------------------
(* What the assumptions on the grammars say of a rule.                      *)

Places(t) == DOMAIN Tools[t].rules
HeadOf(t, i) == Tools[t].rules[i].head
Body(t, i) == Tools[t].rules[i].derived

LEMMA SymbolFacts ==
  ASSUME NEW t \in DOMAIN Tools
  PROVE  /\ IsFiniteSet(SymbolsOf[t]) /\ IsFiniteSet(HeadsOf[t])
         /\ HeadsOf[t] \subseteq SymbolsOf[t] /\ Tools[t].terminals \subseteq SymbolsOf[t]
         /\ HeadsOf[t] \cap Tools[t].terminals = {}
         /\ Empty \in Tools[t].terminals /\ Eof \in Tools[t].terminals
         /\ Empty # Eof
<1>1. /\ IsFiniteSet(SymbolsOf[t]) /\ {Empty, Eof} \subseteq Tools[t].terminals
      /\ HeadsOf[t] \cap Tools[t].terminals = {}
  BY GrammarsAssumption
<1>2. HeadsOf[t] \subseteq SymbolsOf[t] /\ Tools[t].terminals \subseteq SymbolsOf[t]
  BY DEF HeadsOf, SymbolsOf
<1> QED BY <1>1, <1>2, FS_Subset DEF Empty, Eof

LEMMA OfSomething ==
  ASSUME NEW R, NEW s \in Seq(R), s # <<>>
  PROVE  /\ Len(s) \in Nat /\ Len(s) >= 1 /\ DOMAIN s = 1..Len(s)
         /\ \A k \in 1..Len(s) : s[k] \in R
OBVIOUS

LEMMA RuleFacts ==
  ASSUME NEW t \in DOMAIN Tools
  PROVE  /\ Len(Tools[t].rules) \in Nat /\ Places(t) = 1..Len(Tools[t].rules)
         /\ 1 \in Places(t)
         /\ \A i \in Places(t) :
              /\ HeadOf(t, i) \in HeadsOf[t]
              /\ Body(t, i) \in Seq(SymbolsOf[t])
              /\ Len(Body(t, i)) \in Nat /\ Len(Body(t, i)) >= 1
              /\ DOMAIN Body(t, i) = 1..Len(Body(t, i))
              /\ \A k \in 1..Len(Body(t, i)) :
                   /\ Body(t, i)[k] \in SymbolsOf[t]
                   /\ Body(t, i)[k] = Empty => Len(Body(t, i)) = 1
<1> DEFINE S == SymbolsOf[t]
           R == [head : S, derived : Seq(S) \ {<<>>}]
           rules == Tools[t].rules
<1>1. /\ rules \in Seq(R) /\ rules # <<>>
      /\ \A i \in DOMAIN rules :
           Empty \in Elements(rules[i].derived) => rules[i].derived = <<Empty>>
  BY GrammarsAssumption
<1>2. /\ Len(rules) \in Nat /\ DOMAIN rules = 1..Len(rules) /\ Len(rules) >= 1
      /\ \A i \in 1..Len(rules) : rules[i] \in R
  <2>1. rules \in Seq(R) /\ rules # <<>>  BY <1>1
  <2> HIDE DEF R, rules
  <2> QED BY <2>1, OfSomething
<1>3. ASSUME NEW i \in DOMAIN rules
      PROVE  rules[i].head \in S /\ rules[i].derived \in Seq(S) /\ rules[i].derived # <<>>
  <2>1. rules[i] \in R  BY <1>2
  <2> HIDE DEF S, rules
  <2> QED BY <2>1
<1>4. ASSUME NEW i \in DOMAIN rules
      PROVE  /\ HeadOf(t, i) \in HeadsOf[t]
             /\ Body(t, i) \in Seq(S)
             /\ Len(Body(t, i)) \in Nat /\ Len(Body(t, i)) >= 1
             /\ DOMAIN Body(t, i) = 1..Len(Body(t, i))
             /\ \A k \in 1..Len(Body(t, i)) :
                  /\ Body(t, i)[k] \in S
                  /\ Body(t, i)[k] = Empty => Len(Body(t, i)) = 1
  <2> DEFINE d == rules[i].derived
  <2>1. HeadOf(t, i) \in HeadsOf[t]  BY DEF HeadOf, HeadsOf
  <2>2. d \in Seq(S) /\ d # <<>> /\ (Empty \in Elements(d) => d = <<Empty>>)
    BY <1>1, <1>3
  <2>3. Body(t, i) = d  BY DEF Body
  <2> HIDE DEF d, S
  <2>4. Len(d) \in Nat /\ Len(d) >= 1 /\ DOMAIN d = 1..Len(d)
        /\ \A k \in 1..Len(d) : d[k] \in S
    BY <2>2, OfSomething
  <2>5. ASSUME NEW k \in 1..Len(d), d[k] = Empty PROVE Len(d) = 1
    <3>1. Empty \in Elements(d)  BY <2>4, <2>5 DEF Elements
    <3>2. d = <<Empty>>  BY <2>2, <3>1
    <3> QED BY <3>2
  <2> QED BY <2>1, <2>2, <2>3, <2>4, <2>5
<1> QED BY <1>2, <1>4 DEF Places

-----------------------------------------------------------------------------
(* The nonterminals that derive the empty word.                             *)

\* The heads of the rules that derive nothing but elements are elements.
EmptyWithin(t, X) ==
    /\ Empty \in X
    /\ \A i \in Places(t) :
          (\A k \in 1..Len(Body(t, i)) : Body(t, i)[k] \in X) => HeadOf(t, i) \in X

LEMMA NullableLeast ==
  ASSUME NEW t \in DOMAIN Tools
  PROVE  /\ EmptyWithin(t, NullableOf[t]) /\ NullableOf[t] \subseteq {Empty} \cup HeadsOf[t]
         /\ \A X : EmptyWithin(t, X) => NullableOf[t] \subseteq X
<1> DEFINE H == HeadsOf[t]
           S == {Empty} \cup H
           K == Cardinality(H)
           E(lower) == {h \in H : \E i \in RulesOf(Tools[t], h) :
                                    Elements(Tools[t].rules[i].derived) \subseteq lower}
           F == [X \in SUBSET S |-> X \cup E(X)]
           Is(f) == f = [n \in 0..K |-> IF n = 0 THEN {Empty} ELSE f[n - 1] \cup E(f[n - 1])]
           within == CHOOSE f : Is(f)
<1>0. IsFiniteSet(H) /\ K \in Nat /\ Empty \notin H
  BY SymbolFacts, FS_CardinalityType
<1>1. NullableOf[t] = within[K]  BY DEF NullableOf
<1>2. F \in [SUBSET S -> SUBSET S] /\ {Empty} \in SUBSET S  OBVIOUS
<1>3. Inflationary(S, F) /\ Monotone(S, F)
  BY DEF Inflationary, Monotone
<1>4. IsFiniteSet(S) /\ Cardinality(S) <= Cardinality({Empty}) + K
  <2>1. IsFiniteSet(S) /\ Cardinality(S) = K + 1  BY <1>0, FS_AddElement
  <2>2. Cardinality({Empty}) = 1  BY FS_Singleton
  <2> HIDE DEF S, K
  <2>3. K + 1 <= 1 + K  BY <1>0
  <2> QED BY <2>1, <2>2, <2>3
<1>5. \E f : Is(f)
  <2>1. PICK f \in [0..K -> SUBSET S] : Iterated(F, {Empty}, K, f)
    <3> DEFINE T == SUBSET S
    <3>1. F \in [T -> T] /\ {Empty} \in T  BY <1>2
    <3> HIDE DEF T, F, K
    <3>2. \E f \in [0..K -> T] : Iterated(F, {Empty}, K, f)  BY <1>0, <3>1, Iterates
    <3> QED BY <3>2 DEF T
  <2>2. ASSUME NEW n \in 0..K, n # 0 PROVE F[f[n - 1]] = f[n - 1] \cup E(f[n - 1])
    <3>1. n - 1 \in 0..K  BY <1>0, <2>2
    <3>2. f[n - 1] \in SUBSET S  BY <3>1
    <3> HIDE DEF E
    <3> QED BY <3>2
  <2>3. f = [n \in 0..K |-> IF n = 0 THEN {Empty} ELSE F[f[n - 1]]]  BY <2>1 DEF Iterated
  <2> HIDE DEF F, E
  <2>4. Is(f)  BY <2>2, <2>3
  <2> QED BY <2>4
<1>6. Is(within)
  <2> HIDE DEF Is
  <2> QED BY <1>5
<1> HIDE DEF within
\* The rounds stay within the heads and the empty word, so F describes them.
<1>7. \A n \in 0..K : within[n] \in SUBSET S
  <2> DEFINE P == {n \in Nat : n <= K => within[n] \in SUBSET S}
             R(m) == within[m - 1] \cup E(within[m - 1])
  <2>0. within = [n \in 0..K |-> IF n = 0 THEN {Empty} ELSE R(n)]  BY <1>6
  <2>1. 0 \in P
    <3> HIDE DEF R, K
    <3> QED BY <1>0, <2>0
  <2>2. ASSUME NEW n \in Nat, n \in P PROVE n + 1 \in P
    <3>1. CASE n + 1 <= K
      <4>1. within[n] \in SUBSET S
        <5> HIDE DEF K, E, R
        <5> QED BY <2>2, <3>1, <1>0
      <4>2. n + 1 \in 0..K /\ n + 1 # 0 /\ n + 1 - 1 = n
        <5> HIDE DEF K
        <5> QED BY <1>0, <3>1
      <4>3. within[n + 1] = R(n + 1)
        <5> HIDE DEF R, K
        <5> QED BY <2>0, <4>2
      <4>4. within[n + 1] = within[n] \cup E(within[n])  BY <4>2, <4>3
      <4>5. within[n + 1] \in SUBSET S  BY <4>1, <4>4
      <4> QED BY <4>5
    <3>2. CASE ~ (n + 1 <= K)  BY <3>2
    <3> QED BY <3>1, <3>2
  <2>3. Nat \subseteq P
    <3> HIDE DEF P
    <3> QED BY <2>1, <2>2, AllNumbers
  <2> HIDE DEF K
  <2> QED BY <1>0, <2>3
<1>8. Iterated(F, {Empty}, K, within)
  <2>1. ASSUME NEW n \in 0..K, n # 0
        PROVE  F[within[n - 1]] = within[n - 1] \cup E(within[n - 1])
    <3>1. n - 1 \in 0..K  BY <1>0, <2>1
    <3>2. within[n - 1] \in SUBSET S  BY <1>7, <3>1
    <3> HIDE DEF E
    <3> QED BY <3>2
  <2>2. within = [n \in 0..K |-> IF n = 0 THEN {Empty} ELSE within[n - 1] \cup E(within[n - 1])]
    BY <1>6
  <2>3. within = [n \in 0..K |-> IF n = 0 THEN {Empty} ELSE F[within[n - 1]]]
    <3> HIDE DEF F, K, E
    <3> QED BY <2>1, <2>2
  <2> QED BY <2>3 DEF Iterated
<1>10. /\ within[K] \in SUBSET S /\ Empty \in within[K] /\ F[within[K]] = within[K]
       /\ \A X \in SUBSET S : Empty \in X /\ F[X] \subseteq X => within[K] \subseteq X
  <2> DEFINE a == {Empty}
  <2>1. Grows(S, F, a, K) /\ Iterated(F, a, K, within)
    BY <1>0, <1>2, <1>3, <1>4, <1>8 DEF Grows
  <2> HIDE DEF F, K, a
  <2>2. /\ within[K] \in SUBSET S /\ a \subseteq within[K] /\ F[within[K]] = within[K]
        /\ \A X \in SUBSET S : a \subseteq X /\ F[X] \subseteq X => within[K] \subseteq X
    BY <2>1, LeastClosed DEF IsLeastClosed
  <2> QED BY <2>2 DEF a
\* What F adds to a set, rule by rule.
<1>11. ASSUME NEW X, NEW i \in Places(t), \A k \in 1..Len(Body(t, i)) : Body(t, i)[k] \in X
       PROVE  HeadOf(t, i) \in E(X)
  <2>1. HeadOf(t, i) \in H /\ DOMAIN Body(t, i) = 1..Len(Body(t, i))  BY RuleFacts
  <2>2. i \in RulesOf(Tools[t], HeadOf(t, i))  BY DEF RulesOf, HeadOf, Places
  <2>3. Elements(Tools[t].rules[i].derived) \subseteq X
    BY <1>11, <2>1 DEF Elements, Body
  <2> QED BY <2>1, <2>2, <2>3
<1>12. ASSUME NEW X, NEW h \in E(X)
       PROVE  \E i \in Places(t) : /\ HeadOf(t, i) = h
                                   /\ \A k \in 1..Len(Body(t, i)) : Body(t, i)[k] \in X
  <2>1. PICK i \in RulesOf(Tools[t], h) : Elements(Tools[t].rules[i].derived) \subseteq X
    OBVIOUS
  <2>2. i \in Places(t) /\ HeadOf(t, i) = h  BY DEF RulesOf, Places, HeadOf
  <2>3. DOMAIN Body(t, i) = 1..Len(Body(t, i))  BY <2>2, RuleFacts
  <2>4. \A k \in 1..Len(Body(t, i)) : Body(t, i)[k] \in X  BY <2>1, <2>3 DEF Elements, Body
  <2> QED BY <2>2, <2>4
<1>13. ASSUME NEW i \in Places(t), \A k \in 1..Len(Body(t, i)) : Body(t, i)[k] \in within[K]
       PROVE  HeadOf(t, i) \in within[K]
  <2>1. HeadOf(t, i) \in E(within[K])
    <3> HIDE DEF E, K
    <3> QED BY <1>11, <1>13
  <2>2. F[within[K]] = within[K] \cup E(within[K])
    <3> HIDE DEF E, K
    <3> QED BY <1>10
  <2> QED BY <1>10, <2>1, <2>2
<1>14. ASSUME NEW X, Empty \in X,
              \A i \in Places(t) :
                (\A k \in 1..Len(Body(t, i)) : Body(t, i)[k] \in X) => HeadOf(t, i) \in X
       PROVE  within[K] \subseteq X
  <2> DEFINE Y == X \cap S
  <2>1. Y \in SUBSET S /\ Empty \in Y  BY <1>14
  <2>2. ASSUME NEW h \in E(Y) PROVE h \in Y
    <3>1. PICK i \in Places(t) : /\ HeadOf(t, i) = h
                                 /\ \A k \in 1..Len(Body(t, i)) : Body(t, i)[k] \in Y
      <4> HIDE DEF E
      <4> QED BY <1>12, <2>2
    <3>2. h \in X  BY <1>14, <3>1
    <3>3. h \in H  BY <2>2
    <3> QED BY <3>2, <3>3
  <2>3. F[Y] \subseteq Y
    <3>1. F[Y] = Y \cup E(Y)  BY <2>1
    <3> HIDE DEF E
    <3> QED BY <2>2, <3>1
  <2>4. within[K] \subseteq Y
    <3> HIDE DEF K, F, Y
    <3> QED BY <1>10, <2>1, <2>3
  <2> QED BY <2>4
<1>15. \A X : EmptyWithin(t, X) => within[K] \subseteq X
  <2> HIDE DEF K
  <2> QED BY <1>14 DEF EmptyWithin
<1>16. EmptyWithin(t, within[K])
  <2> HIDE DEF K
  <2> QED BY <1>10, <1>13 DEF EmptyWithin
<1> QED
  <2> HIDE DEF K, F
  <2> QED BY <1>1, <1>10, <1>15, <1>16

-----------------------------------------------------------------------------
(* The First sets: FirstOf is the least family closed under the rules.      *)

\* Only nullable symbols stand before the place.
InFront(t, i, k) == \A j \in 1..k - 1 : Body(t, i)[j] \in NullableOf[t]

LEMMA BeginsFacts ==
  ASSUME NEW t \in DOMAIN Tools
  PROVE  /\ BeginsOf[t] \in [SymbolsOf[t] -> SUBSET SymbolsOf[t]]
         /\ \A i \in Places(t) : \A k \in 1..Len(Body(t, i)) :
              InFront(t, i, k) => Body(t, i)[k] \in BeginsOf[t][HeadOf(t, i)]
         /\ \A s \in SymbolsOf[t] : \A y \in BeginsOf[t][s] :
              \E i \in Places(t) : \E k \in 1..Len(Body(t, i)) :
                HeadOf(t, i) = s /\ Body(t, i)[k] = y /\ InFront(t, i, k)
<1> DEFINE In(i) == {Tools[t].rules[i].derived[k] : k \in Front(t, Tools[t].rules[i].derived)}
           B(s) == UNION {In(i) : i \in RulesOf(Tools[t], s)}
<1>1. BeginsOf[t] = [s \in SymbolsOf[t] |-> B(s)]  BY DEF BeginsOf
<1>2. ASSUME NEW i \in Places(t)
      PROVE  /\ \A k \in 1..Len(Body(t, i)) : InFront(t, i, k) => Body(t, i)[k] \in In(i)
             /\ \A y \in In(i) : \E k \in 1..Len(Body(t, i)) :
                  Body(t, i)[k] = y /\ InFront(t, i, k)
  <2>1. Front(t, Body(t, i)) = {k \in 1..Len(Body(t, i)) : InFront(t, i, k)}
    BY RuleFacts DEF Front, InFront
  <2>2. In(i) = {Body(t, i)[k] : k \in Front(t, Body(t, i))}  BY DEF Body
  <2> HIDE DEF In
  <2> QED BY <2>1, <2>2
<1>3. \A s : RulesOf(Tools[t], s) = {i \in Places(t) : HeadOf(t, i) = s}
  BY DEF RulesOf, Places, HeadOf
<1>4. ASSUME NEW s \in SymbolsOf[t], NEW y \in B(s)
      PROVE  \E i \in Places(t) : \E k \in 1..Len(Body(t, i)) :
               HeadOf(t, i) = s /\ Body(t, i)[k] = y /\ InFront(t, i, k)
  <2>1. PICK i \in RulesOf(Tools[t], s) : y \in In(i)  OBVIOUS
  <2> HIDE DEF In
  <2> QED BY <1>2, <1>3, <2>1
<1>5. ASSUME NEW s \in SymbolsOf[t], NEW y \in B(s) PROVE y \in SymbolsOf[t]
  <2>1. PICK i \in Places(t) : \E k \in 1..Len(Body(t, i)) : Body(t, i)[k] = y
    <3> HIDE DEF B
    <3> QED BY <1>4, <1>5
  <2> HIDE DEF B
  <2> QED BY <2>1, RuleFacts
<1>6. ASSUME NEW i \in Places(t), NEW k \in 1..Len(Body(t, i)), InFront(t, i, k)
      PROVE  Body(t, i)[k] \in B(HeadOf(t, i))
  <2>1. i \in RulesOf(Tools[t], HeadOf(t, i)) /\ Body(t, i)[k] \in In(i)
    <3> HIDE DEF In
    <3> QED BY <1>2, <1>3, <1>6
  <2> HIDE DEF In
  <2> QED BY <2>1
<1>7. \A i \in Places(t) : HeadOf(t, i) \in SymbolsOf[t]  BY RuleFacts, SymbolFacts
<1> HIDE DEF B
<1> QED BY <1>1, <1>4, <1>5, <1>6, <1>7

LEMMA FirstFacts ==
  ASSUME NEW t \in DOMAIN Tools
  PROVE  /\ FirstOf[t] \in [SymbolsOf[t] -> SUBSET Tools[t].terminals]
         /\ \A s \in SymbolsOf[t] :
              /\ Empty \in FirstOf[t][s] <=> s \in NullableOf[t]
              /\ s \in Tools[t].terminals => s \in FirstOf[t][s]
              /\ \A y \in BeginsOf[t][s] : FirstOf[t][y] \ {Empty} \subseteq FirstOf[t][s]
<1> DEFINE S == SymbolsOf[t]
           N == NullableOf[t]
           Rd(s) == Reached(BeginsOf[t], s)
           Term == Tools[t].terminals
<1>0. IsFiniteSet(S) /\ BeginsOf[t] \in [S -> SUBSET S] /\ Term \subseteq S /\ Empty \in Term
  BY BeginsFacts, SymbolFacts
<1>1. FirstOf[t] = [s \in S |-> ((Rd(s) \cap Term) \ {Empty}) \cup (IF s \in N THEN {Empty} ELSE {})]
  BY DEF FirstOf
<1>2. ASSUME NEW s \in S
      PROVE  /\ Rd(s) \in SUBSET S /\ s \in Rd(s)
             /\ \A x \in Rd(s) : BeginsOf[t][x] \subseteq Rd(s)
             /\ \A X \in SUBSET S :
                  s \in X /\ (\A x \in X : BeginsOf[t][x] \subseteq X) => Rd(s) \subseteq X
  BY <1>0, ReachedLeast
<1>3. ASSUME NEW s \in S, NEW y \in BeginsOf[t][s] PROVE y \in S /\ Rd(y) \subseteq Rd(s)
  <2>1. y \in S /\ y \in Rd(s)  BY <1>0, <1>2, <1>3
  <2> HIDE DEF Rd, S
  <2> QED BY <1>2, <2>1
<1> HIDE DEF Rd, N, Term, S
<1>4. FirstOf[t] \in [S -> SUBSET Term]  BY <1>0, <1>1
<1>5. ASSUME NEW s \in S
      PROVE  /\ Empty \in FirstOf[t][s] <=> s \in N
             /\ s \in Term /\ s # Empty => s \in FirstOf[t][s]
             /\ \A y \in BeginsOf[t][s] : FirstOf[t][y] \ {Empty} \subseteq FirstOf[t][s]
  <2>1. ASSUME NEW y \in BeginsOf[t][s] PROVE FirstOf[t][y] \ {Empty} \subseteq FirstOf[t][s]
    <3>1. y \in S /\ Rd(y) \subseteq Rd(s)  BY <1>3
    <3>2. FirstOf[t][y] \ {Empty} \subseteq (Rd(y) \cap Term) \ {Empty}  BY <1>1, <3>1
    <3> QED BY <1>1, <3>1, <3>2
  <2>2. Empty \in FirstOf[t][s] <=> s \in N  BY <1>1
  <2>3. s \in Term /\ s # Empty => s \in FirstOf[t][s]  BY <1>1, <1>2
  <2> QED BY <2>1, <2>2, <2>3
<1>6. Empty \in N  BY NullableLeast DEF N, EmptyWithin
<1> QED BY <1>4, <1>5, <1>6 DEF N, S, Term

\* What the grammar's First sets give for a sequence, from sets H of symbols.
FirstIn(H, d) ==
    (UNION {H[d[k]] \ {Empty} : k \in {m \in DOMAIN d : \A j \in 1..m - 1 : Empty \in H[d[j]]}})
      \cup (IF \A k \in DOMAIN d : Empty \in H[d[k]] THEN {Empty} ELSE {})

LEMMA FirstInFacts ==
  ASSUME NEW t \in DOMAIN Tools, NEW i \in Places(t), NEW H
  PROVE  /\ \A x : x # Empty => (x \in FirstIn(H, Body(t, i))
              <=> \E k \in 1..Len(Body(t, i)) :
                    x \in H[Body(t, i)[k]] /\ \A j \in 1..k - 1 : Empty \in H[Body(t, i)[j]])
         /\ Empty \in FirstIn(H, Body(t, i))
              <=> \A k \in 1..Len(Body(t, i)) : Empty \in H[Body(t, i)[k]]
<1> DEFINE d == Body(t, i)
           D == {m \in 1..Len(d) : \A j \in 1..m - 1 : Empty \in H[d[j]]}
           U == UNION {H[d[k]] \ {Empty} : k \in D}
<1>1. DOMAIN d = 1..Len(d)  BY RuleFacts
<1>2. FirstIn(H, d) = U \cup (IF \A k \in 1..Len(d) : Empty \in H[d[k]] THEN {Empty} ELSE {})
  <2>1. {m \in DOMAIN d : \A j \in 1..m - 1 : Empty \in H[d[j]]} = D  BY <1>1
  <2>2. (\A k \in DOMAIN d : Empty \in H[d[k]]) <=> \A k \in 1..Len(d) : Empty \in H[d[k]]
    BY <1>1
  <2>3. FirstIn(H, d) = (UNION {H[d[k]] \ {Empty} :
                           k \in {m \in DOMAIN d : \A j \in 1..m - 1 : Empty \in H[d[j]]}})
                          \cup (IF \A k \in DOMAIN d : Empty \in H[d[k]] THEN {Empty} ELSE {})
    BY DEF FirstIn
  <2> HIDE DEF D, d
  <2> QED BY <2>1, <2>2, <2>3
<1>3. \A x : x \in U <=> \E k \in D : x \in H[d[k]] /\ x # Empty  OBVIOUS
<1>4. \A x : x \in U <=> x # Empty /\ \E k \in 1..Len(d) :
                           x \in H[d[k]] /\ \A j \in 1..k - 1 : Empty \in H[d[j]]
  <2> HIDE DEF U, d
  <2> QED BY <1>3
<1> HIDE DEF U, d
<1> QED BY <1>2, <1>4 DEF d

\* Sets that hold nothing but what is derived bring nothing else.
LEMMA FirstClosed ==
  ASSUME NEW t \in DOMAIN Tools, NEW i \in Places(t),
         NEW H \in [SymbolsOf[t] -> SUBSET SymbolsOf[t]],
         \A s \in SymbolsOf[t] : H[s] \subseteq FirstOf[t][s]
  PROVE  FirstIn(H, Body(t, i)) \subseteq FirstOf[t][HeadOf(t, i)]
<1> DEFINE d == Body(t, i)
           S == SymbolsOf[t]
           h == HeadOf(t, i)
<1>1. /\ h \in S /\ \A k \in 1..Len(d) : d[k] \in S /\ Len(d) \in Nat
  BY RuleFacts, SymbolFacts
<1>2. \A k \in 1..Len(d) : Empty \in H[d[k]] => d[k] \in NullableOf[t]  BY <1>1, FirstFacts
<1>3. ASSUME NEW x \in FirstIn(H, d), x # Empty PROVE x \in FirstOf[t][h]
  <2>1. PICK k \in 1..Len(d) : x \in H[d[k]] /\ \A j \in 1..k - 1 : Empty \in H[d[j]]
    <3> HIDE DEF d
    <3> QED BY <1>3, FirstInFacts DEF d
  <2>2. \A j \in 1..k - 1 : j \in 1..Len(d)  BY <1>1
  <2>3. InFront(t, i, k)  BY <1>2, <2>1, <2>2 DEF InFront
  <2>4. d[k] \in BeginsOf[t][h]  BY <2>3, BeginsFacts
  <2>5. x \in FirstOf[t][d[k]] \ {Empty}  BY <1>1, <1>3, <2>1
  <2> HIDE DEF d, h
  <2> QED BY <1>1, <2>4, <2>5, FirstFacts
<1>4. ASSUME Empty \in FirstIn(H, d) PROVE Empty \in FirstOf[t][h]
  <2>1. \A k \in 1..Len(d) : Empty \in H[d[k]]  BY <1>4, FirstInFacts
  <2>2. h \in NullableOf[t]  BY <1>2, <2>1, NullableLeast DEF EmptyWithin
  <2> QED BY <1>1, <2>2, FirstFacts
<1> QED BY <1>3, <1>4

\* Sets that no rule enlarges hold all that is derived.
LEMMA FirstLeast ==
  ASSUME NEW t \in DOMAIN Tools, NEW H \in [SymbolsOf[t] -> SUBSET SymbolsOf[t]],
         \A s \in Tools[t].terminals : s \in H[s],
         \A i \in Places(t) : FirstIn(H, Body(t, i)) \subseteq H[HeadOf(t, i)],
         NEW s \in SymbolsOf[t]
  PROVE  FirstOf[t][s] \subseteq H[s]
<1> DEFINE S == SymbolsOf[t]
<1>0. /\ Tools[t].terminals \subseteq S /\ Empty \in Tools[t].terminals
      /\ HeadsOf[t] \subseteq S /\ IsFiniteSet(S)
  BY SymbolFacts
<1>1. NullableOf[t] \subseteq {x \in S : Empty \in H[x]}
  <2> DEFINE X == {x \in S : Empty \in H[x]}
  <2>1. Empty \in X  BY <1>0
  <2>2. ASSUME NEW i \in Places(t), \A k \in 1..Len(Body(t, i)) : Body(t, i)[k] \in X
        PROVE  HeadOf(t, i) \in X
    <3>1. Empty \in FirstIn(H, Body(t, i))  BY <2>2, FirstInFacts
    <3>2. HeadOf(t, i) \in S  BY <1>0, RuleFacts
    <3> QED BY <3>1, <3>2
  <2>3. EmptyWithin(t, X)
    <3> HIDE DEF X
    <3> QED BY <2>1, <2>2 DEF EmptyWithin
  <2>4. NullableOf[t] \subseteq X
    <3> HIDE DEF X
    <3> QED BY <2>3, NullableLeast
  <2> QED BY <2>4
<1>2. ASSUME NEW x \in S, NEW y \in BeginsOf[t][x] PROVE y \in S /\ H[y] \ {Empty} \subseteq H[x]
  <2>0. PICK i \in Places(t) : \E k \in 1..Len(Body(t, i)) :
          HeadOf(t, i) = x /\ Body(t, i)[k] = y /\ InFront(t, i, k)
    BY <1>2, BeginsFacts
  <2>1. PICK k \in 1..Len(Body(t, i)) :
          HeadOf(t, i) = x /\ Body(t, i)[k] = y /\ InFront(t, i, k)
    BY <2>0
  <2>2. y \in S  BY <2>1, RuleFacts
  <2>3. \A j \in 1..k - 1 : Empty \in H[Body(t, i)[j]]  BY <1>1, <2>1 DEF InFront
  <2>4. ASSUME NEW z \in H[y], z # Empty PROVE z \in H[x]
    <3>1. z \in FirstIn(H, Body(t, i))  BY <2>1, <2>3, <2>4, FirstInFacts
    <3> QED BY <2>1, <3>1
  <2> QED BY <2>2, <2>4
<1> DEFINE X == {x \in S : H[x] \ {Empty} \subseteq H[s]}
<1>3. s \in X  OBVIOUS
<1>4. ASSUME NEW x \in X PROVE BeginsOf[t][x] \subseteq X
  BY <1>2
<1>5. Reached(BeginsOf[t], s) \subseteq X
  <2>1. X \in SUBSET S /\ BeginsOf[t] \in [S -> SUBSET S]  BY BeginsFacts
  <2> HIDE DEF X, S
  <2> QED BY <1>0, <1>3, <1>4, <2>1, ReachedLeast DEF S
<1>6. FirstOf[t][s] = ((Reached(BeginsOf[t], s) \cap Tools[t].terminals) \ {Empty})
                        \cup (IF s \in NullableOf[t] THEN {Empty} ELSE {})
  BY DEF FirstOf
<1>7. ASSUME NEW x \in Reached(BeginsOf[t], s), x \in Tools[t].terminals, x # Empty
      PROVE  x \in H[s]
  BY <1>5, <1>7
<1>8. s \in NullableOf[t] => Empty \in H[s]  BY <1>1
<1> QED BY <1>6, <1>7, <1>8

-----------------------------------------------------------------------------
(* The Follow sets: FollowOf is the least family closed under the rules.    *)

NullableFrom(t, i, k, j) == \A m \in k + 1..j : Body(t, i)[m] \in NullableOf[t]

\* The symbol can come after the k-th symbol of the rule, where H tells what
\* comes after the heads.
ComesAfter(t, H, i, k, x) ==
    \/ \E j \in k + 1..Len(Body(t, i)) :
          NullableFrom(t, i, k, j - 1) /\ x # Empty /\ x \in FirstOf[t][Body(t, i)[j]]
    \/ NullableFrom(t, i, k, Len(Body(t, i))) /\ x \in H[HeadOf(t, i)]

LEMMA EndsFacts ==
  ASSUME NEW t \in DOMAIN Tools
  PROVE  /\ EndsOf[t] \in [SymbolsOf[t] -> SUBSET SymbolsOf[t]]
         /\ \A s \in SymbolsOf[t] : EndsOf[t][s] \subseteq HeadsOf[t]
         /\ \A i \in Places(t) : \A k \in 1..Len(Body(t, i)) :
              NullableFrom(t, i, k, Len(Body(t, i))) => HeadOf(t, i) \in EndsOf[t][Body(t, i)[k]]
         /\ \A s \in SymbolsOf[t] : \A h \in EndsOf[t][s] :
              \E i \in Places(t) : \E k \in 1..Len(Body(t, i)) :
                /\ HeadOf(t, i) = h /\ Body(t, i)[k] = s
                /\ NullableFrom(t, i, k, Len(Body(t, i)))
<1> DEFINE Is(s, i) == LET d == Tools[t].rules[i].derived
                       IN  \E k \in DOMAIN d :
                             d[k] = s /\ \A m \in (k + 1)..Len(d) : d[m] \in NullableOf[t]
           E(s) == {h \in HeadsOf[t] : \E i \in RulesOf(Tools[t], h) : Is(s, i)}
<1>1. EndsOf[t] = [s \in SymbolsOf[t] |-> E(s)]  BY DEF EndsOf
<1>2. ASSUME NEW s, NEW i \in Places(t)
      PROVE  Is(s, i) <=> \E k \in 1..Len(Body(t, i)) :
                            Body(t, i)[k] = s /\ NullableFrom(t, i, k, Len(Body(t, i)))
  <2>1. DOMAIN Body(t, i) = 1..Len(Body(t, i))  BY RuleFacts
  <2>2. Is(s, i) <=> \E k \in DOMAIN Body(t, i) :
                       Body(t, i)[k] = s
                         /\ \A m \in k + 1..Len(Body(t, i)) : Body(t, i)[m] \in NullableOf[t]
    BY DEF Body
  <2> HIDE DEF Is
  <2> QED BY <2>1, <2>2 DEF NullableFrom
<1>3. \A h : RulesOf(Tools[t], h) = {i \in Places(t) : HeadOf(t, i) = h}
  BY DEF RulesOf, Places, HeadOf
<1>4. \A s : \A h : h \in E(s) <=> h \in HeadsOf[t] /\ \E i \in Places(t) :
                                      HeadOf(t, i) = h /\ Is(s, i)
  <2> HIDE DEF Is
  <2> QED BY <1>3
<1> HIDE DEF Is, E
<1>5. \A i \in Places(t) : HeadOf(t, i) \in HeadsOf[t] /\ HeadsOf[t] \subseteq SymbolsOf[t]
  BY RuleFacts, SymbolFacts
<1>6. \A i \in Places(t) : \A k \in 1..Len(Body(t, i)) : Body(t, i)[k] \in SymbolsOf[t]
  BY RuleFacts
<1>7. HeadsOf[t] \subseteq SymbolsOf[t]  BY SymbolFacts
<1> QED BY <1>1, <1>2, <1>4, <1>5, <1>6, <1>7

LEMMA AfterFacts ==
  ASSUME NEW t \in DOMAIN Tools, NEW s \in SymbolsOf[t], NEW x
  PROVE  x \in AfterOf[t][s] <=>
           /\ x # Empty
           /\ \E i \in Places(t) : \E k \in 1..Len(Body(t, i)) : \E j \in k + 1..Len(Body(t, i)) :
                /\ Body(t, i)[k] = s /\ NullableFrom(t, i, k, j - 1)
                /\ x \in FirstOf[t][Body(t, i)[j]]
<1> DEFINE At(d) == {m \in DOMAIN d : \E b \in 1..(m - 1) :
                        d[b] = s /\ \A j \in (b + 1)..(m - 1) : d[j] \in NullableOf[t]}
           In(i) == LET d == Tools[t].rules[i].derived
                    IN  UNION {FirstOf[t][d[k]] : k \in At(d)}
           A == UNION {In(i) : i \in DOMAIN Tools[t].rules}
<1>1. AfterOf[t][s] = A \ {Empty}  BY DEF AfterOf
<1>2. ASSUME NEW i \in Places(t)
      PROVE  x \in In(i) <=> \E k \in 1..Len(Body(t, i)) : \E j \in k + 1..Len(Body(t, i)) :
                /\ Body(t, i)[k] = s /\ NullableFrom(t, i, k, j - 1)
                /\ x \in FirstOf[t][Body(t, i)[j]]
  <2> DEFINE d == Body(t, i)
  <2>1. x \in In(i) <=> \E m \in At(d) : x \in FirstOf[t][d[m]]  BY DEF Body
  <2>2. DOMAIN d = 1..Len(d) /\ Len(d) \in Nat  BY RuleFacts
  <2>3. \A m : m \in At(d) <=> m \in 1..Len(d) /\ \E b \in 1..m - 1 :
                  d[b] = s /\ \A j \in b + 1..m - 1 : d[j] \in NullableOf[t]
    BY <2>2
  <2>4. \A m : m \in At(d) <=> m \in 1..Len(d) /\ \E b \in 1..m - 1 :
                  d[b] = s /\ NullableFrom(t, i, b, m - 1)
    BY <2>3 DEF NullableFrom
  <2> HIDE DEF At, In, d
  <2>5. ASSUME NEW m \in At(d), x \in FirstOf[t][d[m]]
        PROVE  \E k \in 1..Len(d) : \E j \in k + 1..Len(d) :
                 d[k] = s /\ NullableFrom(t, i, k, j - 1) /\ x \in FirstOf[t][d[j]]
    <3>1. PICK b \in 1..m - 1 : d[b] = s /\ NullableFrom(t, i, b, m - 1)  BY <2>4, <2>5
    <3>2. m \in 1..Len(d)  BY <2>4, <2>5
    <3>3. b \in 1..Len(d) /\ m \in b + 1..Len(d)  BY <2>2, <3>2
    <3> QED BY <2>5, <3>1, <3>3
  <2>6. ASSUME NEW k \in 1..Len(d), NEW j \in k + 1..Len(d),
               d[k] = s, NullableFrom(t, i, k, j - 1), x \in FirstOf[t][d[j]]
        PROVE  \E m \in At(d) : x \in FirstOf[t][d[m]]
    <3>1. j \in 1..Len(d) /\ k \in 1..j - 1  BY <2>2
    <3>2. j \in At(d)  BY <2>4, <2>6, <3>1
    <3> QED BY <2>6, <3>2
  <2> QED BY <2>1, <2>5, <2>6 DEF d
<1>3. x \in A <=> \E i \in Places(t) : x \in In(i)  BY DEF Places
<1> HIDE DEF In, A
<1> QED BY <1>1, <1>2, <1>3

LEMMA FollowFacts ==
  ASSUME NEW t \in DOMAIN Tools
  PROVE  /\ \A s \in SymbolsOf[t] : AfterOf[t][s] \subseteq FollowOf[t][s]
         /\ Eof \in FollowOf[t][HeadOf(t, 1)]
         /\ \A s \in SymbolsOf[t] : \A h \in EndsOf[t][s] : FollowOf[t][h] \subseteq FollowOf[t][s]
<1> DEFINE S == SymbolsOf[t]
           Rd(s) == Reached(EndsOf[t], s)
           W(s) == (UNION {AfterOf[t][x] : x \in Rd(s)})
                     \cup (IF HeadOf(t, 1) \in Rd(s) THEN {Eof} ELSE {})
<1>0. IsFiniteSet(S) /\ EndsOf[t] \in [S -> SUBSET S] /\ HeadOf(t, 1) \in S
  BY EndsFacts, SymbolFacts, RuleFacts
<1>1. FollowOf[t] = [s \in S |-> W(s)]  BY DEF FollowOf, HeadOf
<1>2. ASSUME NEW s \in S
      PROVE  /\ Rd(s) \in SUBSET S /\ s \in Rd(s)
             /\ \A x \in Rd(s) : EndsOf[t][x] \subseteq Rd(s)
             /\ \A X \in SUBSET S :
                  s \in X /\ (\A x \in X : EndsOf[t][x] \subseteq X) => Rd(s) \subseteq X
  BY <1>0, ReachedLeast
<1>3. ASSUME NEW s \in S, NEW y \in EndsOf[t][s] PROVE y \in S /\ Rd(y) \subseteq Rd(s)
  <2>1. y \in S /\ y \in Rd(s)  BY <1>0, <1>2, <1>3
  <2> HIDE DEF Rd, S
  <2> QED BY <1>2, <2>1
<1> HIDE DEF Rd, S
<1>4. ASSUME NEW s \in S PROVE AfterOf[t][s] \subseteq W(s)  BY <1>2
<1>5. Eof \in W(HeadOf(t, 1))  BY <1>0, <1>2
<1>6. ASSUME NEW s \in S, NEW y \in EndsOf[t][s] PROVE y \in S /\ W(y) \subseteq W(s)
  BY <1>3
<1> HIDE DEF W
<1> QED BY <1>0, <1>1, <1>4, <1>5, <1>6 DEF S

\* What a rule brings from sets that hold only what follows, follows.
LEMMA FollowClosed ==
  ASSUME NEW t \in DOMAIN Tools, NEW H, \A h \in HeadsOf[t] : H[h] \subseteq FollowOf[t][h],
         NEW i \in Places(t), NEW k \in 1..Len(Body(t, i)),
         NEW x, ComesAfter(t, H, i, k, x)
  PROVE  x \in FollowOf[t][Body(t, i)[k]]
<1> DEFINE s == Body(t, i)[k]
<1>1. s \in SymbolsOf[t] /\ HeadOf(t, i) \in HeadsOf[t]  BY RuleFacts
<1>2. CASE \E j \in k + 1..Len(Body(t, i)) :
             NullableFrom(t, i, k, j - 1) /\ x # Empty /\ x \in FirstOf[t][Body(t, i)[j]]
  <2>1. x \in AfterOf[t][s]  BY <1>1, <1>2, AfterFacts
  <2> QED BY <1>1, <2>1, FollowFacts
<1>3. CASE NullableFrom(t, i, k, Len(Body(t, i))) /\ x \in H[HeadOf(t, i)]
  <2>1. HeadOf(t, i) \in EndsOf[t][s]  BY <1>3, EndsFacts
  <2>2. x \in FollowOf[t][HeadOf(t, i)]  BY <1>1, <1>3
  <2> HIDE DEF s
  <2>3. x \in FollowOf[t][s]  BY <1>1, <2>1, <2>2, FollowFacts
  <2> QED BY <2>3 DEF s
<1> QED BY <1>2, <1>3 DEF ComesAfter

\* Sets that no rule enlarges hold all that follows.
FollowGrown(t, H) ==
    /\ Eof \in H[HeadOf(t, 1)]
    /\ \A i \in Places(t) : \A k \in 1..Len(Body(t, i)) : \A x :
          Body(t, i)[k] \in HeadsOf[t] /\ ComesAfter(t, H, i, k, x) => x \in H[Body(t, i)[k]]

LEMMA FollowLeast ==
  ASSUME NEW t \in DOMAIN Tools, NEW H, FollowGrown(t, H), NEW s \in HeadsOf[t]
  PROVE  FollowOf[t][s] \subseteq H[s]
<1> DEFINE S == SymbolsOf[t]
           X == {h \in HeadsOf[t] : H[h] \subseteq H[s]}
<1>0. IsFiniteSet(S) /\ EndsOf[t] \in [S -> SUBSET S] /\ s \in S /\ X \in SUBSET S
  BY EndsFacts, SymbolFacts
<1>1. s \in X  OBVIOUS
<1>2. ASSUME NEW h \in X, NEW y \in EndsOf[t][h] PROVE y \in X
  <2>0. h \in S /\ h \in HeadsOf[t] /\ H[h] \subseteq H[s]  BY <1>0
  <2>1. PICK i \in Places(t) : \E k \in 1..Len(Body(t, i)) :
          /\ HeadOf(t, i) = y /\ Body(t, i)[k] = h
          /\ NullableFrom(t, i, k, Len(Body(t, i)))
    BY <1>2, <2>0, EndsFacts
  <2>2. PICK k \in 1..Len(Body(t, i)) :
          /\ HeadOf(t, i) = y /\ Body(t, i)[k] = h
          /\ NullableFrom(t, i, k, Len(Body(t, i)))
    BY <2>1
  <2>3. y \in HeadsOf[t]  BY <2>2, RuleFacts
  <2>4. ASSUME NEW x \in H[y] PROVE x \in H[h]
    <3>1. ComesAfter(t, H, i, k, x)  BY <2>2 DEF ComesAfter
    <3> QED BY <2>0, <2>2, <3>1 DEF FollowGrown
  <2> QED BY <2>0, <2>3, <2>4
<1>3. Reached(EndsOf[t], s) \subseteq X
  <2> HIDE DEF X
  <2> QED BY <1>0, <1>1, <1>2, ReachedLeast
<1>4. ASSUME NEW h \in X, NEW x \in AfterOf[t][h] PROVE x \in H[s]
  <2>0. h \in S /\ h \in HeadsOf[t] /\ H[h] \subseteq H[s]  BY <1>0
  <2>1. x # Empty /\ \E i \in Places(t) : \E k \in 1..Len(Body(t, i)) :
          \E j \in k + 1..Len(Body(t, i)) :
            /\ Body(t, i)[k] = h /\ NullableFrom(t, i, k, j - 1)
            /\ x \in FirstOf[t][Body(t, i)[j]]
    BY <1>4, <2>0, AfterFacts
  <2>2. PICK i \in Places(t) : \E k \in 1..Len(Body(t, i)) :
          \E j \in k + 1..Len(Body(t, i)) :
            /\ Body(t, i)[k] = h /\ NullableFrom(t, i, k, j - 1)
            /\ x \in FirstOf[t][Body(t, i)[j]]
    BY <2>1
  <2>3. PICK k \in 1..Len(Body(t, i)) : \E j \in k + 1..Len(Body(t, i)) :
            /\ Body(t, i)[k] = h /\ NullableFrom(t, i, k, j - 1)
            /\ x \in FirstOf[t][Body(t, i)[j]]
    BY <2>2
  <2>4. ComesAfter(t, H, i, k, x) /\ Body(t, i)[k] = h  BY <2>1, <2>3 DEF ComesAfter
  <2>5. x \in H[h]  BY <2>0, <2>4 DEF FollowGrown
  <2> QED BY <2>0, <2>5
<1>5. FollowOf[t][s] = (UNION {AfterOf[t][x] : x \in Reached(EndsOf[t], s)})
                         \cup (IF HeadOf(t, 1) \in Reached(EndsOf[t], s) THEN {Eof} ELSE {})
  BY <1>0 DEF FollowOf, HeadOf
<1>6. HeadOf(t, 1) \in X => Eof \in H[s]  BY DEF FollowGrown
<1> HIDE DEF X
<1> QED BY <1>3, <1>4, <1>5, <1>6

-----------------------------------------------------------------------------
(* The set each rule is chosen on.                                          *)

\* First+ as the code has it, from the First and Follow sets of the grammar.
FirstPlusOf(t, i) ==
    FirstOf[t][Body(t, i)[1]]
      \cup (IF Body(t, i)[1] = Empty THEN FollowOf[t][HeadOf(t, i)] ELSE {})

LEMMA EmptyBeginsWithItself ==
  ASSUME NEW t \in DOMAIN Tools
  PROVE  FirstOf[t][Empty] = {Empty}
<1> DEFINE S == SymbolsOf[t]
<1>0. Empty \in S /\ IsFiniteSet(S) /\ BeginsOf[t] \in [S -> SUBSET S] /\ Empty \notin HeadsOf[t]
  BY SymbolFacts, BeginsFacts
<1>1. BeginsOf[t][Empty] = {}
  <2>1. SUFFICES ASSUME NEW y \in BeginsOf[t][Empty] PROVE FALSE  OBVIOUS
  <2>2. PICK i \in Places(t) : \E k \in 1..Len(Body(t, i)) :
          HeadOf(t, i) = Empty /\ Body(t, i)[k] = y /\ InFront(t, i, k)
    BY <1>0, BeginsFacts
  <2>3. HeadOf(t, i) = Empty  BY <2>2
  <2> QED BY <1>0, <2>3, RuleFacts
<1>2. Reached(BeginsOf[t], Empty) \subseteq {Empty}
  <2> DEFINE X == {Empty}
  <2>1. X \in SUBSET S /\ Empty \in X /\ \A x \in X : BeginsOf[t][x] \subseteq X
    BY <1>0, <1>1
  <2>2. Reached(BeginsOf[t], Empty) \subseteq X
    <3> HIDE DEF X, S
    <3> QED BY <1>0, <2>1, ReachedLeast
  <2> QED BY <2>2
<1>3. Empty \in NullableOf[t]  BY NullableLeast DEF EmptyWithin
<1>4. FirstOf[t][Empty] = ((Reached(BeginsOf[t], Empty) \cap Tools[t].terminals) \ {Empty})
                            \cup (IF Empty \in NullableOf[t] THEN {Empty} ELSE {})
  BY <1>0 DEF FirstOf
<1> QED BY <1>2, <1>3, <1>4

LEMMA PredictsFacts ==
  ASSUME NEW t \in DOMAIN Tools, NEW i \in Places(t),
         Body(t, i)[1] = Empty \/ Empty \notin FirstOf[t][Body(t, i)[1]]
  PROVE  /\ Body(t, i)[1] = Empty =>
              FirstPlusOf(t, i) = PredictsOf[t][i] \cup {Empty} /\ Len(Body(t, i)) = 1
         /\ Body(t, i)[1] # Empty =>
              FirstPlusOf(t, i) = PredictsOf[t][i] /\ Empty \notin FirstPlusOf(t, i)
<1> DEFINE d == Body(t, i)
           fronts == UNION {FirstOf[t][d[k]] : k \in Front(t, d)}
<1>0. /\ Len(d) \in Nat /\ Len(d) >= 1 /\ DOMAIN d = 1..Len(d)
      /\ \A k \in 1..Len(d) : d[k] \in SymbolsOf[t]
      /\ d[1] = Empty => Len(d) = 1
  BY RuleFacts
<1>1. PredictsOf[t][i] = (fronts \ {Empty})
          \cup (IF Elements(d) \subseteq NullableOf[t] THEN FollowOf[t][HeadOf(t, i)] ELSE {})
  BY DEF PredictsOf, Body, HeadOf, Places
<1>2. \A k : k \in Front(t, d) <=> k \in 1..Len(d) /\ \A j \in 1..k - 1 : d[j] \in NullableOf[t]
  BY <1>0 DEF Front
<1>3. CASE d[1] = Empty
  <2>1. Empty \in NullableOf[t] /\ FirstOf[t][Empty] = {Empty}
    BY EmptyBeginsWithItself, NullableLeast DEF EmptyWithin
  <2>2. \A k \in 1..Len(d) : d[k] = Empty  BY <1>0, <1>3
  <2>3. Elements(d) \subseteq NullableOf[t]  BY <1>0, <2>1, <2>2 DEF Elements
  <2>4. fronts \ {Empty} = {}
    <3>1. SUFFICES ASSUME NEW x \in fronts, x # Empty PROVE FALSE  OBVIOUS
    <3>2. PICK k \in Front(t, d) : x \in FirstOf[t][d[k]]
      <4> HIDE DEF d
      <4> QED BY <3>1
    <3>3. d[k] = Empty  BY <1>2, <2>2
    <3> HIDE DEF d
    <3> QED BY <2>1, <3>1, <3>2, <3>3
  <2>5. PredictsOf[t][i] = FollowOf[t][HeadOf(t, i)]  BY <1>1, <2>3, <2>4
  <2>6. FirstPlusOf(t, i) = {Empty} \cup FollowOf[t][HeadOf(t, i)]
    BY <1>3, <2>1 DEF FirstPlusOf
  <2> QED BY <1>0, <1>3, <2>5, <2>6
<1>4. CASE d[1] # Empty
  <2>1. Empty \notin FirstOf[t][d[1]]  BY <1>4
  <2>2. d[1] \notin NullableOf[t]  BY <1>0, <2>1, FirstFacts
  <2>3. ~ (Elements(d) \subseteq NullableOf[t])  BY <1>0, <2>2 DEF Elements
  <2>4. \A k : k \in Front(t, d) <=> k = 1
    <3>1. 1 \in Front(t, d)  BY <1>0, <1>2
    <3>2. ASSUME NEW k \in Front(t, d), k # 1 PROVE FALSE
      <4>1. k \in 1..Len(d) /\ \A j \in 1..k - 1 : d[j] \in NullableOf[t]  BY <1>2
      <4>2. 1 \in 1..k - 1  BY <1>0, <3>2, <4>1
      <4> QED BY <2>2, <4>1, <4>2
    <3> QED BY <3>1, <3>2
  <2>5. fronts = FirstOf[t][d[1]]
    <3> HIDE DEF d
    <3> QED BY <2>4
  <2>6. PredictsOf[t][i] = FirstOf[t][d[1]]  BY <1>1, <2>1, <2>3, <2>5
  <2>7. FirstPlusOf(t, i) = FirstOf[t][d[1]]  BY <1>4 DEF FirstPlusOf
  <2> QED BY <1>4, <2>1, <2>6, <2>7
<1> QED BY <1>3, <1>4

LEMMA RulesDiffer ==
  ASSUME NEW t \in DOMAIN Tools, NEW i \in Places(t), NEW j \in Places(t),
         HeadOf(t, i) = HeadOf(t, j), Body(t, i) = Body(t, j)
  PROVE  i = j
<1> DEFINE R == [head : SymbolsOf[t], derived : Seq(SymbolsOf[t]) \ {<<>>}]
           rules == Tools[t].rules
<1>1. rules \in Seq(R) /\ rules # <<>>  BY GrammarsAssumption
<1>2. rules[i] \in R /\ rules[j] \in R
  <2>1. i \in DOMAIN rules /\ j \in DOMAIN rules  BY DEF Places
  <2> HIDE DEF R, rules
  <2> QED BY <1>1, <2>1, OfSomething
<1>3. rules[i].head = rules[j].head /\ rules[i].derived = rules[j].derived
  BY DEF HeadOf, Body
<1>4. rules[i] = rules[j]
  <2> HIDE DEF rules
  <2> QED BY <1>2, <1>3
<1> QED BY <1>4, RulesAssumption DEF Places

\* Whether First+ of a rule has the empty word.
BeginsEmpty(t, i) == Empty \in FirstOf[t][Body(t, i)[1]]

\* But for the empty word First+ has only what the rule may be chosen on.
LEMMA PlusPredicts ==
  ASSUME NEW t \in DOMAIN Tools, NEW i \in Places(t),
         NEW x \in FirstPlusOf(t, i), x # Empty
  PROVE  x \in PredictsOf[t][i]
<1> DEFINE d == Body(t, i)
<1>1. CASE d[1] = Empty \/ ~ BeginsEmpty(t, i)
  BY <1>1, PredictsFacts DEF BeginsEmpty
<1>2. CASE d[1] # Empty
  <2>1. Len(d) \in Nat /\ Len(d) >= 1 /\ DOMAIN d = 1..Len(d)  BY RuleFacts
  <2>2. 1 \in Front(t, d)  BY <2>1 DEF Front
  <2>3. x \in FirstOf[t][d[1]]  BY <1>2 DEF FirstPlusOf
  <2>4. x \in (UNION {FirstOf[t][d[k]] : k \in Front(t, d)}) \ {Empty}
    <3> HIDE DEF d
    <3> QED BY <2>2, <2>3
  <2>5. PredictsOf[t][i] = ((UNION {FirstOf[t][d[k]] : k \in Front(t, d)}) \ {Empty})
          \cup (IF Elements(d) \subseteq NullableOf[t] THEN FollowOf[t][HeadOf(t, i)] ELSE {})
    BY DEF PredictsOf, Body, HeadOf, Places
  <2> QED BY <2>4, <2>5
<1> QED BY <1>1, <1>2

\* What the code's sets say of two rules, and what one symbol of lookahead
\* says of them.
LEMMA PlusDecides ==
  ASSUME NEW t \in DOMAIN Tools, NEW i \in Places(t), NEW j \in Places(t)
  PROVE  /\ FirstPlusOf(t, i) \cap FirstPlusOf(t, j) # {} =>
              \/ PredictsOf[t][i] \cap PredictsOf[t][j] # {}
              \/ BeginsEmpty(t, i) /\ BeginsEmpty(t, j)
         /\ PredictsOf[t][i] \cap PredictsOf[t][j] # {} =>
              \/ FirstPlusOf(t, i) \cap FirstPlusOf(t, j) # {}
              \/ BeginsEmpty(t, i) /\ Body(t, i)[1] # Empty
              \/ BeginsEmpty(t, j) /\ Body(t, j)[1] # Empty
<1> DEFINE P(k) == PredictsOf[t][k]
           Q(k) == FirstPlusOf(t, k)
<1>1. \A k \in Places(t) : ~ BeginsEmpty(t, k) => Empty \notin Q(k)
  <2>1. SUFFICES ASSUME NEW k \in Places(t), ~ BeginsEmpty(t, k) PROVE Empty \notin Q(k)
    OBVIOUS
  <2>2. Body(t, k)[1] # Empty  BY <2>1, EmptyBeginsWithItself DEF BeginsEmpty
  <2> QED BY <2>1, <2>2, PredictsFacts DEF BeginsEmpty
<1>2. \A k \in Places(t) : \A x \in Q(k) : x # Empty => x \in P(k)  BY PlusPredicts
<1>3. \A k \in Places(t) : Body(t, k)[1] = Empty \/ ~ BeginsEmpty(t, k) => P(k) \subseteq Q(k)
  BY PredictsFacts DEF BeginsEmpty
<1> HIDE DEF P, Q
<1>4. Q(i) \cap Q(j) # {} => P(i) \cap P(j) # {} \/ (BeginsEmpty(t, i) /\ BeginsEmpty(t, j))
  BY <1>1, <1>2
<1>5. P(i) \cap P(j) # {} =>
        \/ Q(i) \cap Q(j) # {}
        \/ BeginsEmpty(t, i) /\ Body(t, i)[1] # Empty
        \/ BeginsEmpty(t, j) /\ Body(t, j)[1] # Empty
  BY <1>3
<1> QED BY <1>4, <1>5 DEF P, Q

-----------------------------------------------------------------------------
(* The inductive invariant of the analysis.                                 *)

\* The rules before the place bring the sets nothing more.
FirstSwept(n) ==
    \A i \in 1..n : FirstIn(first, Body(tool, i)) \subseteq first[HeadOf(tool, i)]
FollowSwept(n) ==
    \A i \in 1..n : \A k \in 1..Len(Body(tool, i)) : \A x :
        Body(tool, i)[k] \in HeadsOf[tool] /\ ComesAfter(tool, follow, i, k, x)
          => x \in follow[Body(tool, i)[k]]

FirstInv ==
    /\ first \in [SymbolsOf[tool] -> SUBSET SymbolsOf[tool]]
    /\ \A s \in Tools[tool].terminals : s \in first[s]
    /\ \A s \in SymbolsOf[tool] : first[s] \subseteq FirstOf[tool][s]
    /\ pass = "first" /\ has_changed = FALSE => FirstSwept(rule - 1)
    /\ pass # "first" => first = FirstOf[tool]

FollowInv ==
    /\ DOMAIN follow = SymbolsOf[tool]
    /\ \A h \in HeadsOf[tool] : follow[h] \subseteq FollowOf[tool][h]
    /\ Eof \in follow[HeadOf(tool, 1)]
    /\ pass = "follow" /\ has_changed = FALSE => FollowSwept(rule - 1)
    /\ pass \notin {"first", "follow"} =>
          \A h \in HeadsOf[tool] : follow[h] = FollowOf[tool][h]

PlusInv ==
    /\ pass \in {"first", "follow"} => first_plus = <<>>
    /\ pass = "first_plus" => first_plus = [i \in 1..rule - 1 |-> FirstPlusOf(tool, i)]
    /\ pass = "back_track" => first_plus = [i \in Places(tool) |-> FirstPlusOf(tool, i)]

AnalysisInv ==
    /\ tool \in DOMAIN Tools
    /\ has_changed \in BOOLEAN
    /\ pass \in {"first", "follow", "first_plus"} => rule \in Places(tool)
    /\ FirstInv /\ FollowInv /\ PlusInv
    /\ ViolationsAreRight

LEMMA InvFirst == ASSUME Init PROVE AnalysisInv
<1>0. tool \in DOMAIN Tools /\ G = Tools[tool]  BY DEF Init, SetsInit, G
<1>1. /\ Tools[tool].terminals \subseteq SymbolsOf[tool] /\ Eof \in Tools[tool].terminals
      /\ HeadsOf[tool] \subseteq SymbolsOf[tool] /\ HeadsOf[tool] \cap Tools[tool].terminals = {}
      /\ 1 \in Places(tool) /\ HeadOf(tool, 1) \in HeadsOf[tool]
  BY <1>0, SymbolFacts, RuleFacts
<1>2. first = [s \in SymbolsOf[tool] |-> IF s \in Tools[tool].terminals THEN {s} ELSE {}]
  BY <1>0 DEF Init, SetsInit
<1>3. follow = [s \in SymbolsOf[tool] |-> IF s = HeadOf(tool, 1) THEN {Eof} ELSE {}]
  BY <1>0 DEF Init, SetsInit, HeadOf
<1>4. pass = "first" /\ rule = 1 /\ has_changed = FALSE /\ first_plus = <<>>
  BY DEF Init, SetsInit
<1>5. FirstSwept(rule - 1)
  <2>1. 1..rule - 1 = {}  BY <1>4
  <2> QED BY <2>1 DEF FirstSwept
<1>6. FirstInv
  <2>1. \A s \in SymbolsOf[tool] : first[s] \subseteq FirstOf[tool][s]
    BY <1>0, <1>2, FirstFacts
  <2>2. \A s \in Tools[tool].terminals : s \in first[s]  BY <1>1, <1>2
  <2>3. first \in [SymbolsOf[tool] -> SUBSET SymbolsOf[tool]]  BY <1>2
  <2> QED BY <1>4, <1>5, <2>1, <2>2, <2>3 DEF FirstInv
<1>7. FollowInv
  <2>1. Eof \in FollowOf[tool][HeadOf(tool, 1)]  BY <1>0, FollowFacts
  <2>2. ASSUME NEW h \in HeadsOf[tool] PROVE follow[h] \subseteq FollowOf[tool][h]
    <3>1. h \in SymbolsOf[tool]  BY <1>1
    <3>2. follow[h] = IF h = HeadOf(tool, 1) THEN {Eof} ELSE {}  BY <1>3, <3>1
    <3> QED BY <2>1, <3>2
  <2>3. Eof \in follow[HeadOf(tool, 1)]
    <3>1. HeadOf(tool, 1) \in SymbolsOf[tool]  BY <1>1
    <3> HIDE DEF HeadOf
    <3> QED BY <1>3, <3>1
  <2>4. DOMAIN follow = SymbolsOf[tool]  BY <1>3
  <2> QED BY <1>4, <2>2, <2>3, <2>4 DEF FollowInv
<1>8. PlusInv /\ ViolationsAreRight  BY <1>4 DEF PlusInv, ViolationsAreRight
<1> QED BY <1>0, <1>1, <1>4, <1>6, <1>7, <1>8 DEF AnalysisInv

\* Where the loop stands after a rule.
LEMMA Loops ==
  ASSUME AnalysisInv, pass \in {"first", "follow", "first_plus"},
         NEW changed \in BOOLEAN, NEW next, NextRule(changed, next)
  PROVE  \/ /\ rule < Len(G.rules) /\ rule' = rule + 1 /\ rule' \in Places(tool)
            /\ has_changed' = changed /\ pass' = pass
         \/ /\ rule = Len(G.rules) /\ rule' = 1 /\ rule' \in Places(tool) /\ has_changed' = FALSE
            /\ pass' = IF changed THEN pass ELSE next
<1>1. /\ tool \in DOMAIN Tools /\ rule \in Places(tool)  BY DEF AnalysisInv
<1>2. /\ Len(G.rules) \in Nat /\ Places(tool) = 1..Len(G.rules) /\ 1 \in Places(tool)
  BY <1>1, RuleFacts DEF G
<1> QED BY <1>1, <1>2 DEF NextRule

LEMMA FirstStep ==
  ASSUME AnalysisInv, ComputeFirstSets
  PROVE  AnalysisInv'
<1> DEFINE d == Body(tool, rule)
           h == HeadOf(tool, rule)
           changed == has_changed \/ first' # first
<1>0. /\ tool \in DOMAIN Tools /\ rule \in Places(tool) /\ pass = "first"
      /\ FirstInv /\ FollowInv /\ PlusInv /\ has_changed \in BOOLEAN
  BY DEF AnalysisInv, ComputeFirstSets
<1>1. /\ h \in HeadsOf[tool] /\ h \in SymbolsOf[tool]
      /\ Len(G.rules) \in Nat /\ Places(tool) = 1..Len(G.rules)
      /\ HeadsOf[tool] \subseteq SymbolsOf[tool] /\ Tools[tool].terminals \subseteq SymbolsOf[tool]
  BY <1>0, RuleFacts, SymbolFacts DEF G
<1>2. UNCHANGED <<tool, follow, first_plus, violations>>  BY DEF ComputeFirstSets
<1>3. First(G.rules[rule].derived) = FirstIn(first, d)
  BY DEF First, FirstIn, Body, G
<1>4. first' = [first EXCEPT ![h] = @ \cup FirstIn(first, d)]
  <2>1. first' = [first EXCEPT ![h] = @ \cup First(G.rules[rule].derived)]
    BY DEF ComputeFirstSets, HeadOf, G
  <2> HIDE DEF d, h
  <2> QED BY <1>3, <2>1
<1>5. NextRule(changed, "follow")  BY DEF ComputeFirstSets
<1>6. \/ /\ rule < Len(G.rules) /\ rule' = rule + 1 /\ rule' \in Places(tool)
         /\ has_changed' = changed /\ pass' = pass
      \/ /\ rule = Len(G.rules) /\ rule' = 1 /\ rule' \in Places(tool) /\ has_changed' = FALSE
         /\ pass' = IF changed THEN pass ELSE "follow"
  <2>1. changed \in BOOLEAN  BY <1>0
  <2> HIDE DEF changed
  <2> QED BY <1>0, <1>5, <2>1, Loops
<1>7. /\ first \in [SymbolsOf[tool] -> SUBSET SymbolsOf[tool]]
      /\ \A s \in SymbolsOf[tool] : first[s] \subseteq FirstOf[tool][s]
      /\ \A s \in Tools[tool].terminals : s \in first[s]
      /\ has_changed = FALSE => FirstSwept(rule - 1)
  BY <1>0 DEF FirstInv
<1>8. FirstIn(first, d) \subseteq FirstOf[tool][h]  BY <1>0, <1>7, FirstClosed
<1>9. FirstOf[tool][h] \subseteq SymbolsOf[tool]  BY <1>0, <1>1, FirstFacts
<1> HIDE DEF d, h
<1>10. /\ first' \in [SymbolsOf[tool] -> SUBSET SymbolsOf[tool]]
       /\ \A s \in SymbolsOf[tool] : first'[s] \subseteq FirstOf[tool][s]
       /\ \A s \in Tools[tool].terminals : s \in first'[s]
       /\ FirstIn(first, d) \subseteq first'[h]
  BY <1>1, <1>4, <1>7, <1>8, <1>9
\* A sweep that changes nothing finds every rule it passes satisfied.
<1>11. changed = FALSE => first' = first /\ FirstSwept(rule)
  <2>1. SUFFICES ASSUME changed = FALSE PROVE first' = first /\ FirstSwept(rule)  OBVIOUS
  <2>2. first' = first /\ has_changed = FALSE  BY <1>0, <2>1
  <2>3. FirstIn(first, d) \subseteq first[h]  BY <1>10, <2>2
  <2>4. \A i \in 1..rule : i = rule \/ i \in 1..rule - 1  BY <1>0, <1>1
  <2> QED BY <1>7, <2>2, <2>3, <2>4 DEF FirstSwept, d, h
<1>12. changed = FALSE /\ rule = Len(G.rules) => first' = FirstOf[tool]
  <2>1. SUFFICES ASSUME changed = FALSE, rule = Len(G.rules) PROVE first = FirstOf[tool]
    BY <1>11
  <2>2. \A i \in Places(tool) : FirstIn(first, Body(tool, i)) \subseteq first[HeadOf(tool, i)]
    BY <1>1, <1>11, <2>1 DEF FirstSwept
  <2>3. \A s \in SymbolsOf[tool] : FirstOf[tool][s] \subseteq first[s]
    BY <1>0, <1>7, <2>2, FirstLeast
  <2>4. \A s \in SymbolsOf[tool] : first[s] = FirstOf[tool][s]  BY <1>7, <2>3
  <2>5. DOMAIN FirstOf[tool] = SymbolsOf[tool] /\ FirstOf[tool] = [s \in DOMAIN FirstOf[tool] |-> FirstOf[tool][s]]
    BY <1>0, FirstFacts
  <2> QED BY <1>7, <2>4, <2>5
<1>13. pass' = "first" /\ has_changed' = FALSE => FirstSwept(rule - 1)'
  <2>1. SUFFICES ASSUME pass' = "first", has_changed' = FALSE PROVE FirstSwept(rule - 1)'
    OBVIOUS
  <2>2. CASE rule' = 1  BY <2>2 DEF FirstSwept
  <2>3. CASE rule' = rule + 1 /\ has_changed' = changed
    <3>1. rule' - 1 = rule  BY <1>0, <1>1, <2>3
    <3>2. FirstSwept(rule) /\ first' = first /\ tool' = tool  BY <1>2, <1>11, <2>1, <2>3
    <3> QED BY <3>1, <3>2 DEF FirstSwept, Body, HeadOf
  <2> HIDE DEF changed
  <2> QED BY <1>6, <2>2, <2>3
<1>14. pass' # "first" => pass' = "follow" /\ first' = FirstOf[tool] /\ rule' = 1 /\ has_changed' = FALSE
  <2>1. changed \in BOOLEAN  BY <1>0
  <2> HIDE DEF changed
  <2> QED BY <1>0, <1>6, <1>12, <2>1
<1>15. FirstInv'  BY <1>2, <1>10, <1>13, <1>14 DEF FirstInv
<1>16. pass' \in {"first", "follow"}  BY <1>14
<1>17. FollowInv'
  <2>1. pass' = "follow" => FollowSwept(rule - 1)'
    BY <1>14 DEF FollowSwept
  <2> QED BY <1>0, <1>2, <1>16, <2>1 DEF FollowInv, HeadOf
<1>18. PlusInv'  BY <1>0, <1>2, <1>16 DEF PlusInv
<1>19. has_changed' \in BOOLEAN /\ rule' \in Places(tool)
  <2>1. changed \in BOOLEAN  BY <1>0
  <2> HIDE DEF changed
  <2> QED BY <1>6, <2>1
<1>20. Places(tool)' = Places(tool)  BY <1>2 DEF Places
<1>21. ViolationsAreRight'  BY <1>16 DEF ViolationsAreRight
<1> QED BY <1>0, <1>2, <1>15, <1>17, <1>18, <1>19, <1>20, <1>21 DEF AnalysisInv

\* The walk from the end of a rule meets what the derivations let come after
\* a symbol, once the First sets are complete.
LEMMA TrailerIsWhatComesAfter ==
  ASSUME tool \in DOMAIN Tools, first = FirstOf[tool],
         NEW i \in Places(tool), NEW k \in 1..Len(Body(tool, i)), NEW x
  PROVE  x \in Trailer(G.rules[i], k) <=> ComesAfter(tool, follow, i, k, x)
<1> DEFINE d == Body(tool, i)
           N == NullableOf[tool]
           F == FirstOf[tool]
           later == k + 1..Len(d)
           E(j) == IF Passable(d[j]) THEN first[d[j]] \ {Empty} ELSE first[d[j]]
           reached == {j \in later : \A m \in k + 1..j - 1 : Passable(d[m])}
           U == UNION {E(j) : j \in reached}
<1>0. /\ Len(d) \in Nat /\ k \in 1..Len(d)
      /\ \A j \in 1..Len(d) : d[j] \in SymbolsOf[tool] /\ (d[j] = Empty => Len(d) = 1)
  BY RuleFacts
<1>1. Trailer(G.rules[i], k) =
        U \cup (IF \A j \in later : Passable(d[j]) THEN follow[HeadOf(tool, i)] ELSE {})
  BY DEF Trailer, Body, HeadOf, G
<1>2. ASSUME NEW j \in later
      PROVE  /\ j \in 1..Len(d) /\ d[j] \in SymbolsOf[tool] /\ d[j] # Empty
             /\ Passable(d[j]) <=> d[j] \in N
             /\ E(j) = F[d[j]] \ {Empty}
  <2>1. j \in 1..Len(d) /\ Len(d) > 1  BY <1>0
  <2>2. d[j] \in SymbolsOf[tool] /\ d[j] # Empty  BY <1>0, <2>1
  <2>3. Empty \in first[d[j]] <=> d[j] \in N  BY <2>2, FirstFacts
  <2>4. d[j] \in N => d[j] \notin Tools[tool].terminals
    <3>1. N \subseteq {Empty} \cup HeadsOf[tool]  BY NullableLeast
    <3>2. HeadsOf[tool] \cap Tools[tool].terminals = {}  BY SymbolFacts
    <3> HIDE DEF N, d
    <3> QED BY <2>2, <3>1, <3>2
  <2>5. Passable(d[j]) <=> d[j] \in N
    <3> HIDE DEF N, d
    <3> QED BY <2>3, <2>4 DEF Passable, G
  <2>6. E(j) = F[d[j]] \ {Empty}
    <3>1. Passable(d[j]) \/ Empty \notin first[d[j]]
      <4> HIDE DEF N, d
      <4> QED BY <2>3, <2>5
    <3> HIDE DEF Passable, d
    <3> QED BY <3>1
  <2> QED BY <2>1, <2>2, <2>5, <2>6
<1> HIDE DEF E, N, F, d
<1>3. \A j : j \in reached <=> j \in later /\ \A m \in k + 1..j - 1 : d[m] \in N
  <2>1. ASSUME NEW j \in later, NEW m \in k + 1..j - 1 PROVE m \in later
    BY <1>0
  <2>2. ASSUME NEW j \in later
        PROVE  (\A m \in k + 1..j - 1 : Passable(d[m])) <=> \A m \in k + 1..j - 1 : d[m] \in N
    <3> HIDE DEF later
    <3> QED BY <1>2, <2>1
  <2> HIDE DEF later
  <2> QED BY <2>2
<1>4. x \in U <=> \E j \in later : /\ \A m \in k + 1..j - 1 : d[m] \in N
                                   /\ x \in F[d[j]] /\ x # Empty
  <2>1. x \in U <=> \E j \in reached : x \in E(j)  OBVIOUS
  <2> HIDE DEF reached, U, later
  <2> QED BY <1>2, <1>3, <2>1
<1>5. (\A j \in later : Passable(d[j])) <=> \A m \in later : d[m] \in N
  <2> HIDE DEF later
  <2> QED BY <1>2
<1>6. ComesAfter(tool, follow, i, k, x) <=>
        \/ \E j \in later : /\ \A m \in k + 1..j - 1 : d[m] \in N
                            /\ x \in F[d[j]] /\ x # Empty
        \/ (\A m \in later : d[m] \in N) /\ x \in follow[HeadOf(tool, i)]
  BY DEF ComesAfter, NullableFrom, N, F, d
<1> HIDE DEF U, later
<1> QED BY <1>1, <1>4, <1>5, <1>6

LEMMA FollowStep ==
  ASSUME AnalysisInv, ComputeFollowSets
  PROVE  AnalysisInv'
<1> DEFINE d == Body(tool, rule)
           Bring(s) == UNION {Trailer(G.rules[rule], k) : k \in {m \in DOMAIN d : d[m] = s}}
           changed == has_changed \/ follow' # follow
           H == HeadsOf[tool]
<1>0. /\ tool \in DOMAIN Tools /\ rule \in Places(tool) /\ pass = "follow"
      /\ FirstInv /\ FollowInv /\ PlusInv /\ has_changed \in BOOLEAN
  BY DEF AnalysisInv, ComputeFollowSets
<1>1. /\ Len(G.rules) \in Nat /\ Places(tool) = 1..Len(G.rules) /\ G = Tools[tool]
      /\ H \subseteq SymbolsOf[tool] /\ H \cap Tools[tool].terminals = {}
      /\ DOMAIN d = 1..Len(d) /\ HeadOf(tool, 1) \in H
  BY <1>0, RuleFacts, SymbolFacts DEF G
<1>2. UNCHANGED <<tool, first, first_plus, violations>>  BY DEF ComputeFollowSets
<1>3. first = FirstOf[tool]  BY <1>0 DEF FirstInv
<1>4. /\ DOMAIN follow = SymbolsOf[tool]
      /\ \A h \in H : follow[h] \subseteq FollowOf[tool][h]
      /\ Eof \in follow[HeadOf(tool, 1)]
      /\ has_changed = FALSE => FollowSwept(rule - 1)
  BY <1>0 DEF FollowInv
<1>5. follow' = [s \in SymbolsOf[tool] |->
                   IF s \in Tools[tool].terminals THEN follow[s] ELSE follow[s] \cup Bring(s)]
  BY <1>1, <1>4 DEF ComputeFollowSets, Body
<1>6. NextRule(changed, "first_plus")  BY DEF ComputeFollowSets
<1>7. \/ /\ rule < Len(G.rules) /\ rule' = rule + 1 /\ rule' \in Places(tool)
         /\ has_changed' = changed /\ pass' = pass
      \/ /\ rule = Len(G.rules) /\ rule' = 1 /\ rule' \in Places(tool) /\ has_changed' = FALSE
         /\ pass' = IF changed THEN pass ELSE "first_plus"
  <2>1. changed \in BOOLEAN  BY <1>0
  <2> HIDE DEF changed
  <2> QED BY <1>0, <1>6, <2>1, Loops
<1>8. \A s, x : x \in Bring(s) <=> \E k \in 1..Len(d) :
                                     d[k] = s /\ ComesAfter(tool, follow, rule, k, x)
  <2>1. \A s, x : x \in Bring(s) <=> \E k \in 1..Len(d) :
                                       d[k] = s /\ x \in Trailer(G.rules[rule], k)
    <3> HIDE DEF d
    <3> QED BY <1>1
  <2>2. \A k \in 1..Len(d) : \A x :
          x \in Trailer(G.rules[rule], k) <=> ComesAfter(tool, follow, rule, k, x)
    BY <1>0, <1>3, TrailerIsWhatComesAfter
  <2> HIDE DEF d, Bring
  <2> QED BY <2>1, <2>2
<1>9. \A h \in H : Bring(h) \subseteq FollowOf[tool][h]
  <2>1. \A k \in 1..Len(d) : \A x :
          ComesAfter(tool, follow, rule, k, x) => x \in FollowOf[tool][d[k]]
    BY <1>0, <1>4, FollowClosed
  <2> HIDE DEF d, Bring
  <2> QED BY <1>8, <2>1
<1> HIDE DEF Bring
<1>10. ASSUME NEW h \in H PROVE follow'[h] = follow[h] \cup Bring(h)
  BY <1>1, <1>5
<1>11. /\ DOMAIN follow' = SymbolsOf[tool]
       /\ \A h \in H : follow'[h] \subseteq FollowOf[tool][h]
       /\ Eof \in follow'[HeadOf(tool, 1)]
  <2>1. DOMAIN follow' = SymbolsOf[tool]  BY <1>5
  <2> QED BY <1>1, <1>4, <1>9, <1>10, <2>1
\* A sweep that changes nothing finds every rule it passes satisfied.
<1>12. changed = FALSE => follow' = follow /\ FollowSwept(rule)
  <2>1. SUFFICES ASSUME changed = FALSE PROVE follow' = follow /\ FollowSwept(rule)  OBVIOUS
  <2>2. follow' = follow /\ has_changed = FALSE  BY <1>0, <2>1
  <2>3. \A h \in H : Bring(h) \subseteq follow[h]  BY <1>10, <2>2
  <2>4. \A k \in 1..Len(d) : \A x :
          d[k] \in H /\ ComesAfter(tool, follow, rule, k, x) => x \in follow[d[k]]
    <3> HIDE DEF d
    <3> QED BY <1>8, <2>3
  <2>5. \A i \in 1..rule : i = rule \/ i \in 1..rule - 1  BY <1>0, <1>1
  <2> QED BY <1>4, <2>2, <2>4, <2>5 DEF FollowSwept
<1>13. changed = FALSE /\ rule = Len(G.rules) => \A h \in H : follow'[h] = FollowOf[tool][h]
  <2>1. SUFFICES ASSUME changed = FALSE, rule = Len(G.rules)
                 PROVE  \A h \in H : follow[h] = FollowOf[tool][h]
    BY <1>12
  <2>2. FollowGrown(tool, follow)
    BY <1>1, <1>4, <1>12, <2>1 DEF FollowSwept, FollowGrown
  <2>3. \A h \in H : FollowOf[tool][h] \subseteq follow[h]
    BY <1>0, <2>2, FollowLeast
  <2> QED BY <1>4, <2>3
<1>14. pass' = "follow" /\ has_changed' = FALSE => FollowSwept(rule - 1)'
  <2>1. SUFFICES ASSUME pass' = "follow", has_changed' = FALSE PROVE FollowSwept(rule - 1)'
    OBVIOUS
  <2>2. CASE rule' = 1  BY <2>2 DEF FollowSwept
  <2>3. CASE rule' = rule + 1 /\ has_changed' = changed
    <3>1. rule' - 1 = rule  BY <1>0, <1>1, <2>3
    <3>2. FollowSwept(rule) /\ follow' = follow /\ tool' = tool  BY <1>2, <1>12, <2>1, <2>3
    <3> QED BY <3>1, <3>2, ZenonT(60) DEF FollowSwept, Body, HeadOf, ComesAfter, NullableFrom
  <2> HIDE DEF changed
  <2> QED BY <1>7, <2>2, <2>3
<1>15. pass' # "follow" =>
          pass' = "first_plus" /\ (\A h \in H : follow'[h] = FollowOf[tool][h]) /\ rule' = 1
  <2>1. changed \in BOOLEAN  BY <1>0
  <2> HIDE DEF changed
  <2> QED BY <1>0, <1>7, <1>13, <2>1
<1>16. pass' \in {"follow", "first_plus"}  BY <1>15
<1>17. FirstInv'
  <2>1. pass' # "first"  BY <1>16
  <2> QED BY <1>0, <1>2, <1>3, <2>1 DEF FirstInv
<1>18. FollowInv'
  BY <1>2, <1>11, <1>14, <1>15, <1>16 DEF FollowInv, HeadOf
<1>19. PlusInv'
  <2>1. first_plus' = <<>>  BY <1>0, <1>2 DEF PlusInv
  <2>2. CASE pass' = "first_plus"
    <3>1. 1..rule' - 1 = {}  BY <1>15, <2>2
    <3>2. first_plus' = [i \in 1..rule' - 1 |-> FirstPlusOf(tool', i)]  BY <2>1, <3>1
    <3> QED BY <2>1, <2>2, <3>2 DEF PlusInv
  <2> QED BY <1>16, <2>1, <2>2 DEF PlusInv
<1>20. has_changed' \in BOOLEAN /\ rule' \in Places(tool)
  <2>1. changed \in BOOLEAN  BY <1>0
  <2> HIDE DEF changed
  <2> QED BY <1>7, <2>1
<1>21. Places(tool)' = Places(tool)  BY <1>2 DEF Places
<1>22. ViolationsAreRight'  BY <1>16 DEF ViolationsAreRight
<1> QED BY <1>0, <1>2, <1>17, <1>18, <1>19, <1>20, <1>21, <1>22 DEF AnalysisInv

LEMMA FirstPlusStep ==
  ASSUME AnalysisInv, ComputeFirstPlusSets
  PROVE  AnalysisInv'
<1>0. /\ tool \in DOMAIN Tools /\ rule \in Places(tool) /\ pass = "first_plus"
      /\ FirstInv /\ FollowInv /\ PlusInv
  BY DEF AnalysisInv, ComputeFirstPlusSets
<1>1. /\ Len(G.rules) \in Nat /\ Places(tool) = 1..Len(G.rules)
      /\ HeadOf(tool, rule) \in HeadsOf[tool]
  BY <1>0, RuleFacts DEF G
<1>2. UNCHANGED <<tool, first, follow, violations>>  BY DEF ComputeFirstPlusSets
<1>3. \/ /\ rule < Len(G.rules) /\ rule' = rule + 1 /\ rule' \in Places(tool)
         /\ has_changed' = FALSE /\ pass' = pass
      \/ /\ rule = Len(G.rules) /\ rule' = 1 /\ rule' \in Places(tool) /\ has_changed' = FALSE
         /\ pass' = "back_track"
  <2>1. NextRule(FALSE, "back_track")  BY DEF ComputeFirstPlusSets
  <2> QED BY <1>0, <2>1, Loops
<1>4. first_plus' = Append(first_plus, FirstPlusOf(tool, rule))
  <2>1. /\ first = FirstOf[tool]
        /\ follow[HeadOf(tool, rule)] = FollowOf[tool][HeadOf(tool, rule)]
    BY <1>0, <1>1 DEF FirstInv, FollowInv
  <2>2. first_plus' = Append(first_plus, first[Body(tool, rule)[1]]
            \cup (IF Body(tool, rule)[1] = Empty THEN follow[HeadOf(tool, rule)] ELSE {}))
    BY DEF ComputeFirstPlusSets, Body, HeadOf, G
  <2> QED BY <2>1, <2>2 DEF FirstPlusOf
<1>5. first_plus' = [i \in 1..rule |-> FirstPlusOf(tool, i)]
  <2> DEFINE P(i) == FirstPlusOf(tool, i)
  <2>1. first_plus = [i \in 1..rule - 1 |-> P(i)]  BY <1>0 DEF PlusInv
  <2>2. rule - 1 \in Nat /\ rule - 1 + 1 = rule  BY <1>0, <1>1
  <2>3. first_plus' = Append(first_plus, P(rule))  BY <1>4
  <2>4. Len(first_plus) = rule - 1 /\ DOMAIN first_plus = 1..rule - 1
    <3> HIDE DEF P
    <3> QED BY <2>1, <2>2
  <2> HIDE DEF P
  <2>5. first_plus' = [i \in 1..rule |-> P(i)]  BY <2>1, <2>2, <2>3, <2>4
  <2> QED BY <2>5 DEF P
<1>6. PlusInv'
  <2>1. CASE rule' = rule + 1 /\ pass' = "first_plus"
    <3>1. rule' - 1 = rule  BY <1>0, <1>1, <2>1
    <3>2. first_plus' = [i \in 1..rule' - 1 |-> FirstPlusOf(tool', i)]  BY <1>2, <1>5, <3>1
    <3> QED BY <2>1, <3>2 DEF PlusInv
  <2>2. CASE rule = Len(G.rules) /\ pass' = "back_track"
    <3>1. Places(tool)' = 1..rule  BY <1>1, <1>2, <2>2 DEF Places
    <3>2. first_plus' = [i \in Places(tool)' |-> FirstPlusOf(tool', i)]  BY <1>2, <1>5, <3>1
    <3> QED BY <2>2, <3>2 DEF PlusInv
  <2> QED BY <1>0, <1>3, <2>1, <2>2
<1>7. FirstInv' /\ FollowInv'
  <2>1. pass' \in {"first_plus", "back_track"}  BY <1>0, <1>3
  <2> QED BY <1>0, <1>2, <2>1 DEF FirstInv, FollowInv, HeadOf
<1>8. Places(tool)' = Places(tool)  BY <1>2 DEF Places
<1>9. ViolationsAreRight'  BY <1>0, <1>3 DEF ViolationsAreRight
<1> QED BY <1>0, <1>2, <1>3, <1>6, <1>7, <1>8, <1>9 DEF AnalysisInv

LEMMA BackTrackStep ==
  ASSUME AnalysisInv, ComputeBackTrackFree
  PROVE  AnalysisInv'
<1>0. /\ tool \in DOMAIN Tools /\ pass = "back_track" /\ pass' = "analyzed"
      /\ FirstInv /\ FollowInv /\ PlusInv /\ has_changed \in BOOLEAN
      /\ UNCHANGED <<tool, rule, has_changed, first, follow, first_plus>>
  BY DEF AnalysisInv, ComputeBackTrackFree
<1>1. first_plus = [i \in Places(tool) |-> FirstPlusOf(tool, i)]  BY <1>0 DEF PlusInv
<1>2. violations' = {p \in Places(tool) \X Places(tool) :
                       /\ p[1] < p[2] /\ HeadOf(tool, p[1]) = HeadOf(tool, p[2])
                       /\ first_plus[p[1]] \cap first_plus[p[2]] # {}}
  BY DEF ComputeBackTrackFree, Places, HeadOf, G
<1>3. UndecidedOf[tool] = {p \in Places(tool) \X Places(tool) :
                             /\ p[1] < p[2] /\ HeadOf(tool, p[1]) = HeadOf(tool, p[2])
                             /\ PredictsOf[tool][p[1]] \cap PredictsOf[tool][p[2]] # {}}
  BY <1>0 DEF UndecidedOf, Places, HeadOf
<1>4. ViolationsAreRight'
  <2>1. \A i \in Places(tool) : first_plus[i] = FirstPlusOf(tool, i)  BY <1>1
  <2>2. \A i \in Places(tool) :
          /\ SeemsEmpty(i)' <=> BeginsEmpty(tool, i)
          /\ LeaderHides(i)' <=> BeginsEmpty(tool, i) /\ Body(tool, i)[1] # Empty
    BY <1>0 DEF SeemsEmpty, LeaderHides, BeginsEmpty, Body, G, Places
  <2>3. ASSUME NEW p \in violations'
        PROVE  p \in UndecidedOf[tool] \/ (SeemsEmpty(p[1])' /\ SeemsEmpty(p[2])')
    <3>1. PICK i \in Places(tool), j \in Places(tool) :
            /\ p = <<i, j>> /\ i < j /\ HeadOf(tool, i) = HeadOf(tool, j)
            /\ first_plus[i] \cap first_plus[j] # {}
      BY <1>2, <2>3
    <3>2. FirstPlusOf(tool, i) \cap FirstPlusOf(tool, j) # {}  BY <2>1, <3>1
    <3>3. \/ PredictsOf[tool][i] \cap PredictsOf[tool][j] # {}
          \/ BeginsEmpty(tool, i) /\ BeginsEmpty(tool, j)
      BY <1>0, <3>2, PlusDecides
    <3>4. p[1] = i /\ p[2] = j  BY <3>1
    <3> QED BY <1>3, <2>2, <3>1, <3>3, <3>4
  <2>4. ASSUME NEW p \in UndecidedOf[tool]
        PROVE  p \in violations' \/ LeaderHides(p[1])' \/ LeaderHides(p[2])'
    <3>1. PICK i \in Places(tool), j \in Places(tool) :
            /\ p = <<i, j>> /\ i < j /\ HeadOf(tool, i) = HeadOf(tool, j)
            /\ PredictsOf[tool][i] \cap PredictsOf[tool][j] # {}
      BY <1>3, <2>4
    <3>2. \/ FirstPlusOf(tool, i) \cap FirstPlusOf(tool, j) # {}
          \/ BeginsEmpty(tool, i) /\ Body(tool, i)[1] # Empty
          \/ BeginsEmpty(tool, j) /\ Body(tool, j)[1] # Empty
      BY <1>0, <3>1, PlusDecides
    <3>3. p[1] = i /\ p[2] = j  BY <3>1
    <3> QED BY <1>2, <2>1, <2>2, <3>1, <3>2, <3>3
  <2>5. tool' = tool  BY <1>0
  <2> QED BY <2>3, <2>4, <2>5 DEF ViolationsAreRight
<1>5. FirstInv' /\ FollowInv'
  BY <1>0 DEF FirstInv, FollowInv, HeadOf
<1>6. PlusInv'  BY <1>0 DEF PlusInv
<1> QED BY <1>0, <1>4, <1>5, <1>6 DEF AnalysisInv

\* Building the tables and parsing leave the sets as the analysis left them.
LEMMA TablesLeaveTheSets ==
  ASSUME (BuildTables /\ UNCHANGED parserVars) \/ Parse
  PROVE  /\ UNCHANGED <<tool, rule, has_changed, first, follow, first_plus, violations>>
         /\ pass \notin {"first", "follow", "first_plus", "back_track"}
         /\ pass' \notin {"first", "follow", "first_plus", "back_track", "analyzed"}
<1>1. CASE StartCollection  BY <1>1 DEF StartCollection
<1>2. CASE Collect
  <2>1. /\ pass = "collect" /\ (pass' = "aborted" \/ pass' = pass)
        /\ UNCHANGED <<tool, rule, has_changed, first, follow, first_plus, violations>>
    BY <1>2 DEF Collect
  <2> QED BY <2>1
<1>3. CASE BuildActionTable
  <2>1. /\ pass = "collect" /\ pass' \in {pass, "merge", "built"}
        /\ UNCHANGED <<tool, rule, has_changed, first, follow, first_plus, violations>>
    BY <1>3 DEF BuildActionTable
  <2> QED BY <2>1
<1>4. CASE MergeSets
  <2>1. /\ pass = "merge" /\ pass' \in {pass, "lalr_actions"}
        /\ UNCHANGED <<tool, rule, has_changed, first, follow, first_plus, violations>>
    BY <1>4 DEF MergeSets
  <2> QED BY <2>1
<1>5. CASE BuildMergedActionTable
  <2>1. /\ pass = "lalr_actions" /\ pass' \in {pass, "built"}
        /\ UNCHANGED <<tool, rule, has_changed, first, follow, first_plus, violations>>
    BY <1>5 DEF BuildMergedActionTable
  <2> QED BY <2>1
<1>6. CASE Parse
  <2>1. CASE StartParsing  BY <2>1 DEF StartParsing, tablesDone
  <2>2. CASE UnknownToken  BY <2>2 DEF UnknownToken, tablesDone
  <2>3. CASE Shift  BY <2>3 DEF Shift, tablesDone
  <2>4. CASE Reduce
    <3>1. pass = "parse" /\ UNCHANGED <<tablesDone, pass>>  BY <2>4 DEF Reduce
    <3> QED BY <3>1 DEF tablesDone
  <2>5. CASE Accept  BY <2>5 DEF Accept, tablesDone
  <2>6. CASE ParseError  BY <2>6 DEF ParseError, tablesDone
  <2> QED BY <1>6, <2>1, <2>2, <2>3, <2>4, <2>5, <2>6 DEF Parse
<1> QED BY <1>1, <1>2, <1>3, <1>4, <1>5, <1>6 DEF BuildTables

LEMMA LaterStep ==
  ASSUME AnalysisInv,
         UNCHANGED <<tool, rule, has_changed, first, follow, first_plus, violations>>,
         \/ pass' = pass
         \/ /\ pass \notin {"first", "follow", "first_plus", "back_track"}
            /\ pass' \notin {"first", "follow", "first_plus", "back_track", "analyzed"}
  PROVE  AnalysisInv'
<1>1. FirstInv'  BY DEF AnalysisInv, FirstInv, FirstSwept, Body, HeadOf
<1>2. FollowInv'
  <2>1. (FollowSwept(rule - 1))' <=> FollowSwept(rule - 1)
    <3>1. tool' = tool /\ follow' = follow /\ rule' = rule  OBVIOUS
    <3> QED BY <3>1 DEF FollowSwept
  <2> QED BY <2>1 DEF AnalysisInv, FollowInv, HeadOf
<1>3. PlusInv'  BY DEF AnalysisInv, PlusInv, Places
<1>4. ViolationsAreRight'
  BY DEF AnalysisInv, ViolationsAreRight, SeemsEmpty, LeaderHides, G
<1> QED BY <1>1, <1>2, <1>3, <1>4 DEF AnalysisInv, Places

LEMMA InvNext == ASSUME AnalysisInv, [Next]_allVars PROVE AnalysisInv'
<1>1. CASE Analyze
  BY <1>1, FirstStep, FollowStep, FirstPlusStep, BackTrackStep DEF Analyze
<1>2. CASE (BuildTables /\ UNCHANGED parserVars) \/ Parse
  <2>1. /\ UNCHANGED <<tool, rule, has_changed, first, follow, first_plus, violations>>
        /\ pass \notin {"first", "follow", "first_plus", "back_track"}
        /\ pass' \notin {"first", "follow", "first_plus", "back_track", "analyzed"}
    BY <1>2, TablesLeaveTheSets
  <2> QED BY <2>1, LaterStep
<1>3. CASE UNCHANGED allVars
  <2>1. /\ UNCHANGED <<tool, rule, has_changed, first, follow, first_plus, violations>>
        /\ pass' = pass
    BY <1>3 DEF allVars, setVars
  <2> QED BY <2>1, LaterStep
<1> QED BY <1>1, <1>2, <1>3 DEF Next

(* AnalysisInv holds at every moment of the analysis, of the building of    *)
(* the tables and of parsing.                                               *)
THEOREM AnalysisInvariant == Spec => []AnalysisInv
<1>1. Init => AnalysisInv  BY InvFirst
<1>2. AnalysisInv /\ [Next]_allVars => AnalysisInv'  BY InvNext
<1> QED BY <1>1, <1>2, PTL DEF Spec

-----------------------------------------------------------------------------
(* For every grammar the First and Follow sets of Grammar::Analyze hold at  *)
(* every moment nothing but what the derivations give, and all of it when   *)
(* their loops have ended: no sweep stops early, whatever the order of the  *)
(* rules.                                                                   *)
THEOREM SetsAreDerived == Spec => []SetsAreWhatIsDerived
<1>1. AnalysisInv => SetsAreWhatIsDerived
  BY DEF AnalysisInv, FirstInv, FollowInv, SetsAreWhatIsDerived
<1> QED BY <1>1, AnalysisInvariant, PTL

(* For every grammar, the violations ComputeBackTrackFree prints are pairs  *)
(* of rules of one head that some symbol of lookahead does not tell apart,  *)
(* unless both begin with what can be empty, and no such pair is missing    *)
(* unless a nonterminal that can be empty leads one of the two.             *)
THEOREM ViolationsAreTrue == Spec => []ViolationsAreRight
<1>1. AnalysisInv => ViolationsAreRight  BY DEF AnalysisInv
<1> QED BY <1>1, AnalysisInvariant, PTL
=============================================================================
