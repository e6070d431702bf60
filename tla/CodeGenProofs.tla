-------------------------- MODULE CodeGenProofs ------------------------------
(***************************************************************************)
(* Every jump gets its target, from the tree to the run, for every program. *)
(*                                                                          *)
(* Back patching.  A jump may only wait for a node that the agenda will     *)
(* still visit, so the invariant IInv ties the two together: every node a   *)
(* jump waits for, and every successor an item of the agenda may make one   *)
(* wait for, is patched by a later item.  A jump that waits is then gone    *)
(* before its stream is complete, its address is one of the stream being    *)
(* written, and so is the address it is given, once something follows it.   *)
(*                                                                          *)
(* Byte code.  CodeInv adds the back end: the table has an address for each *)
(* instruction of the streams placed so far, at which its translation lies, *)
(* and a jump of the code has one of the addresses the streams' jumps have. *)
(* BackpathCallTargets then finds every target in the table, among the      *)
(* instructions that begin a block.                                         *)
(***************************************************************************)
EXTENDS CodeGen, SequenceTheorems, WellFoundedInduction, TLAPS

(* The places of the nodes an item of the agenda will have patched. *)
Stands(v, node) ==
  \/ v.do \in {"block", "stmt"} /\ v.at = node
  \/ v.do = "else" /\ ElseOf(v.at) = node

Covered(t, node) == \E j \in DOMAIN t : Stands(t[j], node)

(* The successor of every item is visited after it. *)
Ahead(t) ==
  \A i \in DOMAIN t :
    t[i].succ = NoNode \/ \E j \in i + 1..Len(t) : Stands(t[j], t[i].succ)

(* An item of main that may be followed by the null node: its visit makes   *)
(* no jump wait for its successor.                                          *)
Harmless(v) ==
  \/ v.do = "end"
  \/ v.do = "stmt" /\ v.stmts[1].kind = "decl"
  \/ v.do = "block" /\ v.stmts # <<>> /\ v.stmts[Len(v.stmts)].kind = "decl"

InHand(t) == \A i \in DOMAIN t : t[i].do = "stmt" => t[i].stmts # <<>>

Started == todo # <<>> \/ back_patch # {} => streams # <<>>

WaitersAreCovered == \A b \in back_patch : b[1] = NoNode \/ Covered(todo, b[1])

MainIsClosed ==
  Len(streams) = 1 =>
    /\ \A b \in back_patch : b[1] # NoNode
    /\ \A i \in DOMAIN todo : todo[i].succ = NoNode => Harmless(todo[i])

Complete(n) == n < Len(streams) \/ todo = <<>>

(* A target that has been filled in is one of the stream's addresses, or,   *)
(* while the stream is being written, the address that comes next.          *)
TargetsWithin ==
  \A n \in DOMAIN streams : \A i \in DOMAIN streams[n] :
    streams[n][i].op \in Jumps =>
      \/ streams[n][i].to = Unpatched
      \/ /\ streams[n][i].to \in 0..Len(streams[n])
         /\ Complete(n) => streams[n][i].to # Len(streams[n])

ReentriesWithin == \A j \in DOMAIN todo : todo[j].addr <= Len(stream)

EndIsLast == todo # <<>> => todo[Len(todo)].do = "end"

MainReturns ==
  streams # <<>> /\ Complete(1) =>
    streams[1] # <<>> /\ streams[1][Len(streams[1])].op = "retmain"

TargetsInv ==
  /\ TargetsWithin
  /\ ReentriesWithin
  /\ EndIsLast
  /\ MainReturns

IInv ==
  /\ TypeOK
  /\ TargetsInv
  /\ Started
  /\ InHand(todo)
  /\ Ahead(todo)
  /\ WaitersAreCovered
  /\ PatchesFindTheirJumps
  /\ MainIsClosed

-----------------------------------------------------------------------------
(* Sequences. *)

LEMMA TailIs ==
  ASSUME NEW S, NEW t \in Seq(S), t # <<>>
  PROVE  /\ Len(t) \in Nat \ {0}
         /\ t[1] \in S
         /\ Tail(t) \in Seq(S)
         /\ Len(Tail(t)) = Len(t) - 1
         /\ \A i \in 1..Len(t) - 1 : Tail(t)[i] = t[i + 1]
  BY EmptySeq, HeadTailProperties

LEMMA ConcatIs ==
  ASSUME NEW S, NEW s \in Seq(S), NEW t \in Seq(S)
  PROVE  /\ s \o t \in Seq(S)
         /\ Len(s) \in Nat /\ Len(t) \in Nat
         /\ Len(s \o t) = Len(s) + Len(t)
         /\ \A i \in 1..Len(s) : (s \o t)[i] = s[i]
         /\ \A i \in 1..Len(t) : (s \o t)[Len(s) + i] = t[i]
<1>1. /\ s \o t \in Seq(S) /\ Len(s \o t) = Len(s) + Len(t)
      /\ \A i \in 1..Len(s) + Len(t) :
           (s \o t)[i] = IF i <= Len(s) THEN s[i] ELSE t[i - Len(s)]
  BY ConcatProperties
<1>2. Len(s) \in Nat /\ Len(t) \in Nat  BY LenProperties
<1>3. ASSUME NEW i \in 1..Len(t) PROVE (s \o t)[Len(s) + i] = t[i]
  <2>1. Len(s) + i \in 1..Len(s) + Len(t) /\ ~(Len(s) + i <= Len(s)) /\ Len(s) + i - Len(s) = i
    BY <1>2
  <2> QED BY <1>1, <2>1
<1>4. ASSUME NEW i \in 1..Len(s) PROVE (s \o t)[i] = s[i]
  <2>1. i \in 1..Len(s) + Len(t) /\ i <= Len(s)  BY <1>2
  <2> QED BY <1>1, <2>1
<1> QED BY <1>1, <1>2, <1>3, <1>4

-----------------------------------------------------------------------------
(* The agenda. *)

(* What a node waits for is found in either part of an agenda. *)
LEMMA CoveredByPart ==
  ASSUME NEW front \in Seq(Visits), NEW rest \in Seq(Visits), NEW node,
         Covered(front, node) \/ Covered(rest, node)
  PROVE  Covered(front \o rest, node)
<1> DEFINE t == front \o rest
<1>1. /\ Len(t) = Len(front) + Len(rest) /\ Len(front) \in Nat /\ Len(rest) \in Nat
      /\ \A i \in 1..Len(front) : t[i] = front[i]
      /\ \A i \in 1..Len(rest) : t[Len(front) + i] = rest[i]
      /\ DOMAIN t = 1..Len(t) /\ DOMAIN front = 1..Len(front) /\ DOMAIN rest = 1..Len(rest)
  BY ConcatIs, LenProperties
<1> HIDE DEF t
<1>2. CASE Covered(front, node)
  <2>1. PICK j \in DOMAIN front : Stands(front[j], node)  BY <1>2 DEF Covered
  <2>2. j \in DOMAIN t /\ t[j] = front[j]  BY <1>1
  <2> QED BY <2>1, <2>2 DEF Covered, t
<1>3. CASE Covered(rest, node)
  <2>1. PICK j \in DOMAIN rest : Stands(rest[j], node)  BY <1>3 DEF Covered
  <2>2. Len(front) + j \in DOMAIN t /\ t[Len(front) + j] = rest[j]  BY <1>1
  <2> QED BY <2>1, <2>2 DEF Covered, t
<1> QED BY <1>2, <1>3

(* What is left of the agenda after its first item is done. *)
LEMMA TailOfAgenda ==
  ASSUME NEW t \in Seq(Visits), t # <<>>
  PROVE  /\ Ahead(t) => Ahead(Tail(t)) /\ (t[1].succ = NoNode \/ Covered(Tail(t), t[1].succ))
         /\ InHand(t) => InHand(Tail(t))
         /\ \A node : Covered(t, node) => Stands(t[1], node) \/ Covered(Tail(t), node)
<1> DEFINE r == Tail(t)
<1>1. /\ Len(t) \in Nat \ {0} /\ Len(r) = Len(t) - 1
      /\ \A i \in 1..Len(t) - 1 : r[i] = t[i + 1]
      /\ DOMAIN t = 1..Len(t) /\ DOMAIN r = 1..Len(t) - 1
  BY TailIs, LenProperties
<1> HIDE DEF r
<1>2. ASSUME NEW i \in DOMAIN t, i # 1 PROVE i - 1 \in DOMAIN r /\ r[i - 1] = t[i]
  <2>1. i - 1 \in 1..Len(t) - 1 /\ i - 1 + 1 = i  BY <1>1, <1>2
  <2> QED BY <1>1, <2>1
<1>3. ASSUME NEW i \in DOMAIN r PROVE i + 1 \in DOMAIN t /\ t[i + 1] = r[i]
  BY <1>1
<1>4. ASSUME Ahead(t) PROVE Ahead(r)
  <2> SUFFICES ASSUME NEW i \in DOMAIN r, r[i].succ # NoNode
               PROVE  \E j \in i + 1..Len(r) : Stands(r[j], r[i].succ)
    BY DEF Ahead
  <2>1. PICK j \in i + 1 + 1..Len(t) : Stands(t[j], t[i + 1].succ)
    BY <1>3, <1>4 DEF Ahead
  <2>2. j - 1 \in i + 1..Len(r) /\ j \in DOMAIN t /\ j # 1  BY <1>1
  <2> QED BY <1>2, <1>3, <2>1, <2>2
<1>5. ASSUME Ahead(t), t[1].succ # NoNode PROVE Covered(r, t[1].succ)
  <2>1. 1 \in DOMAIN t  BY <1>1
  <2>2. PICK j \in 1 + 1..Len(t) : Stands(t[j], t[1].succ)  BY <1>5, <2>1 DEF Ahead
  <2>3. j \in DOMAIN t /\ j # 1  BY <1>1
  <2> QED BY <1>2, <2>2, <2>3 DEF Covered
<1>6. ASSUME InHand(t) PROVE InHand(r)
  BY <1>3, <1>6 DEF InHand
<1>7. ASSUME NEW node, Covered(t, node) PROVE Stands(t[1], node) \/ Covered(r, node)
  <2>1. PICK j \in DOMAIN t : Stands(t[j], node)  BY <1>7 DEF Covered
  <2>2. CASE j = 1  BY <2>1, <2>2
  <2>3. CASE j # 1  BY <1>2, <2>1, <2>3 DEF Covered
  <2> QED BY <2>2, <2>3
<1> QED BY <1>4, <1>5, <1>6, <1>7 DEF r

(* The items a visit puts in front keep the order: each is followed by its  *)
(* successor among them, or in the rest of the agenda.                      *)
LEMMA NewAgenda ==
  ASSUME NEW front \in Seq(Visits), NEW rest \in Seq(Visits), Ahead(rest),
         \A i \in DOMAIN front :
           \/ front[i].succ = NoNode
           \/ \E j \in i + 1..Len(front) : Stands(front[j], front[i].succ)
           \/ Covered(rest, front[i].succ)
  PROVE  Ahead(front \o rest)
<1> DEFINE t == front \o rest
<1>1. /\ Len(t) = Len(front) + Len(rest) /\ Len(front) \in Nat /\ Len(rest) \in Nat
      /\ \A i \in 1..Len(front) : t[i] = front[i]
      /\ \A i \in 1..Len(rest) : t[Len(front) + i] = rest[i]
      /\ DOMAIN t = 1..Len(t) /\ DOMAIN front = 1..Len(front) /\ DOMAIN rest = 1..Len(rest)
  BY ConcatIs, LenProperties
<1> HIDE DEF t
<1> SUFFICES ASSUME NEW i \in DOMAIN t, t[i].succ # NoNode
             PROVE  \E j \in i + 1..Len(t) : Stands(t[j], t[i].succ)
  BY DEF Ahead, t
<1>2. CASE i <= Len(front)
  <2>1. i \in DOMAIN front /\ t[i] = front[i]  BY <1>1, <1>2
  <2>2. CASE \E j \in i + 1..Len(front) : Stands(front[j], front[i].succ)
    <3>1. PICK j \in i + 1..Len(front) : Stands(front[j], front[i].succ)  BY <2>2
    <3>2. j \in i + 1..Len(t) /\ j \in 1..Len(front)  BY <1>1, <2>1
    <3> QED BY <1>1, <2>1, <3>1, <3>2
  <2>3. CASE Covered(rest, front[i].succ)
    <3>1. PICK j \in DOMAIN rest : Stands(rest[j], front[i].succ)  BY <2>3 DEF Covered
    <3>2. Len(front) + j \in i + 1..Len(t)  BY <1>1, <1>2
    <3> QED BY <1>1, <2>1, <3>1, <3>2
  <2> QED BY <2>1, <2>2, <2>3
<1>3. CASE i > Len(front)
  <2> DEFINE k == i - Len(front)
  <2>1. k \in DOMAIN rest /\ Len(front) + k = i  BY <1>1, <1>3
  <2>2. t[i] = rest[k]  BY <1>1, <2>1
  <2>3. PICK j \in k + 1..Len(rest) : Stands(rest[j], rest[k].succ)
    BY <2>1, <2>2 DEF Ahead
  <2>4. Len(front) + j \in i + 1..Len(t) /\ j \in 1..Len(rest)  BY <1>1, <2>1
  <2> QED BY <1>1, <2>2, <2>3, <2>4
<1> QED BY <1>1, <1>2, <1>3

LEMMA ItemsOf ==
  ASSUME NEW front \in Seq(Visits), NEW t \in Seq(Visits), t # <<>>, NEW i \in DOMAIN (front \o Tail(t))
  PROVE  \/ \E k \in DOMAIN front : (front \o Tail(t))[i] = front[k]
         \/ \E k \in DOMAIN t : (front \o Tail(t))[i] = t[k]
<1> DEFINE r == Tail(t)
           n == front \o r
<1>1. r \in Seq(Visits) /\ Len(t) \in Nat /\ Len(r) = Len(t) - 1 /\ DOMAIN t = 1..Len(t)
      /\ \A k \in 1..Len(t) - 1 : r[k] = t[k + 1]
  BY TailIs, LenProperties
<1>2. /\ Len(n) = Len(front) + Len(r) /\ Len(front) \in Nat /\ Len(r) \in Nat
      /\ \A k \in 1..Len(front) : n[k] = front[k]
      /\ \A k \in 1..Len(r) : n[Len(front) + k] = r[k]
      /\ DOMAIN n = 1..Len(n) /\ DOMAIN front = 1..Len(front)
  BY <1>1, ConcatIs, LenProperties
<1>3. i \in DOMAIN n  OBVIOUS
<1>4. (\E k \in DOMAIN front : n[i] = front[k]) \/ (\E k \in DOMAIN t : n[i] = t[k])
  <2> HIDE DEF n, r
  <2>1. CASE i <= Len(front)  BY <1>2, <1>3, <2>1
  <2>2. CASE i > Len(front)
    <3> DEFINE k == i - Len(front)
    <3>1. k \in 1..Len(r) /\ Len(front) + k = i  BY <1>2, <1>3, <2>2
    <3>2. n[i] = r[k]  BY <1>2, <3>1
    <3>3. k \in 1..Len(t) - 1 /\ k + 1 \in DOMAIN t  BY <1>1, <3>1
    <3> QED BY <1>1, <3>2, <3>3
  <2> QED BY <1>2, <1>3, <2>1, <2>2
<1> QED BY <1>4

-----------------------------------------------------------------------------
(* One visit. *)

(* A stream that continues the current one: only targets were filled in.    *)
Continues(s) ==
  /\ s \in Seq(Insts)
  /\ Len(stream) <= Len(s)
  /\ \A i \in DOMAIN stream : s[i].op = stream[i].op

(* What a visit has to do to the agenda, to the waiting jumps and to the    *)
(* stream: put items in front that are followed by each other or by its own *)
(* successor, make jumps wait for those, and let the ones that wait for its *)
(* own node go.                                                             *)
Advances(front, waits, gone, s) ==
  /\ front \in Seq(Visits)
  /\ waits \in SUBSET (Seq(Nat) \X Nat)
  /\ Continues(s)
  /\ InHand(front)
  /\ \A b \in waits : b[2] + 1 \in DOMAIN s /\ s[b[2] + 1].op \in Jumps
  /\ \A b \in back_patch \ gone : Stands(todo[1], b[1]) => Covered(front, b[1])
  /\ \A b \in waits : b[1] = todo[1].succ \/ Covered(front, b[1])
  /\ \A i \in DOMAIN front :
       \/ front[i].succ = todo[1].succ
       \/ \E j \in i + 1..Len(front) : Stands(front[j], front[i].succ)
  /\ Len(streams) = 1 =>
       /\ \A b \in waits : b[1] # NoNode
       /\ \A i \in DOMAIN front : front[i].succ = NoNode => Harmless(front[i])

(* ... and what it may do to targets: fill them in with the next address,   *)
(* and with an end complete the stream beyond every one of them.            *)
Lands(front, s) ==
  /\ \A i \in DOMAIN s :
       s[i].op \in Jumps => s[i].to = Unpatched \/ s[i].to \in 0..Len(stream)
  /\ \A i \in DOMAIN front : front[i].addr <= Len(stream)
  /\ todo[1].do = "end" =>
       /\ front = <<>> /\ Len(stream) < Len(s)
       /\ Len(streams) = 1 => s[Len(s)].op = "retmain"

LEMMA StreamIs ==
  ASSUME TypeOK, Started, todo # <<>>
  PROVE  /\ Len(streams) \in Nat \ {0} /\ DOMAIN streams = 1..Len(streams)
         /\ Len(streams) \in DOMAIN streams
         /\ stream \in Seq(Insts) /\ Len(stream) \in Nat /\ DOMAIN stream = 1..Len(stream)
         /\ \A i \in DOMAIN stream : stream[i] \in Insts
<1>1. streams \in Seq(Seq(Insts)) /\ streams # <<>>  BY DEF TypeOK, Started
<1>2. /\ Len(streams) \in Nat \ {0} /\ DOMAIN streams = 1..Len(streams)
      /\ Len(streams) \in DOMAIN streams
  BY <1>1, EmptySeq, LenProperties
<1>3. stream \in Seq(Insts)  BY <1>1, <1>2, ElementOfSeq DEF stream
<1>4. Len(stream) \in Nat /\ DOMAIN stream = 1..Len(stream)  BY <1>3, LenProperties
<1> QED BY <1>2, <1>3, <1>4, ElementOfSeq

LEMMA WithinMore ==
  ASSUME NEW a \in Nat, NEW b \in Nat, a <= b, NEW x \in 0..a
  PROVE  x \in 0..b /\ (a < b => x # b)
  OBVIOUS

LEMMA NoLess ==
  ASSUME NEW x \in Nat, NEW y \in Nat, NEW z \in Nat, x <= y, y <= z
  PROVE  x <= z
  OBVIOUS

LEMMA TargetsStep ==
  ASSUME TypeOK, Started, TargetsInv, todo # <<>>, NEW front \in Seq(Visits), NEW s,
         Continues(s), Lands(front, s),
         streams' \in Seq(Seq(Insts)),
         streams' = [streams EXCEPT ![Len(streams)] = s], Len(streams') = Len(streams),
         todo' = front \o Tail(todo)
  PROVE  TargetsInv'
<1> DEFINE r == Tail(todo)
           n == Len(streams)
<1>1. /\ n \in Nat \ {0} /\ DOMAIN streams = 1..n /\ n \in DOMAIN streams
      /\ Len(stream) \in Nat /\ DOMAIN stream = 1..Len(stream) /\ stream = streams[n]
  BY StreamIs DEF stream
<1>2. /\ DOMAIN streams' = 1..n /\ Len(streams') = n /\ streams'[n] = s /\ stream' = s
      /\ \A k \in 1..n : k # n => streams'[k] = streams[k]
  <2>1. Len(streams') = n /\ streams' = [streams EXCEPT ![n] = s]  OBVIOUS
  <2>2. DOMAIN streams' = 1..n
    <3> DEFINE C == Seq(Insts)
    <3> HIDE DEF C
    <3>1. streams' \in Seq(C)  BY DEF C
    <3> QED BY <2>1, <3>1, LenProperties
  <2> HIDE DEF n
  <2>3. streams'[n] = s /\ \A k \in 1..n : k # n => streams'[k] = streams[k]
    BY <1>1, <2>1
  <2>4. stream' = s  BY <2>1, <2>3 DEF stream
  <2> QED BY <2>1, <2>2, <2>3, <2>4
<1>3. s \in Seq(Insts) /\ Len(s) \in Nat /\ DOMAIN s = 1..Len(s) /\ Len(stream) <= Len(s)
  BY LenProperties DEF Continues
<1>4. todo \in Seq(Visits) /\ r \in Seq(Visits) /\ Len(todo) \in Nat \ {0}
      /\ Len(r) = Len(todo) - 1 /\ \A i \in 1..Len(todo) - 1 : r[i] = todo[i + 1]
      /\ DOMAIN todo = 1..Len(todo)
  BY TailIs, LenProperties DEF TypeOK
<1>5. /\ todo' \in Seq(Visits) /\ Len(todo') = Len(front) + Len(r)
      /\ Len(front) \in Nat /\ DOMAIN todo' = 1..Len(todo')
      /\ \A i \in 1..Len(front) : todo'[i] = front[i]
      /\ \A i \in 1..Len(r) : todo'[Len(front) + i] = r[i]
      /\ DOMAIN front = 1..Len(front)
  BY <1>4, ConcatIs, LenProperties
<1>6. Len(r) = 0 => /\ front = <<>> /\ Len(stream) < Len(s)
                    /\ n = 1 => s[Len(s)].op = "retmain"
  <2> SUFFICES ASSUME Len(r) = 0 PROVE todo[1].do = "end"
    BY DEF Lands
  <2>1. Len(todo) = 1  BY <1>4
  <2> QED BY <2>1 DEF TargetsInv, EndIsLast
<1>7. todo' = <<>> <=> Len(r) = 0 /\ front = <<>>
  <2>0. \A q \in Seq(Visits) : q = <<>> <=> Len(q) = 0  BY EmptySeq
  <2>1. todo' = <<>> <=> Len(todo') = 0  BY <1>5, <2>0
  <2>2. front = <<>> <=> Len(front) = 0  BY <2>0
  <2>3. Len(todo') = Len(front) + Len(r) /\ Len(front) \in Nat /\ Len(r) \in Nat
    BY <1>4, <1>5, LenProperties
  <2> HIDE DEF r
  <2>4. Len(todo') = 0 <=> Len(r) = 0 /\ Len(front) = 0  BY <2>3
  <2> QED BY <2>1, <2>2, <2>4
<1> HIDE DEF r, n
<1>12. Len(stream) \in Nat /\ Len(s) \in Nat /\ Len(stream) <= Len(s)  BY <1>1, <1>3
<1>8. TargetsWithin'
  <2> SUFFICES ASSUME NEW k \in DOMAIN streams', NEW i \in DOMAIN streams'[k],
                      streams'[k][i].op \in Jumps, streams'[k][i].to # Unpatched
               PROVE  /\ streams'[k][i].to \in 0..Len(streams'[k])
                      /\ Complete(k)' => streams'[k][i].to # Len(streams'[k])
    BY DEF TargetsWithin, Jumps, Unpatched
  <2>0. k \in 1..n /\ (Complete(k)' <=> k < n \/ todo' = <<>>)  BY <1>2 DEF Complete
  <2>1. CASE k # n
    <3>1. k < n /\ k \in DOMAIN streams /\ streams'[k] = streams[k]  BY <1>1, <1>2, <2>0, <2>1
    <3>2. Complete(k)  BY <3>1 DEF Complete, n
    <3> QED BY <3>1, <3>2 DEF TargetsInv, TargetsWithin
  <2>2. CASE k = n
    <3>1. streams'[k] = s  BY <1>2, <2>2
    <3>2. s[i].to \in 0..Len(stream)  BY <3>1 DEF Lands
    <3>3. s[i].to \in 0..Len(s)  BY <1>12, <3>2, WithinMore, Zenon
    <3>4. todo' = <<>> => s[i].to # Len(s)
      <4>1. todo' = <<>> => Len(stream) < Len(s)  BY <1>6, <1>7
      <4> QED BY <1>12, <3>2, <4>1, WithinMore, Zenon
    <3>5. ~ (k < n)  BY <1>1, <2>2
    <3> QED BY <2>0, <3>1, <3>3, <3>4, <3>5
  <2> QED BY <2>1, <2>2
<1>9. ReentriesWithin'
  <2> SUFFICES ASSUME NEW j \in 1..Len(todo') PROVE todo'[j].addr <= Len(s)
    BY <1>2, <1>5 DEF ReentriesWithin
  <2>0. todo'[j].addr \in Nat
    <3>1. todo'[j] \in Visits  BY <1>5, ElementOfSeq
    <3> QED BY <3>1 DEF Visits
  <2>1. CASE j <= Len(front)
    <3>1. j \in 1..Len(front)  BY <1>5, <2>1
    <3>2. todo'[j] = front[j] /\ front[j].addr <= Len(stream)  BY <1>5, <3>1 DEF Lands
    <3>3. front[j].addr \in Nat  BY <2>0, <3>2
    <3> QED BY <1>12, <3>2, <3>3, NoLess, Zenon
  <2>2. CASE ~ (j <= Len(front))
    <3> DEFINE i == j - Len(front)
    <3>1. i \in 1..Len(r) /\ Len(front) + i = j /\ i + 1 \in DOMAIN todo /\ i \in 1..Len(todo) - 1
      BY <1>4, <1>5, <2>2
    <3>2. todo'[j] = todo[i + 1]  BY <1>4, <1>5, <3>1
    <3>3. todo[i + 1].addr <= Len(stream)  BY <3>1 DEF TargetsInv, ReentriesWithin
    <3>4. todo[i + 1].addr \in Nat  BY <2>0, <3>2
    <3> HIDE DEF i
    <3> QED BY <1>12, <3>2, <3>3, <3>4, NoLess, Zenon
  <2> QED BY <2>1, <2>2
<1>10. EndIsLast'
  <2> SUFFICES ASSUME todo' # <<>> PROVE todo'[Len(todo')].do = "end"
    BY DEF EndIsLast
  <2>1. Len(r) # 0  BY <1>6, <1>7
  <2>2. Len(r) \in 1..Len(r) /\ Len(r) \in 1..Len(todo) - 1 /\ Len(r) + 1 = Len(todo)
    BY <1>4, <2>1
  <2>3. todo'[Len(todo')] = todo[Len(todo)]  BY <1>4, <1>5, <2>2
  <2> QED BY <2>3 DEF TargetsInv, EndIsLast
<1>11. MainReturns'
  <2> SUFFICES ASSUME 1 < n \/ todo' = <<>>
               PROVE  streams'[1] # <<>> /\ streams'[1][Len(streams'[1])].op = "retmain"
    BY <1>2 DEF MainReturns, Complete
  <2>1. CASE 1 < n
    <3>1. 1 \in 1..n /\ 1 # n  BY <1>1, <2>1
    <3>2. streams # <<>> /\ Complete(1)  BY <2>1 DEF Complete, n, Started
    <3> QED BY <1>2, <3>1, <3>2 DEF TargetsInv, MainReturns
  <2>2. CASE ~ (1 < n)
    <3>1. n = 1  BY <1>1, <2>2
    <3>2. s # <<>>
      <4>1. Len(s) # 0  BY <1>1, <1>3, <1>6, <1>7, <2>2
      <4> QED BY <4>1, EmptySeq
    <3> QED BY <1>2, <1>6, <1>7, <2>2, <3>1, <3>2
  <2> QED BY <2>1, <2>2
<1> QED BY <1>8, <1>9, <1>10, <1>11 DEF TargetsInv

LEMMA AgendaStep ==
  ASSUME IInv, todo # <<>>, NEW front, NEW waits, NEW gone, NEW s,
         Advances(front, waits, gone, s), Lands(front, s),
         streams' = [streams EXCEPT ![Len(streams)] = s],
         todo' = front \o Tail(todo),
         back_patch' = (back_patch \ gone) \cup waits,
         program' = program, aborted' \in BOOLEAN
  PROVE  IInv'
<1> DEFINE r == Tail(todo)
<1>1. TypeOK /\ Started /\ InHand(todo) /\ Ahead(todo) /\ WaitersAreCovered
      /\ PatchesFindTheirJumps /\ MainIsClosed
  BY DEF IInv
<1>2. todo \in Seq(Visits) /\ front \in Seq(Visits)  BY <1>1 DEF TypeOK, Advances
<1>3. r \in Seq(Visits)  BY <1>2, TailIs
<1>4. /\ Len(streams) \in Nat \ {0} /\ Len(streams) \in DOMAIN streams
      /\ streams \in Seq(Seq(Insts))
  BY <1>1, StreamIs DEF TypeOK
<1>5. /\ streams' \in Seq(Seq(Insts)) /\ Len(streams') = Len(streams) /\ stream' = s
  <2>1. s \in Seq(Insts)  BY DEF Advances, Continues
  <2>2. streams' \in Seq(Seq(Insts)) /\ Len(streams') = Len(streams)
        /\ streams'[Len(streams)] = s
    BY <1>4, <2>1, ExceptSeq
  <2> QED BY <2>2 DEF stream
<1>6. TypeOK'
  <2>1. todo' \in Seq(Visits)  BY <1>2, <1>3, ConcatIs
  <2>2. back_patch' \in SUBSET (Seq(Nat) \X Nat)  BY <1>1 DEF TypeOK, Advances
  <2> QED BY <1>1, <1>5, <2>1, <2>2 DEF TypeOK
<1>7. Started'
  BY <1>4, <1>5, EmptySeq DEF Started
<1>8. /\ Ahead(r) /\ (todo[1].succ = NoNode \/ Covered(r, todo[1].succ))
      /\ \A node : Covered(todo, node) => Stands(todo[1], node) \/ Covered(r, node)
  BY <1>1, <1>2, TailOfAgenda
<1>9. Ahead(todo)'
  <2>1. \A i \in DOMAIN front :
           \/ front[i].succ = NoNode
           \/ \E j \in i + 1..Len(front) : Stands(front[j], front[i].succ)
           \/ Covered(r, front[i].succ)
    BY <1>8 DEF Advances
  <2>2. Ahead(front \o r)  BY <1>2, <1>3, <1>8, <2>1, NewAgenda
  <2> QED BY <2>2 DEF Ahead, Stands, ElseOf, r
<1>10. \A node : Covered(front, node) \/ Covered(r, node) => Covered(todo', node)
  BY <1>2, <1>3, CoveredByPart
<1>11. \A i \in DOMAIN todo' : \/ \E k \in DOMAIN front : todo'[i] = front[k]
                               \/ \E k \in DOMAIN todo : todo'[i] = todo[k]
  BY <1>2, ItemsOf
<1> HIDE DEF r
<1>12. InHand(todo)'
  BY <1>1, <1>11 DEF InHand, Advances
<1>13. WaitersAreCovered'
  <2> SUFFICES ASSUME NEW b \in back_patch', b[1] # NoNode PROVE Covered(todo', b[1])
    BY DEF WaitersAreCovered, Covered, Stands
  <2>1. CASE b \in waits
    <3>1. b[1] = todo[1].succ \/ Covered(front, b[1])  BY <2>1 DEF Advances
    <3> QED BY <1>8, <1>10, <3>1
  <2>2. CASE b \in back_patch \ gone
    <3>1. Covered(todo, b[1])  BY <1>1, <2>2 DEF WaitersAreCovered
    <3>2. Stands(todo[1], b[1]) => Covered(front, b[1])  BY <2>2 DEF Advances
    <3> QED BY <1>8, <1>10, <3>1, <3>2
  <2> QED BY <2>1, <2>2
<1>14. PatchesFindTheirJumps'
  <2> SUFFICES ASSUME NEW b \in back_patch', b[1] # NoNode
               PROVE  b[2] + 1 \in DOMAIN s /\ s[b[2] + 1].op \in Jumps
    BY <1>5 DEF PatchesFindTheirJumps, Jumps
  <2>1. CASE b \in waits  BY <2>1 DEF Advances
  <2>2. CASE b \in back_patch \ gone
    <3>1. b[2] + 1 \in DOMAIN stream /\ stream[b[2] + 1].op \in Jumps
      BY <1>1, <2>2 DEF PatchesFindTheirJumps
    <3>2. Continues(s)  BY DEF Advances
    <3>3. DOMAIN stream = 1..Len(stream) /\ DOMAIN s = 1..Len(s)
          /\ Len(s) \in Nat /\ Len(stream) \in Nat
      BY <1>1, <3>2, StreamIs, LenProperties DEF Continues
    <3> QED BY <3>1, <3>2, <3>3 DEF Continues
  <2> QED BY <2>1, <2>2
<1>15. MainIsClosed'
  <2> SUFFICES ASSUME Len(streams) = 1
               PROVE  /\ \A b \in back_patch' : b[1] # NoNode
                      /\ \A i \in DOMAIN todo' : todo'[i].succ = NoNode => Harmless(todo'[i])
    BY <1>5 DEF MainIsClosed, Harmless
  <2>1. \A b \in back_patch' : b[1] # NoNode  BY <1>1 DEF MainIsClosed, Advances
  <2>2. ASSUME NEW i \in DOMAIN todo', todo'[i].succ = NoNode PROVE Harmless(todo'[i])
    BY <1>1, <1>11, <2>2 DEF MainIsClosed, Advances
  <2> QED BY <2>1, <2>2
<1>16. TargetsInv'
  <2>1. TargetsInv /\ Continues(s)  BY DEF IInv, Advances
  <2> QED BY <1>1, <1>2, <1>4, <1>5, <2>1, TargetsStep
<1> QED BY <1>6, <1>7, <1>9, <1>12, <1>13, <1>14, <1>15, <1>16 DEF IInv

-----------------------------------------------------------------------------
(* The parts of the visits. *)

LEMMA NodesAreSeqs ==
  ASSUME NEW p \in Seq(Nat), NEW j \in Nat
  PROVE  Append(p, j) \in Seq(Nat) /\ Append(p, j) # NoNode
  BY AppendProperties, EmptySeq DEF NoNode

LEMMA VisitIsTyped ==
  ASSUME TypeOK, todo # <<>>
  PROVE  /\ todo[1] \in Visits
         /\ todo[1].at \in Seq(Nat) /\ todo[1].succ \in Seq(Nat) /\ todo[1].addr \in Nat
         /\ todo[1].stmts \in Seq(Statement \cup {TestDecl})
         /\ DOMAIN todo[1].stmts = 1..Len(todo[1].stmts) /\ Len(todo[1].stmts) \in Nat
<1>1. todo[1] \in Visits  BY TailIs DEF TypeOK
<1>2. /\ todo[1].at \in Seq(Nat) /\ todo[1].succ \in Seq(Nat) /\ todo[1].addr \in Nat
      /\ todo[1].stmts \in Seq(Statement \cup {TestDecl})
  BY <1>1 DEF Visits
<1> QED BY <1>1, <1>2, LenProperties

LEMMA NewInst ==
  ASSUME NEW op \in Jumps \cup {"do", "call", "test", "ret", "retmain"},
         NEW node \in Seq(Nat), NEW target \in Int
  PROVE  Inst(op, node, target) \in Insts /\ Inst(op, node, target).op = op
  BY DEF Inst, Insts

(* Every statement in hand has its blocks in Statement. *)
LEMMA StatementIsTyped ==
  ASSUME NEW t \in Statement \cup {TestDecl}
  PROVE  /\ t.then \in Seq(Statement \cup {TestDecl})
         /\ t.else \in Seq(Statement \cup {TestDecl})
         /\ t.callee \in Nat
<1>1. CASE t \in Statement
  <2>1. t.then \in Seq(Statement) /\ t.else \in Seq(Statement) /\ t.callee \in Nat
    BY <1>1, StatementAssumption
  <2>2. \A q \in Seq(Statement) : q \in Seq(Statement \cup {TestDecl})
    BY SeqMonotonic
  <2> QED BY <2>1, <2>2
<1>2. CASE t = TestDecl
  BY <1>2, EmptySeq DEF TestDecl
<1> QED BY <1>1, <1>2

LEMMA PatchedContinues ==
  ASSUME TypeOK, Started, todo # <<>>, NEW node
  PROVE  /\ Continues(Patched(node))
         /\ Len(Patched(node)) = Len(stream)
<1>1. /\ stream \in Seq(Insts) /\ Len(stream) \in Nat /\ DOMAIN stream = 1..Len(stream)
      /\ \A i \in DOMAIN stream : stream[i] \in Insts
  BY StreamIs
<1>2. ASSUME NEW i \in DOMAIN stream
      PROVE  Patched(node)[i] \in Insts /\ Patched(node)[i].op = stream[i].op
  <2>1. \A x \in Insts, n \in Int : [x EXCEPT !.to = n] \in Insts /\ [x EXCEPT !.to = n].op = x.op
    BY DEF Insts
  <2>2. NextAddress(stream) \in Int  BY <1>1 DEF NextAddress
  <2> QED BY <1>1, <2>1, <2>2 DEF Patched
<1>3. DOMAIN Patched(node) = 1..Len(stream)  BY <1>1 DEF Patched
<1>4. Patched(node) \in [1..Len(stream) -> Insts]
  BY <1>1, <1>2, <1>3 DEF Patched
<1>5. Patched(node) \in Seq(Insts) /\ Len(Patched(node)) = Len(stream)
  BY <1>1, <1>4, LenProperties
<1> QED BY <1>1, <1>2, <1>5 DEF Continues

LEMMA PatchedLands ==
  ASSUME IInv, todo # <<>>, NEW node, NEW i \in DOMAIN Patched(node),
         Patched(node)[i].op \in Jumps, Patched(node)[i].to # Unpatched
  PROVE  Patched(node)[i].to \in 0..Len(stream)
<1>1. /\ stream \in Seq(Insts) /\ Len(stream) \in Nat /\ DOMAIN stream = 1..Len(stream)
      /\ \A k \in DOMAIN stream : stream[k] \in Insts
      /\ Len(streams) \in DOMAIN streams /\ stream = streams[Len(streams)]
  BY StreamIs DEF stream, IInv
<1>2. i \in DOMAIN stream  BY DEF Patched
<1>3. CASE <<node, i - 1>> \in back_patch
  <2>1. Patched(node)[i] = [stream[i] EXCEPT !.to = Len(stream)]
    BY <1>2, <1>3 DEF Patched, NextAddress
  <2>2. stream[i] \in Insts  BY <1>1, <1>2
  <2>3. Patched(node)[i].to = Len(stream)  BY <2>1, <2>2 DEF Insts
  <2> QED BY <1>1, <2>3
<1>4. CASE <<node, i - 1>> \notin back_patch
  <2>1. Patched(node)[i] = stream[i]  BY <1>2, <1>4 DEF Patched
  <2> QED BY <1>1, <1>2, <2>1 DEF IInv, TargetsInv, TargetsWithin
<1> QED BY <1>3, <1>4

LEMMA AppendContinues ==
  ASSUME TypeOK, Started, todo # <<>>, NEW s, Continues(s), NEW new \in Seq(Insts)
  PROVE  /\ Continues(s \o new)
         /\ DOMAIN (s \o new) = 1..Len(s) + Len(new)
         /\ \A i \in 1..Len(new) : (s \o new)[Len(s) + i] = new[i]
<1>1. s \in Seq(Insts)  BY DEF Continues
<1>2. /\ s \o new \in Seq(Insts)
      /\ Len(s) \in Nat /\ Len(new) \in Nat
      /\ Len(s \o new) = Len(s) + Len(new)
      /\ \A i \in 1..Len(s) : (s \o new)[i] = s[i]
      /\ \A i \in 1..Len(new) : (s \o new)[Len(s) + i] = new[i]
  BY <1>1, ConcatIs
<1>3. DOMAIN stream = 1..Len(stream) /\ Len(stream) \in Nat  BY StreamIs
<1>4. \A i \in DOMAIN stream : i \in 1..Len(s) /\ (s \o new)[i].op = stream[i].op
  BY <1>2, <1>3 DEF Continues
<1>5. Len(stream) <= Len(s \o new)  BY <1>2, <1>3 DEF Continues
<1> QED BY <1>2, <1>4, <1>5, LenProperties DEF Continues

(* Visiting a node lets go every jump that waits for it. *)
LEMMA OwnWaitersGo ==
  ASSUME todo[1].do \in {"block", "stmt"}, NEW b \in back_patch \ NoLongerWaiting(todo[1].at)
  PROVE  ~Stands(todo[1], b[1])
  BY DEF Stands, NoLongerWaiting, Waiting

-----------------------------------------------------------------------------
(* Each action. *)

LEMMA NewStreamStep ==
  ASSUME IInv, NewStream
  PROVE  IInv'
<1> DEFINE n == Len(streams) + 1
           block == Visit("block", <<n>>, Body(n), NoNode, 0)
           end == Visit("end", <<n>>, <<>>, NoNode, 0)
<1>1. TypeOK /\ Started /\ WaitersAreCovered /\ MainIsClosed  BY DEF IInv
<1>2. /\ streams \in Seq(Seq(Insts)) /\ Len(streams) \in Nat /\ program \in Seq(Seq(Statement))
      /\ n \in 1..Len(program) /\ n \in Nat
  BY <1>1, ProgramsAssumption, LenProperties DEF TypeOK, NewStream
<1>3. program[n] \in Seq(Statement)  BY <1>2, ElementOfSeq
<1>4. program[n] \in Seq(Statement \cup {TestDecl})  BY <1>3, SeqMonotonic
<1>5. /\ Append(program[n], TestDecl) \in Seq(Statement \cup {TestDecl})
      /\ Append(program[n], TestDecl) # <<>>
      /\ Append(program[n], TestDecl)[Len(Append(program[n], TestDecl))].kind = "decl"
  <2>1. /\ Append(program[n], TestDecl) \in Seq(Statement \cup {TestDecl})
        /\ Append(program[n], TestDecl) # <<>>
        /\ Len(Append(program[n], TestDecl)) = Len(program[n]) + 1
        /\ Append(program[n], TestDecl)[Len(program[n]) + 1] = TestDecl
    BY <1>4, AppendProperties
  <2> QED BY <2>1 DEF TestDecl
<1>6. Body(n) \in Seq(Statement \cup {TestDecl})  BY <1>4, <1>5 DEF Body
<1>7. <<n>> \in Seq(Nat) /\ NoNode \in Seq(Nat) /\ <<>> \in Seq(Statement \cup {TestDecl})
  BY <1>2, EmptySeq DEF NoNode
<1>8. /\ block \in Visits /\ block.do = "block" /\ block.stmts = Body(n) /\ block.succ = NoNode
      /\ end \in Visits /\ end.do = "end" /\ end.succ = NoNode
  BY <1>6, <1>7 DEF Visit, Visits
<1> HIDE DEF block, end
<1>9. todo' = <<block, end>> /\ streams' = Append(streams, <<>>) /\ todo = <<>>
      /\ program' = program /\ back_patch' = back_patch /\ aborted' = aborted
  <2>1. streams' = Append(streams, <<>>) /\ todo = <<>>  BY DEF NewStream
  <2>2. UNCHANGED <<program, back_patch, aborted>>  BY DEF NewStream
  <2>3. todo' = <<block, end>>  BY DEF NewStream, block, end
  <2> QED BY <2>1, <2>2, <2>3
<1>10. /\ streams' \in Seq(Seq(Insts)) /\ Len(streams') = n
       /\ todo' \in Seq(Visits) /\ DOMAIN todo' = 1..2 /\ todo'[1] = block /\ todo'[2] = end
  <2>1. <<>> \in Seq(Insts)  BY EmptySeq
  <2>2. streams' \in Seq(Seq(Insts)) /\ Len(streams') = n
    BY <1>2, <1>9, <2>1, AppendProperties
  <2>3. todo' \in Seq(Visits) /\ DOMAIN todo' = 1..2 /\ todo'[1] = block /\ todo'[2] = end
    BY <1>8, <1>9
  <2> QED BY <2>2, <2>3
<1>11. TypeOK'  BY <1>1, <1>9, <1>10 DEF TypeOK
<1>12. Started'  BY <1>2, <1>10, EmptySeq DEF Started
<1>13. InHand(todo)'  BY <1>8, <1>10 DEF InHand
<1>14. Ahead(todo)'
  <2>1. \A i \in DOMAIN todo' : todo'[i].succ = NoNode  BY <1>8, <1>10
  <2> QED BY <2>1 DEF Ahead, NoNode
<1>15. \A b \in back_patch : b[1] = NoNode
  BY <1>1, <1>9 DEF WaitersAreCovered, Covered
<1>16. WaitersAreCovered' /\ PatchesFindTheirJumps'
  BY <1>9, <1>15 DEF WaitersAreCovered, PatchesFindTheirJumps, NoNode
<1>17. MainIsClosed'
  <2> SUFFICES ASSUME Len(streams') = 1
               PROVE  /\ \A b \in back_patch : b[1] # NoNode
                      /\ \A i \in DOMAIN todo' : Harmless(todo'[i])
    BY <1>9 DEF MainIsClosed, NoNode, Harmless
  <2>0. n = 1 /\ Len(streams) = 0
    <3>1. Len(streams') = n /\ Len(streams) \in Nat  BY <1>2, <1>10
    <3> QED BY <3>1
  <2>1. n = 1 /\ streams = <<>>  BY <1>2, <2>0, EmptySeq
  <2>2. back_patch = {}  BY <1>1, <2>1 DEF Started
  <2>3. Harmless(block)  BY <1>5, <1>8, <2>1 DEF Harmless, Body
  <2>4. Harmless(end)  BY <1>8 DEF Harmless
  <2> QED BY <1>10, <2>2, <2>3, <2>4
<1>18. TargetsInv'
  <2>1. TargetsInv  BY DEF IInv
  <2>2. /\ DOMAIN streams = 1..n - 1 /\ DOMAIN streams' = 1..n /\ streams'[n] = <<>>
        /\ \A k \in 1..n - 1 : streams'[k] = streams[k]
    <3> DEFINE C == Seq(Insts)
    <3> HIDE DEF C
    <3>1. streams \in Seq(C) /\ <<>> \in C /\ streams' = Append(streams, <<>>)
      BY <1>2, <1>9, EmptySeq DEF C
    <3>2. /\ streams' \in Seq(C) /\ Len(streams') = Len(streams) + 1
          /\ \A k \in 1..Len(streams) : streams'[k] = streams[k]
          /\ streams'[Len(streams) + 1] = <<>>
      BY <3>1, AppendProperties
    <3> QED BY <1>2, <3>1, <3>2, LenProperties
  <2>3. stream' = <<>> /\ Len(streams') = n  BY <1>10, <2>2 DEF stream
  <2>4. todo' # <<>> /\ Len(todo') = 2 /\ todo'[1].addr = 0 /\ todo'[2].addr = 0
    BY <1>9 DEF block, end, Visit
  <2> HIDE DEF n
  <2>5. TargetsWithin'
    <3> SUFFICES ASSUME NEW k \in 1..n, NEW i \in DOMAIN streams'[k],
                        streams'[k][i].op \in Jumps, streams'[k][i].to # Unpatched
                 PROVE  /\ streams'[k][i].to \in 0..Len(streams'[k])
                        /\ streams'[k][i].to # Len(streams'[k])
      BY <2>2 DEF TargetsWithin, Jumps, Unpatched
    <3>1. k # n  BY <2>2
    <3>2. k \in 1..n - 1  BY <1>2, <3>1
    <3>3. streams'[k] = streams[k] /\ k \in DOMAIN streams /\ Complete(k)
      BY <1>9, <2>2, <3>2 DEF Complete
    <3> QED BY <2>1, <3>3 DEF TargetsInv, TargetsWithin
  <2>6. ReentriesWithin'
    <3>1. \A j \in DOMAIN todo' : todo'[j].addr = 0  BY <1>10, <2>4
    <3> QED BY <2>3, <3>1, EmptySeq DEF ReentriesWithin
  <2>7. EndIsLast'  BY <1>8, <1>10, <2>4 DEF EndIsLast
  <2>8. MainReturns'
    <3> SUFFICES ASSUME 1 < n
                 PROVE  streams'[1] # <<>> /\ streams'[1][Len(streams'[1])].op = "retmain"
      BY <2>3, <2>4 DEF MainReturns, Complete
    <3>1. 1 \in 1..n - 1  BY <1>2
    <3>2. streams # <<>>
      <4>1. 1 \in DOMAIN streams /\ DOMAIN <<>> = {}  BY <2>2, <3>1
      <4> QED BY <4>1
    <3>3. Complete(1)  BY <1>9 DEF Complete
    <3> QED BY <2>1, <2>2, <3>1, <3>2, <3>3 DEF TargetsInv, MainReturns
  <2> QED BY <2>5, <2>6, <2>7, <2>8 DEF TargetsInv
<1> QED BY <1>11, <1>12, <1>13, <1>14, <1>16, <1>17, <1>18 DEF IInv

LEMMA VisitBlockStep ==
  ASSUME IInv, VisitBlock
  PROVE  IInv'
<1> DEFINE v == todo[1]
           front == [j \in DOMAIN v.stmts |->
                       Visit("stmt", Append(v.at, j), <<v.stmts[j]>>, SuccessorIn(v, j), 0)]
           gone == NoLongerWaiting(v.at)
           s == Patched(v.at)
<1>1. todo # <<>> /\ v.do = "block" /\ TypeOK /\ Started /\ MainIsClosed
  BY DEF VisitBlock, Visiting, IInv
<1>2. /\ v \in Visits /\ v.at \in Seq(Nat) /\ v.succ \in Seq(Nat)
      /\ v.stmts \in Seq(Statement \cup {TestDecl})
      /\ DOMAIN v.stmts = 1..Len(v.stmts) /\ Len(v.stmts) \in Nat
  BY <1>1, VisitIsTyped
<1>3. /\ streams' = [streams EXCEPT ![Len(streams)] = s]
      /\ todo' = front \o Tail(todo)
      /\ back_patch' = (back_patch \ gone) \cup {}
      /\ program' = program /\ aborted' \in BOOLEAN
  BY DEF VisitBlock, SetStream, BadCast
<1>4. ASSUME NEW j \in 1..Len(v.stmts)
      PROVE  /\ front[j] \in Visits /\ front[j].do = "stmt" /\ front[j].at = Append(v.at, j)
             /\ front[j].stmts = <<v.stmts[j]>> /\ front[j].succ = SuccessorIn(v, j)
             /\ front[j].addr = 0
  <2>1. Append(v.at, j) \in Seq(Nat) /\ Append(v.at, j + 1) \in Seq(Nat)
    BY <1>2, NodesAreSeqs
  <2>2. SuccessorIn(v, j) \in Seq(Nat)  BY <1>2, <2>1 DEF SuccessorIn
  <2>3. <<v.stmts[j]>> \in Seq(Statement \cup {TestDecl})  BY <1>2, ElementOfSeq
  <2>4. front[j] = Visit("stmt", Append(v.at, j), <<v.stmts[j]>>, SuccessorIn(v, j), 0)
    BY <1>2
  <2>5. 0 \in Nat  OBVIOUS
  <2> DEFINE w == Visit("stmt", Append(v.at, j), <<v.stmts[j]>>, SuccessorIn(v, j), 0)
  <2>6. /\ w \in Visits /\ w.do = "stmt" /\ w.at = Append(v.at, j)
        /\ w.stmts = <<v.stmts[j]>> /\ w.succ = SuccessorIn(v, j) /\ w.addr = 0
    <3> DEFINE node == Append(v.at, j)
               stmts == <<v.stmts[j]>>
               succ == SuccessorIn(v, j)
    <3>1. node \in Seq(Nat) /\ stmts \in Seq(Statement \cup {TestDecl}) /\ succ \in Seq(Nat)
      BY <2>1, <2>2, <2>3
    <3> HIDE DEF node, stmts, succ
    <3>2. LET x == Visit("stmt", node, stmts, succ, 0)
          IN  /\ x \in Visits /\ x.do = "stmt" /\ x.at = node /\ x.stmts = stmts
              /\ x.succ = succ /\ x.addr = 0
      BY <3>1 DEF Visit, Visits
    <3> QED BY <3>2 DEF node, stmts, succ
  <2> HIDE DEF front, w
  <2>7. front[j] = w  BY <2>4 DEF w
  <2> QED BY <2>6, <2>7
<1>5. DOMAIN front = 1..Len(v.stmts) /\ front \in Seq(Visits) /\ Len(front) = Len(v.stmts)
  <2>1. DOMAIN front = 1..Len(v.stmts)  BY <1>2
  <2>2. front \in [1..Len(v.stmts) -> Visits]  BY <1>2, <1>4
  <2> QED BY <1>2, <2>1, <2>2, LenProperties
<1> HIDE DEF front
<1>6. InHand(front)
  <2> SUFFICES ASSUME NEW i \in DOMAIN front PROVE front[i].stmts # <<>>
    BY DEF InHand
  <2>1. front[i].stmts = <<v.stmts[i]>>  BY <1>4, <1>5
  <2> QED BY <2>1
<1>7. ASSUME NEW i \in DOMAIN front
      PROVE  \/ front[i].succ = v.succ
             \/ \E j \in i + 1..Len(front) : Stands(front[j], front[i].succ)
  <2>1. CASE i < Len(v.stmts)
    <3>1. i + 1 \in 1..Len(v.stmts) /\ i + 1 \in i + 1..Len(front)  BY <1>2, <1>5, <2>1
    <3>2. front[i].succ = Append(v.at, i + 1)  BY <1>4, <1>5, <2>1 DEF SuccessorIn
    <3>3. Stands(front[i + 1], front[i].succ)  BY <1>4, <3>1, <3>2 DEF Stands
    <3> QED BY <3>1, <3>3
  <2>2. CASE ~(i < Len(v.stmts))  BY <1>4, <1>5, <2>2 DEF SuccessorIn
  <2> QED BY <2>1, <2>2
<1>8. ASSUME Len(streams) = 1, NEW i \in DOMAIN front, front[i].succ = NoNode
      PROVE  Harmless(front[i])
  <2>1. i \in 1..Len(v.stmts) /\ Append(v.at, i + 1) # NoNode  BY <1>2, <1>5, NodesAreSeqs
  <2>2. i = Len(v.stmts) /\ v.succ = NoNode
    <3>1. SuccessorIn(v, i) = NoNode  BY <1>4, <1>8, <2>1
    <3>2. ~(i < Len(v.stmts))  BY <2>1, <3>1 DEF SuccessorIn
    <3> QED BY <1>2, <2>1, <3>1, <3>2 DEF SuccessorIn
  <2>3. Harmless(v)
    <3>1. 1 \in DOMAIN todo  BY <1>1, TailIs, LenProperties DEF TypeOK
    <3> QED BY <1>1, <1>8, <2>2, <3>1 DEF MainIsClosed
  <2>4. v.stmts[i].kind = "decl"  BY <1>1, <2>2, <2>3 DEF Harmless
  <2>5. front[i].do = "stmt" /\ front[i].stmts[1] = v.stmts[i]  BY <1>4, <2>1
  <2> QED BY <2>4, <2>5 DEF Harmless
<1>9. Advances(front, {}, gone, s)
  <2>1. Continues(s)  BY <1>1, PatchedContinues
  <2>2. \A b \in back_patch \ gone : ~Stands(todo[1], b[1])  BY <1>1, OwnWaitersGo
  <2> QED BY <1>5, <1>6, <1>7, <1>8, <2>1, <2>2 DEF Advances
<1>10. Lands(front, s)
  <2>1. Len(stream) \in Nat  BY <1>1, StreamIs
  <2>2. \A i \in DOMAIN front : front[i].addr <= Len(stream)  BY <1>4, <1>5, <2>1
  <2>3. \A i \in DOMAIN s :
          s[i].op \in Jumps => s[i].to = Unpatched \/ s[i].to \in 0..Len(stream)
    BY <1>1, PatchedLands
  <2> QED BY <1>1, <2>2, <2>3 DEF Lands
<1> QED BY <1>1, <1>3, <1>9, <1>10, AgendaStep

(* A jump that main makes wait for the successor of a visit waits for a     *)
(* node: only declarations end a block of main whose successor is null.     *)
LEMMA SuccessorInMain ==
  ASSUME TypeOK, MainIsClosed, todo # <<>>, Len(streams) = 1, ~Harmless(todo[1])
  PROVE  todo[1].succ # NoNode
<1>1. 1 \in DOMAIN todo  BY TailIs, LenProperties DEF TypeOK
<1> QED BY <1>1 DEF MainIsClosed

(* The visit of a statement: what its code, its jumps and its visits have   *)
(* to be.                                                                   *)
LEMMA StatementStep ==
  ASSUME IInv, Visiting("stmt"), NEW kind, NEW insts, NEW waits, NEW visits,
         VisitStmt(kind, insts, waits, visits),
         insts \in Seq(Insts), visits \in Seq(Visits), waits \in SUBSET (Seq(Nat) \X Nat),
         \A i \in DOMAIN visits : visits[i].do # "stmt",
         \A b \in waits : \E i \in 1..Len(insts) :
           b[2] + 1 = Len(stream) + i /\ insts[i].op \in Jumps,
         \A b \in waits : b[1] = todo[1].succ \/ (b[1] # NoNode /\ Covered(visits, b[1])),
         \A i \in DOMAIN visits : visits[i].succ = todo[1].succ,
         \A i \in DOMAIN visits : visits[i].addr <= Len(stream),
         \A i \in 1..Len(insts) : insts[i].op \in Jumps => insts[i].to = 0,
         (waits = {} /\ visits = <<>>) \/ kind # "decl"
  PROVE  IInv'
<1> DEFINE v == todo[1]
           gone == NoLongerWaiting(v.at)
           s == Patched(v.at) \o insts
<1>1. todo # <<>> /\ v.do = "stmt" /\ v.stmts[1].kind = kind /\ TypeOK /\ Started /\ MainIsClosed
  BY DEF Visiting, VisitStmt, IInv
<1>2. /\ streams' = [streams EXCEPT ![Len(streams)] = s]
      /\ todo' = visits \o Tail(todo)
      /\ back_patch' = (back_patch \ gone) \cup waits
      /\ program' = program /\ aborted' \in BOOLEAN
  BY DEF VisitStmt, SetStream, BadCast
<1>3. Continues(Patched(v.at)) /\ Len(Patched(v.at)) = Len(stream)  BY <1>1, PatchedContinues
<1>4. /\ Continues(s)
      /\ DOMAIN s = 1..Len(stream) + Len(insts)
      /\ \A i \in 1..Len(insts) : s[Len(stream) + i] = insts[i]
  <2> DEFINE p == Patched(v.at)
  <2>1. Continues(p) /\ Len(p) = Len(stream)  BY <1>3
  <2> HIDE DEF p
  <2>2. /\ Continues(p \o insts)
        /\ DOMAIN (p \o insts) = 1..Len(p) + Len(insts)
        /\ \A i \in 1..Len(insts) : (p \o insts)[Len(p) + i] = insts[i]
    BY <1>1, <2>1, AppendContinues
  <2> QED BY <2>1, <2>2 DEF p
<1>5. \A b \in back_patch \ gone : ~Stands(todo[1], b[1])  BY <1>1, OwnWaitersGo
<1>6. ASSUME NEW b \in waits PROVE b[2] + 1 \in DOMAIN s /\ s[b[2] + 1].op \in Jumps
  <2>1. PICK i \in 1..Len(insts) : b[2] + 1 = Len(stream) + i /\ insts[i].op \in Jumps
    OBVIOUS
  <2>2. Len(stream) \in Nat /\ Len(insts) \in Nat  BY <1>1, StreamIs, LenProperties
  <2> HIDE DEF s
  <2>3. Len(stream) + i \in DOMAIN s /\ s[Len(stream) + i] = insts[i]  BY <1>4, <2>2
  <2> QED BY <2>1, <2>3
<1>7. ASSUME Len(streams) = 1
      PROVE  /\ \A b \in waits : b[1] # NoNode
             /\ \A i \in DOMAIN visits : visits[i].succ = NoNode => Harmless(visits[i])
  <2>1. CASE waits = {} /\ visits = <<>>  BY <2>1
  <2>2. CASE kind # "decl"
    <3>1. ~Harmless(v)  BY <1>1, <2>2 DEF Harmless
    <3>2. v.succ # NoNode  BY <1>1, <1>7, <3>1, SuccessorInMain
    <3> QED BY <3>2
  <2> QED BY <2>1, <2>2
<1>8. InHand(visits)  BY DEF InHand
<1>9. Advances(visits, waits, gone, s)
  <2> HIDE DEF gone, s
  <2>1. \A b \in waits : b[1] = todo[1].succ \/ Covered(visits, b[1])  OBVIOUS
  <2> QED BY <1>4, <1>5, <1>6, <1>7, <1>8, <2>1 DEF Advances
<1>10. ASSUME NEW i \in DOMAIN s, s[i].op \in Jumps
       PROVE  s[i].to = Unpatched \/ s[i].to \in 0..Len(stream)
  <2> DEFINE p == Patched(v.at)
  <2>0. Len(stream) \in Nat /\ Len(insts) \in Nat  BY <1>1, StreamIs, LenProperties
  <2>1. /\ p \in Seq(Insts) /\ Len(p) = Len(stream) /\ DOMAIN p = 1..Len(p)
    BY <1>3, LenProperties DEF Continues
  <2>2. \A k \in 1..Len(p) : s[k] = p[k]
    <3> HIDE DEF p
    <3> QED BY <2>1, ConcatIs DEF p
  <2>3. CASE i <= Len(stream)
    <3>1. i \in DOMAIN p /\ s[i] = p[i]  BY <1>4, <2>0, <2>1, <2>2, <2>3
    <3>2. p[i].op \in Jumps  BY <1>10, <3>1
    <3>3. p[i].to = Unpatched \/ p[i].to \in 0..Len(stream)
      BY <1>1, <3>1, <3>2, PatchedLands
    <3> QED BY <3>1, <3>3
  <2>4. CASE ~ (i <= Len(stream))
    <3> DEFINE k == i - Len(stream)
    <3>1. k \in 1..Len(insts) /\ Len(stream) + k = i  BY <1>4, <2>0, <2>4
    <3>2. s[i] = insts[k]  BY <1>4, <3>1
    <3>3. s[i].to = 0  BY <1>10, <3>1, <3>2
    <3> QED BY <2>0, <3>3
  <2> QED BY <2>3, <2>4
<1>11. Lands(visits, s)
  <2> HIDE DEF s
  <2> QED BY <1>1, <1>10 DEF Lands
<1> QED BY <1>1, <1>2, <1>9, <1>11, AgendaStep

(* The visit of a statement without a block. *)
LEMMA SimpleStep ==
  ASSUME IInv, Visiting("stmt"), NEW kind, NEW insts \in Seq(Insts),
         VisitStmt(kind, insts, {}, <<>>),
         \A i \in 1..Len(insts) : insts[i].op \notin Jumps
  PROVE  IInv'
<1>1. <<>> \in Seq(Visits)  BY EmptySeq
<1>2. \A i \in DOMAIN <<>> : FALSE  OBVIOUS
<1> QED BY <1>1, <1>2, StatementStep

LEMMA PlainStatementsStep ==
  ASSUME IInv, VisitDecl \/ VisitAssign \/ VisitReturn \/ VisitCall
  PROVE  IInv'
<1> DEFINE v == todo[1]
<1>1. Visiting("stmt") /\ todo # <<>> /\ TypeOK /\ InHand(todo)
  BY DEF VisitDecl, VisitAssign, VisitReturn, VisitCall, Visiting, IInv
<1>2. v.at \in Seq(Nat) /\ v.stmts \in Seq(Statement \cup {TestDecl}) /\ 0 \in Int
  BY <1>1, VisitIsTyped
<1>3. v.stmts # <<>>
  <2>1. 1 \in DOMAIN todo  BY <1>1, TailIs, LenProperties DEF TypeOK
  <2> QED BY <1>1, <2>1 DEF InHand, Visiting
<1>4. v.stmts[1].callee \in Int
  <2>1. v.stmts[1] \in Statement \cup {TestDecl}  BY <1>2, <1>3, TailIs
  <2> QED BY <2>1, StatementIsTyped
<1>5. <<>> \in Seq(Insts)  BY EmptySeq
<1>6. Inst("do", v.at, 0) \in Insts /\ Inst("call", v.at, v.stmts[1].callee) \in Insts
  BY <1>2, <1>4 DEF Inst, Insts
<1>7. <<Inst("do", v.at, 0)>> \in Seq(Insts)
      /\ <<Inst("call", v.at, v.stmts[1].callee)>> \in Seq(Insts)
  BY <1>6
<1>12. /\ \A i \in 1..Len(<<>>) : <<>>[i].op \notin Jumps
       /\ \A i \in 1..Len(<<Inst("do", v.at, 0)>>) : <<Inst("do", v.at, 0)>>[i].op \notin Jumps
       /\ \A i \in 1..Len(<<Inst("call", v.at, v.stmts[1].callee)>>) :
            <<Inst("call", v.at, v.stmts[1].callee)>>[i].op \notin Jumps
  BY DEF Inst, Jumps
<1>8. CASE VisitDecl  BY <1>1, <1>5, <1>8, <1>12, SimpleStep DEF VisitDecl
<1>9. CASE VisitAssign  BY <1>1, <1>7, <1>9, <1>12, SimpleStep DEF VisitAssign
<1>10. CASE VisitReturn  BY <1>1, <1>7, <1>10, <1>12, SimpleStep DEF VisitReturn
<1>11. CASE VisitCall  BY <1>1, <1>7, <1>11, <1>12, SimpleStep DEF VisitCall
<1> QED BY <1>8, <1>9, <1>10, <1>11

LEMMA BranchIs ==
  ASSUME NEW node \in Seq(Nat)
  PROVE  /\ Branch(node) \in Seq(Insts) /\ Len(Branch(node)) = 3
         /\ Branch(node)[2].op \in Jumps /\ Branch(node)[3].op \in Jumps
         /\ \A i \in 1..3 : Branch(node)[i].to = 0
<1>1. \A op \in {"test", "jt", "jf"} :
        /\ Inst(op, node, 0) \in Insts /\ Inst(op, node, 0).op = op /\ Inst(op, node, 0).to = 0
  BY DEF Inst, Insts, Jumps
<1>2. Inst("test", node, 0) \in Insts /\ Inst("jt", node, 0) \in Insts /\ Inst("jf", node, 0) \in Insts
  BY <1>1
<1>3. Inst("jt", node, 0).op = "jt" /\ Inst("jf", node, 0).op = "jf"  BY <1>1
<1>4. "jt" \in Jumps /\ "jf" \in Jumps  BY DEF Jumps
<1>5. /\ Branch(node) \in Seq(Insts) /\ Len(Branch(node)) = 3
      /\ Branch(node)[1] = Inst("test", node, 0)
      /\ Branch(node)[2] = Inst("jt", node, 0) /\ Branch(node)[3] = Inst("jf", node, 0)
  BY <1>2 DEF Branch
<1>6. \A i \in 1..3 : i = 1 \/ i = 2 \/ i = 3  OBVIOUS
<1>7. \A i \in 1..3 : Branch(node)[i].to = 0  BY <1>1, <1>5, <1>6
<1> QED BY <1>3, <1>4, <1>5, <1>7

(* The visit of an if or of a while: a jump to its block, one past it, and  *)
(* the two parts that follow.                                               *)
LEMMA BranchStep ==
  ASSUME IInv, Visiting("stmt"), NEW kind \in {"if", "while"}, NEW last \in Visits, NEW otherwise,
         LET jt == JumpIfTrueAddress
         IN  VisitStmt(kind, Branch(todo[1].at),
                       {<<ThenOf(todo[1].at), jt>>, <<otherwise, jt + 1>>},
                       << Visit("block", ThenOf(todo[1].at), todo[1].stmts[1].then, todo[1].succ, 0),
                          last >>),
         last.succ = todo[1].succ, last.do # "stmt", last.addr <= Len(stream),
         \/ otherwise = todo[1].succ
         \/ otherwise \in Seq(Nat) /\ otherwise # NoNode /\ Stands(last, otherwise)
  PROVE  IInv'
<1> DEFINE v == todo[1]
           jt == JumpIfTrueAddress
           insts == Branch(v.at)
           waits == {<<ThenOf(v.at), jt>>, <<otherwise, jt + 1>>}
           block == Visit("block", ThenOf(v.at), v.stmts[1].then, v.succ, 0)
           visits == <<block, last>>
<1>1. todo # <<>> /\ TypeOK /\ Started /\ InHand(todo) /\ v.do = "stmt"
  BY DEF Visiting, IInv
<1>2. /\ v.at \in Seq(Nat) /\ v.succ \in Seq(Nat)
      /\ v.stmts \in Seq(Statement \cup {TestDecl})
  BY <1>1, VisitIsTyped
<1>3. v.stmts[1].then \in Seq(Statement \cup {TestDecl})
  <2>1. 1 \in DOMAIN todo  BY <1>1, TailIs, LenProperties DEF TypeOK
  <2>2. v.stmts # <<>>  BY <1>1, <2>1 DEF InHand
  <2>3. v.stmts[1] \in Statement \cup {TestDecl}  BY <1>2, <2>2, TailIs
  <2> QED BY <2>3, StatementIsTyped
<1>4. ThenOf(v.at) \in Seq(Nat) /\ ThenOf(v.at) # NoNode  BY <1>2, NodesAreSeqs DEF ThenOf
<1>5. /\ block \in Visits /\ block.do = "block" /\ block.at = ThenOf(v.at) /\ block.succ = v.succ
      /\ block.addr = 0
  BY <1>2, <1>3, <1>4 DEF Visit, Visits
<1>6. Len(stream) \in Nat /\ jt = Len(stream) + 1 /\ jt \in Nat
  BY <1>1, StreamIs DEF JumpIfTrueAddress, NextAddress
<1>7. /\ insts \in Seq(Insts) /\ Len(insts) = 3 /\ insts[2].op \in Jumps /\ insts[3].op \in Jumps
      /\ \A i \in 1..Len(insts) : insts[i].to = 0
  BY <1>2, BranchIs
<1> HIDE DEF v, jt, insts, block
<1>8. visits \in Seq(Visits) /\ DOMAIN visits = 1..2 /\ visits[1] = block /\ visits[2] = last
  BY <1>5
<1>9. waits \in SUBSET (Seq(Nat) \X Nat)
  <2>1. otherwise \in Seq(Nat)  BY <1>2 DEF v
  <2> QED BY <1>4, <1>6, <2>1
<1>10. VisitStmt(kind, insts, waits, visits)  BY DEF v, jt, insts, block
<1> HIDE DEF visits
<1>11. \A i \in DOMAIN visits : visits[i].do # "stmt" /\ visits[i].succ = v.succ
  BY <1>5, <1>8 DEF v
<1>12. ASSUME NEW b \in waits
       PROVE  \E i \in 1..Len(insts) : b[2] + 1 = Len(stream) + i /\ insts[i].op \in Jumps
  <2>1. CASE b = <<ThenOf(v.at), jt>>
    <3>1. 2 \in 1..Len(insts) /\ b[2] + 1 = Len(stream) + 2  BY <1>6, <1>7, <2>1
    <3> QED BY <1>7, <3>1
  <2>2. CASE b = <<otherwise, jt + 1>>
    <3>1. 3 \in 1..Len(insts) /\ b[2] + 1 = Len(stream) + 3  BY <1>6, <1>7, <2>2
    <3> QED BY <1>7, <3>1
  <2> QED BY <2>1, <2>2
<1>13. ASSUME NEW b \in waits PROVE b[1] = v.succ \/ (b[1] # NoNode /\ Covered(visits, b[1]))
  <2>1. CASE b = <<ThenOf(v.at), jt>>
    <3>1. b[1] = ThenOf(v.at) /\ 1 \in DOMAIN visits  BY <1>8, <2>1
    <3>2. Stands(visits[1], b[1])  BY <1>5, <1>8, <3>1 DEF Stands
    <3> QED BY <1>4, <3>1, <3>2 DEF Covered
  <2>2. CASE b = <<otherwise, jt + 1>>
    <3>1. b[1] = otherwise /\ 2 \in DOMAIN visits /\ visits[2] = last  BY <1>8, <2>2
    <3>2. CASE otherwise = v.succ  BY <3>1, <3>2
    <3>3. CASE otherwise # NoNode /\ Stands(last, otherwise)
      <4>1. Stands(visits[2], b[1])  BY <3>1, <3>3
      <4> QED BY <3>1, <3>3, <4>1 DEF Covered
    <3> QED BY <3>2, <3>3 DEF v
  <2> QED BY <2>1, <2>2
<1>14. \A i \in DOMAIN visits : visits[i].addr <= Len(stream)
  BY <1>5, <1>6, <1>8
<1> HIDE DEF waits
<1> QED
  <2>1. kind # "decl"  OBVIOUS
  <2> QED BY <1>7, <1>8, <1>9, <1>10, <1>11, <1>12, <1>13, <1>14, <2>1, StatementStep DEF v

LEMMA VisitIfStep ==
  ASSUME IInv, VisitIf
  PROVE  IInv'
<1> DEFINE v == todo[1]
           last == Visit("else", v.at, v.stmts[1].else, v.succ, 0)
           otherwise == IF HasElse(v.stmts[1]) THEN ElseOf(v.at) ELSE v.succ
<1>1. todo # <<>> /\ TypeOK /\ InHand(todo) /\ v.do = "stmt" /\ Visiting("stmt")
  BY DEF VisitIf, Visiting, IInv
<1>2. v.at \in Seq(Nat) /\ v.succ \in Seq(Nat) /\ v.stmts \in Seq(Statement \cup {TestDecl})
  BY <1>1, VisitIsTyped
<1>3. v.stmts[1].else \in Seq(Statement \cup {TestDecl})
  <2>1. 1 \in DOMAIN todo  BY <1>1, TailIs, LenProperties DEF TypeOK
  <2>2. v.stmts # <<>>  BY <1>1, <2>1 DEF InHand
  <2>3. v.stmts[1] \in Statement \cup {TestDecl}  BY <1>2, <2>2, TailIs
  <2> QED BY <2>3, StatementIsTyped
<1>4. /\ last \in Visits /\ last.do = "else" /\ last.at = v.at /\ last.succ = v.succ
      /\ last.addr = 0
  BY <1>2, <1>3 DEF Visit, Visits
<1>5. ElseOf(v.at) \in Seq(Nat) /\ ElseOf(v.at) # NoNode  BY <1>2, NodesAreSeqs DEF ElseOf
<1>6. \/ otherwise = v.succ
      \/ otherwise \in Seq(Nat) /\ otherwise # NoNode /\ Stands(last, otherwise)
  BY <1>4, <1>5 DEF Stands
<1>7. LET jt == JumpIfTrueAddress
      IN  VisitStmt("if", Branch(v.at), {<<ThenOf(v.at), jt>>, <<otherwise, jt + 1>>},
                    << Visit("block", ThenOf(v.at), v.stmts[1].then, v.succ, 0), last >>)
  BY DEF VisitIf
<1>8. last.addr <= Len(stream)
  <2>1. Len(stream) \in Nat  BY <1>1, StreamIs DEF IInv
  <2> QED BY <1>4, <2>1
<1> HIDE DEF last, otherwise
<1> QED BY <1>1, <1>4, <1>6, <1>7, <1>8, BranchStep

LEMMA VisitWhileStep ==
  ASSUME IInv, VisitWhile
  PROVE  IInv'
<1> DEFINE v == todo[1]
           last == Visit("loop", v.at, <<>>, v.succ, reentry_addr)
<1>1. todo # <<>> /\ TypeOK /\ Started /\ Visiting("stmt")
  BY DEF VisitWhile, Visiting, IInv
<1>2. v.at \in Seq(Nat) /\ v.succ \in Seq(Nat)  BY <1>1, VisitIsTyped
<1>3. /\ reentry_addr \in Nat /\ reentry_addr <= Len(stream)
      /\ <<>> \in Seq(Statement \cup {TestDecl})
  BY <1>1, StreamIs, EmptySeq DEF reentry_addr, NextAddress
<1>4. last \in Visits /\ last.do = "loop" /\ last.succ = v.succ /\ last.addr <= Len(stream)
  BY <1>2, <1>3 DEF Visit, Visits
<1>5. LET jt == JumpIfTrueAddress
      IN  VisitStmt("while", Branch(v.at), {<<ThenOf(v.at), jt>>, <<v.succ, jt + 1>>},
                    << Visit("block", ThenOf(v.at), v.stmts[1].then, v.succ, 0), last >>)
  BY DEF VisitWhile
<1> HIDE DEF last
<1> QED BY <1>1, <1>4, <1>5, BranchStep

(* The jump out of an if's block. *)
LEMMA ExitIs ==
  ASSUME TypeOK, Started, todo # <<>>, NEW x \in Insts
  PROVE  /\ Continues(Append(stream, x))
         /\ NextAddress(stream) \in Nat
         /\ NextAddress(stream) + 1 \in DOMAIN Append(stream, x)
         /\ Append(stream, x)[NextAddress(stream) + 1] = x
         /\ DOMAIN Append(stream, x) = 1..Len(stream) + 1
         /\ Len(Append(stream, x)) = Len(stream) + 1
         /\ \A i \in 1..Len(stream) : Append(stream, x)[i] = stream[i]
<1>1. stream \in Seq(Insts) /\ Len(stream) \in Nat /\ DOMAIN stream = 1..Len(stream)
  BY StreamIs
<1>2. /\ Append(stream, x) \in Seq(Insts)
      /\ Len(Append(stream, x)) = Len(stream) + 1
      /\ \A i \in 1..Len(stream) : Append(stream, x)[i] = stream[i]
      /\ Append(stream, x)[Len(stream) + 1] = x
  BY <1>1, AppendProperties
<1>3. DOMAIN Append(stream, x) = 1..Len(stream) + 1  BY <1>2, LenProperties
<1>4. NextAddress(stream) = Len(stream)  BY DEF NextAddress
<1> QED BY <1>1, <1>2, <1>3, <1>4 DEF Continues

LEMMA ExitLands ==
  ASSUME IInv, todo # <<>>, NEW x \in Insts,
         x.op \in Jumps => x.to = Unpatched \/ x.to \in 0..Len(stream),
         NEW i \in DOMAIN Append(stream, x), Append(stream, x)[i].op \in Jumps
  PROVE  \/ Append(stream, x)[i].to = Unpatched
         \/ Append(stream, x)[i].to \in 0..Len(stream)
<1> DEFINE s == Append(stream, x)
<1>1. /\ DOMAIN s = 1..Len(stream) + 1 /\ s[Len(stream) + 1] = x /\ Len(stream) \in Nat
      /\ \A k \in 1..Len(stream) : s[k] = stream[k]
  BY ExitIs DEF IInv, NextAddress
<1>2. /\ DOMAIN stream = 1..Len(stream)
      /\ Len(streams) \in DOMAIN streams /\ stream = streams[Len(streams)]
  BY StreamIs DEF stream, IInv
<1>0. s[i].op \in Jumps /\ i \in DOMAIN s  OBVIOUS
<1> HIDE DEF s
<1>3. CASE i = Len(stream) + 1  BY <1>0, <1>1, <1>3 DEF s
<1>4. CASE i # Len(stream) + 1
  <2>1. i \in 1..Len(stream)  BY <1>0, <1>1, <1>4
  <2>2. s[i] = stream[i] /\ i \in DOMAIN stream  BY <1>1, <1>2, <2>1
  <2>3. s[i].to = Unpatched \/ s[i].to \in 0..Len(stream)
    BY <1>0, <1>2, <2>2 DEF IInv, TargetsInv, TargetsWithin
  <2> QED BY <2>3 DEF s
<1> QED BY <1>3, <1>4

LEMMA VisitElseStep ==
  ASSUME IInv, VisitElse
  PROVE  IInv'
<1> DEFINE v == todo[1]
           x == Inst("jmp", v.at, Unpatched)
           s == Append(stream, x)
           waits == {<<v.succ, NextAddress(stream)>>}
           block == Visit("block", ElseOf(v.at), v.stmts, v.succ, 0)
           exit == Visit("exit", v.at, <<>>, v.succ, 0)
           front == <<block, exit>>
<1>1. todo # <<>> /\ v.do = "else" /\ TypeOK /\ Started /\ MainIsClosed
  BY DEF VisitElse, Visiting, IInv
<1>2. /\ v.at \in Seq(Nat) /\ v.succ \in Seq(Nat) /\ v.stmts \in Seq(Statement \cup {TestDecl})
      /\ <<>> \in Seq(Statement \cup {TestDecl}) /\ Unpatched \in Int
  BY <1>1, VisitIsTyped, EmptySeq DEF Unpatched
<1>3. ElseOf(v.at) \in Seq(Nat)  BY <1>2, NodesAreSeqs DEF ElseOf
<1>4. /\ block \in Visits /\ block.do = "block" /\ block.at = ElseOf(v.at) /\ block.succ = v.succ
      /\ exit \in Visits /\ exit.do = "exit" /\ exit.succ = v.succ
      /\ block.addr = 0 /\ exit.addr = 0
  BY <1>2, <1>3 DEF Visit, Visits
<1>5. x \in Insts /\ x.op = "jmp" /\ x.op \in Jumps /\ x.to = Unpatched
  BY <1>2 DEF Inst, Insts, Jumps
<1> HIDE DEF x
<1>6. /\ Continues(s) /\ NextAddress(stream) \in Nat
      /\ NextAddress(stream) + 1 \in DOMAIN s /\ s[NextAddress(stream) + 1] = x
  BY <1>1, <1>5, ExitIs
<1>7. /\ streams' = [streams EXCEPT ![Len(streams)] = s]
      /\ todo' = front \o Tail(todo)
      /\ back_patch' = (back_patch \ {}) \cup waits
      /\ program' = program /\ aborted' \in BOOLEAN
  BY DEF VisitElse, AppendExit, SetStream, x
<1> HIDE DEF v, block, exit, s
<1>8. front \in Seq(Visits) /\ DOMAIN front = 1..2 /\ front[1] = block /\ front[2] = exit
  BY <1>4
<1> HIDE DEF front
<1>9. waits \in SUBSET (Seq(Nat) \X Nat)  BY <1>2, <1>6
<1>10. InHand(front)  BY <1>4, <1>8 DEF InHand
<1>11. \A b \in waits : b[2] + 1 \in DOMAIN s /\ s[b[2] + 1].op \in Jumps /\ b[1] = v.succ
  BY <1>5, <1>6
<1>12. \A i \in DOMAIN front : front[i].succ = v.succ  BY <1>4, <1>8
<1>13. ASSUME NEW node, Stands(v, node) PROVE Covered(front, node)
  <2>1. node = ElseOf(v.at)  BY <1>1, <1>13 DEF Stands, v
  <2>2. Stands(front[1], node) /\ 1 \in DOMAIN front  BY <1>4, <1>8, <2>1 DEF Stands
  <2> QED BY <2>2 DEF Covered
<1>14. Len(streams) = 1 => v.succ # NoNode
  <2>1. ~Harmless(v)  BY <1>1 DEF Harmless, v
  <2> QED BY <1>1, <2>1, SuccessorInMain DEF v
<1>15. Advances(front, waits, {}, s)
  <2> HIDE DEF waits
  <2> QED BY <1>6, <1>8, <1>9, <1>10, <1>11, <1>12, <1>13, <1>14 DEF Advances, v
<1>16. Lands(front, s)
  <2>1. \A i \in DOMAIN front : front[i].addr <= Len(stream)
    <3>1. Len(stream) \in Nat  BY <1>1, StreamIs
    <3> QED BY <1>4, <1>8, <3>1
  <2>2. \A i \in DOMAIN s :
          s[i].op \in Jumps => s[i].to = Unpatched \/ s[i].to \in 0..Len(stream)
    BY <1>1, <1>5, ExitLands DEF s
  <2> QED BY <1>1, <2>1, <2>2 DEF Lands, v
<1> QED BY <1>1, <1>7, <1>15, <1>16, AgendaStep

(* The last part of a visit: an instruction, and maybe a jump that waits.   *)
LEMMA LastPartStep ==
  ASSUME IInv, NEW what \in {"exit", "loop", "end"}, Visiting(what), NEW x \in Insts, NEW waits,
         SetStream(Append(stream, x)), todo' = Tail(todo),
         back_patch' = back_patch \cup waits, program' = program, aborted' = aborted,
         \/ waits = {}
         \/ what = "exit" /\ x.op \in Jumps /\ waits = {<<todo[1].succ, NextAddress(stream)>>},
         x.op \in Jumps => x.to = Unpatched \/ x.to \in 0..Len(stream),
         what = "end" /\ Len(streams) = 1 => x.op = "retmain"
  PROVE  IInv'
<1> DEFINE v == todo[1]
           s == Append(stream, x)
<1>1. todo # <<>> /\ v.do = what /\ TypeOK /\ Started /\ MainIsClosed
  BY DEF Visiting, IInv
<1>2. v.succ \in Seq(Nat)  BY <1>1, VisitIsTyped
<1>3. /\ Continues(s) /\ NextAddress(stream) \in Nat
      /\ NextAddress(stream) + 1 \in DOMAIN s /\ s[NextAddress(stream) + 1] = x
  BY <1>1, ExitIs
<1>4. Tail(todo) \in Seq(Visits) /\ <<>> \in Seq(Visits)  BY <1>1, TailIs, EmptySeq DEF TypeOK
<1>5. /\ streams' = [streams EXCEPT ![Len(streams)] = s]
      /\ todo' = <<>> \o Tail(todo)
      /\ back_patch' = (back_patch \ {}) \cup waits
      /\ program' = program /\ aborted' \in BOOLEAN
  <2>1. <<>> \o Tail(todo) = Tail(todo)  BY <1>4, ConcatEmptySeq
  <2> QED BY <1>1, <2>1 DEF SetStream, TypeOK
<1> HIDE DEF s
<1>6. waits \in SUBSET (Seq(Nat) \X Nat)  BY <1>2, <1>3
<1>7. \A b \in waits : b[2] + 1 \in DOMAIN s /\ s[b[2] + 1].op \in Jumps /\ b[1] = v.succ
  BY <1>3
<1>8. \A node : ~Stands(v, node)  BY <1>1 DEF Stands
<1>9. ASSUME Len(streams) = 1, waits # {} PROVE v.succ # NoNode
  <2>1. ~Harmless(v)  BY <1>1, <1>9 DEF Harmless
  <2> QED BY <1>1, <1>9, <2>1, SuccessorInMain
<1>10. Advances(<<>>, waits, {}, s)
  <2>1. \A i \in DOMAIN <<>> : FALSE  OBVIOUS
  <2>2. InHand(<<>>)  BY <2>1 DEF InHand
  <2> QED BY <1>3, <1>4, <1>6, <1>7, <1>8, <1>9, <2>1, <2>2 DEF Advances
<1>11. Lands(<<>>, s)
  <2>1. \A i \in DOMAIN s :
          s[i].op \in Jumps => s[i].to = Unpatched \/ s[i].to \in 0..Len(stream)
    BY <1>1, ExitLands DEF s
  <2>2. Len(s) = Len(stream) + 1 /\ s[Len(s)] = x /\ Len(stream) \in Nat
    BY <1>1, ExitIs DEF s, NextAddress
  <2>3. \A i \in DOMAIN <<>> : FALSE  OBVIOUS
  <2>4. Len(stream) < Len(s)  BY <2>2
  <2> QED BY <1>1, <2>1, <2>2, <2>3, <2>4 DEF Lands
<1> QED BY <1>1, <1>5, <1>10, <1>11, AgendaStep

LEMMA LastPartsStep ==
  ASSUME IInv, ExitElse \/ Loop \/ AppendReturn
  PROVE  IInv'
<1> DEFINE v == todo[1]
<1>1. todo # <<>> /\ TypeOK
  BY DEF ExitElse, Loop, AppendReturn, Visiting, IInv
<1>2. /\ v.at \in Seq(Nat) /\ v.addr \in Int /\ Unpatched \in Int
      /\ NoNode \in Seq(Nat) /\ 0 \in Int
  BY <1>1, VisitIsTyped, EmptySeq DEF Unpatched, NoNode
<1>3. /\ Inst("jmp", v.at, Unpatched) \in Insts /\ Inst("jmp", v.at, Unpatched).op \in Jumps
      /\ Inst("jmp", v.at, v.addr) \in Insts
      /\ Inst("ret", NoNode, 0) \in Insts /\ Inst("retmain", NoNode, 0) \in Insts
      /\ Inst("jmp", v.at, Unpatched).to = Unpatched /\ Inst("jmp", v.at, v.addr).to = v.addr
      /\ Inst("ret", NoNode, 0).op \notin Jumps /\ Inst("retmain", NoNode, 0).op = "retmain"
      /\ "retmain" \notin Jumps
  BY <1>2 DEF Inst, Insts, Jumps
<1>7. v.addr \in 0..Len(stream)
  <2>1. 1 \in DOMAIN todo  BY <1>1, TailIs, LenProperties DEF TypeOK
  <2>2. v.addr <= Len(stream)  BY <2>1 DEF IInv, TargetsInv, ReentriesWithin
  <2>3. v.addr \in Nat /\ Len(stream) \in Nat  BY <1>1, VisitIsTyped, StreamIs DEF IInv
  <2> QED BY <2>2, <2>3
<1>4. CASE ExitElse
  <2>1. /\ Visiting("exit") /\ SetStream(Append(stream, Inst("jmp", v.at, Unpatched)))
        /\ back_patch' = back_patch \cup {<<v.succ, NextAddress(stream)>>}
        /\ todo' = Tail(todo) /\ program' = program /\ aborted' = aborted
    BY <1>4 DEF ExitElse, AppendExit
  <2> QED BY <1>3, <2>1, LastPartStep
<1>5. CASE Loop
  <2>1. /\ Visiting("loop") /\ SetStream(Append(stream, Inst("jmp", v.at, v.addr)))
        /\ back_patch' = back_patch \cup {}
        /\ todo' = Tail(todo) /\ program' = program /\ aborted' = aborted
    BY <1>5 DEF Loop
  <2> QED BY <1>3, <1>7, <2>1, LastPartStep
<1>6. CASE AppendReturn
  <2>1. PICK x \in Insts : /\ SetStream(Append(stream, x)) /\ x.op \notin Jumps
                           /\ Len(streams) = 1 => x.op = "retmain"
    <3>1. CASE Len(streams) = 1
      <4>1. SetStream(Append(stream, Inst("retmain", NoNode, 0)))
        BY <1>6, <3>1 DEF AppendReturn
      <4> QED BY <1>3, <4>1
    <3>2. CASE Len(streams) # 1
      <4>1. SetStream(Append(stream, Inst("ret", NoNode, 0)))
        BY <1>6, <3>2 DEF AppendReturn
      <4> QED BY <1>3, <3>2, <4>1
    <3> QED BY <3>1, <3>2
  <2>2. /\ Visiting("end") /\ back_patch' = back_patch \cup {}
        /\ todo' = Tail(todo) /\ program' = program /\ aborted' = aborted
    BY <1>6 DEF AppendReturn
  <2> QED BY <2>1, <2>2, LastPartStep
<1> QED BY <1>4, <1>5, <1>6

-----------------------------------------------------------------------------
(* The invariant, and what follows from it. *)

LEMMA InitIInv == Init => IInv
<1> SUFFICES ASSUME Init PROVE IInv
  OBVIOUS
<1>1. TypeOK
  <2>1. <<>> \in Seq(Visits) /\ <<>> \in Seq(Seq(Insts))  BY EmptySeq
  <2> QED BY <2>1 DEF Init, TypeOK
<1>2. DOMAIN todo = {} /\ DOMAIN streams = {} /\ back_patch = {} /\ Len(streams) # 1
  BY DEF Init
<1> QED BY <1>1, <1>2 DEF Init, IInv, Started, InHand, Ahead, WaitersAreCovered,
                          PatchesFindTheirJumps, MainIsClosed, TargetsInv, TargetsWithin,
                          ReentriesWithin, EndIsLast, MainReturns

\* The compiler may still give up.
LEMMA SameIR ==
  ASSUME IInv, UNCHANGED <<program, todo, streams, back_patch>>, aborted' \in BOOLEAN
  PROVE  IInv'
<1>1. /\ TypeOK /\ Started /\ InHand(todo) /\ Ahead(todo) /\ WaitersAreCovered
      /\ PatchesFindTheirJumps /\ MainIsClosed /\ TargetsInv
  BY DEF IInv
<1>2. TypeOK'  BY <1>1 DEF TypeOK
<1>3. Started' /\ InHand(todo)'  BY <1>1 DEF Started, InHand
<1>4. Ahead(todo)' /\ WaitersAreCovered'
  BY <1>1 DEF Ahead, WaitersAreCovered, Covered, Stands, NoNode
<1>5. PatchesFindTheirJumps' /\ MainIsClosed'
  BY <1>1 DEF PatchesFindTheirJumps, MainIsClosed, Harmless, stream, NoNode
<1>6. TargetsInv'
  BY <1>1 DEF TargetsInv, TargetsWithin, ReentriesWithin, EndIsLast, MainReturns, Complete,
              stream
<1> QED BY <1>2, <1>3, <1>4, <1>5, <1>6 DEF IInv

LEMMA StepIInv == IInv /\ [Generate]_ir_vars => IInv'
<1> SUFFICES ASSUME IInv, [Generate]_ir_vars PROVE IInv'
  OBVIOUS
<1>1. CASE NewStream  BY <1>1, NewStreamStep
<1>2. CASE AppendReturn \/ ExitElse \/ Loop  BY <1>2, LastPartsStep
<1>3. CASE VisitBlock  BY <1>3, VisitBlockStep
<1>4. CASE VisitDecl \/ VisitAssign \/ VisitReturn \/ VisitCall
  BY <1>4, PlainStatementsStep
<1>5. CASE VisitIf  BY <1>5, VisitIfStep
<1>6. CASE VisitElse  BY <1>6, VisitElseStep
<1>7. CASE VisitWhile  BY <1>7, VisitWhileStep
<1>8. CASE UNCHANGED ir_vars
  BY <1>8, SameIR DEF ir_vars, IInv, TypeOK
<1> QED BY <1>1, <1>2, <1>3, <1>4, <1>5, <1>6, <1>7, <1>8 DEF Generate

THEOREM Invariance == Spec => []IInv
  BY InitIInv, StepIInv, PTL DEF Spec

(* The walk keeps its types, for every program of every set of statements.  *)
THEOREM TypeCorrect == Spec => []TypeOK
<1>1. IInv => TypeOK  BY DEF IInv
<1> QED BY <1>1, Invariance, PTL

(* Every jump that waits for a node is a jump of the stream being written:  *)
(* no visit patches another function's address or casts a non-jump.         *)
THEOREM PatchesAreSafe == Spec => []PatchesFindTheirJumps
<1>1. IInv => PatchesFindTheirJumps  BY DEF IInv
<1> QED BY <1>1, Invariance, PTL

LEMMA NothingForgotten == IInv => NoJumpIsForgotten
<1> SUFFICES ASSUME IInv, todo = <<>>, NEW b \in back_patch
             PROVE  b[1] = NoNode /\ Len(streams) > 1
  BY DEF NoJumpIsForgotten
<1>1. b[1] = NoNode  BY DEF IInv, WaitersAreCovered, Covered
<1>2. Len(streams) # 1  BY <1>1 DEF IInv, MainIsClosed
<1>3. streams # <<>> /\ streams \in Seq(Seq(Insts))  BY DEF IInv, Started, TypeOK
<1>4. Len(streams) \in Nat /\ Len(streams) # 0  BY <1>3, EmptySeq, LenProperties
<1> QED BY <1>1, <1>2, <1>4

(* When a function's stream is complete no jump waits for a node, and none  *)
(* at all in main: every target has been filled in.                         *)
THEOREM PatchesAreComplete == Spec => []NoJumpIsForgotten
<1> QED BY NothingForgotten, Invariance, PTL

-----------------------------------------------------------------------------
(* The byte code.                                                           *)

Cells == [ op : Jumps \cup {"do", "call", "test", "ret", "retmain", "nop", "stop"},
           at : Seq(Nat), to : Int ]

(* The instructions of the first m functions are where the table says.      *)
Placed(m) ==
  \A n \in 1..m : \A i \in DOMAIN streams[n] : \A k \in DOMAIN Translated(streams[n][i]) :
    LET a == jump_translation[Offset(n) + i] + k
    IN  /\ a \in DOMAIN code
        /\ code[a].op = Translated(streams[n][i])[k].op
        /\ code[a].at = Translated(streams[n][i])[k].at

BlocksInv ==
  IF phase = "generate"
  THEN code = <<>> /\ call_translation = <<>> /\ jump_translation = <<>>
  ELSE todo = <<>> /\ Unpatched \notin Targets /\ is_begin_bb = BlockStarts

(* Addresses of the intermediate code are addresses of the byte code.       *)
TableInv ==
  /\ Len(code) \in Nat /\ DOMAIN code = 1..Len(code)
  /\ call_translation \in Seq(Nat)
  /\ Len(call_translation) <= Len(streams)
  /\ jump_translation \in Seq(Nat)
  /\ Len(jump_translation) = Offset(Len(call_translation) + 1)
  /\ \A g \in DOMAIN jump_translation : jump_translation[g] < Len(code)
  /\ Placed(Len(call_translation))

EmitInv ==
  phase \in {"generate", "emit"} =>
    /\ code \in Seq(Cells)
    /\ \A a \in DOMAIN code : code[a].op \in Jumps => code[a].to \in Targets

(* The machine's jumps are the marked instructions of the table.            *)
RunInv ==
  phase \notin {"generate", "emit"} =>
    /\ Len(call_translation) = Len(streams)
    /\ \A a \in DOMAIN code : code[a].op \in Jumps =>
         \E g \in is_begin_bb : /\ g + 1 \in DOMAIN jump_translation
                                /\ code[a].to = jump_translation[g + 1]

CodeInv ==
  /\ IInv
  /\ BlocksInv
  /\ TableInv
  /\ EmitInv
  /\ RunInv

-----------------------------------------------------------------------------
(* Flattening a sequence of sequences.                                      *)

LEMMA AllNumbers ==
  ASSUME NEW P, 0 \in P, \A n \in Nat : n \in P => n + 1 \in P
  PROVE  Nat \subseteq P
<1> DEFINE R == {ss \in Nat \X Nat : ss[1] < ss[2]}
           T == Nat \ P
<1>1. IsWellFoundedOn(R, Nat)
  BY NatLessThanWellFounded DEF OpToRel
<1>2. ASSUME T # {} PROVE FALSE
  <2>1. T \in SUBSET Nat  OBVIOUS
  <2>2. PICK m \in T : \A t \in T : ~ (<<t, m>> \in R)
    <3> HIDE DEF R, T
    <3> QED BY <1>1, <1>2, <2>1, WFMin
  <2>3. m \in Nat /\ m # 0  OBVIOUS
  <2>4. m - 1 \in Nat /\ m - 1 + 1 = m  BY <2>3
  <2>5. m - 1 \in T  BY <2>4
  <2>6. <<m - 1, m>> \in R  BY <2>3, <2>4
  <2> QED BY <2>2, <2>5, <2>6
<1> QED BY <1>2

\* f[k] is the concatenation of the first k members.
Concatenates(seqs, N, f) ==
  /\ f[0] = <<>>
  /\ \A k \in 1..N : f[k] = f[k - 1] \o seqs[k]

LEMMA ConcatenationsExist ==
  ASSUME NEW S, NEW seqs \in Seq(Seq(S))
  PROVE  \E f \in [0..Len(seqs) -> Seq(S)] : Concatenates(seqs, Len(seqs), f)
<1> DEFINE N == Len(seqs)
           C == Seq(S)
           P == {n \in Nat : n <= N => \E f \in [0..n -> C] : Concatenates(seqs, n, f)}
<1>1. N \in Nat /\ <<>> \in C /\ \A k \in 1..N : seqs[k] \in C
  BY LenProperties, EmptySeq, ElementOfSeq
<1>2. \A x, y \in C : x \o y \in C  BY ConcatProperties
<1> HIDE DEF N, C
<1>3. 0 \in P
  <2>1. [k \in 0..0 |-> <<>>] \in [0..0 -> C]  BY <1>1
  <2>2. Concatenates(seqs, 0, [k \in 0..0 |-> <<>>])  BY DEF Concatenates
  <2> QED BY <2>1, <2>2
<1>4. ASSUME NEW n \in Nat, n \in P PROVE n + 1 \in P
  <2> SUFFICES ASSUME n + 1 <= N
               PROVE  \E f \in [0..n + 1 -> C] : Concatenates(seqs, n + 1, f)
    OBVIOUS
  <2>1. PICK f \in [0..n -> C] : Concatenates(seqs, n, f)  BY <1>1, <1>4
  <2> DEFINE g == [k \in 0..n + 1 |-> IF k = n + 1 THEN f[n] \o seqs[n + 1] ELSE f[k]]
  <2>2. f[n] \in C /\ n + 1 \in 1..N  BY <1>1
  <2>3. f[n] \o seqs[n + 1] \in C  BY <1>1, <1>2, <2>2
  <2>4. g \in [0..n + 1 -> C]  BY <2>3
  <2>5. \A k \in 0..n : g[k] = f[k]  OBVIOUS
  <2>6. g[n + 1] = f[n] \o seqs[n + 1]  OBVIOUS
  <2> HIDE DEF g
  <2>7. ASSUME NEW k \in 1..n + 1 PROVE g[k] = g[k - 1] \o seqs[k]
    <3>1. CASE k = n + 1
      <4>1. k - 1 = n /\ g[n] = f[n]  BY <2>5, <3>1
      <4> QED BY <2>6, <3>1, <4>1
    <3>2. CASE k # n + 1
      <4>1. k \in 1..n /\ k \in 0..n /\ k - 1 \in 0..n  BY <3>2
      <4> QED BY <2>1, <2>5, <4>1 DEF Concatenates
    <3> QED BY <3>1, <3>2
  <2>8. Concatenates(seqs, n + 1, g)
    <3>1. g[0] = f[0] /\ f[0] = <<>>  BY <2>1, <2>5 DEF Concatenates
    <3> QED BY <2>7, <3>1 DEF Concatenates
  <2> QED BY <2>4, <2>8
<1>5. Nat \subseteq P
  <2> HIDE DEF P
  <2> QED BY <1>3, <1>4, AllNumbers
<1> QED BY <1>1, <1>5 DEF N, C

LEMMA FlattenIs ==
  ASSUME NEW S, NEW seqs \in Seq(Seq(S)), NEW f, Concatenates(seqs, Len(seqs), f)
  PROVE  FlattenSeq(seqs) = f[Len(seqs)]
<1> DEFINE N == Len(seqs)
           C == Seq(S)
           Is(g) == g = [i \in 1..N |-> IF i = 1 THEN seqs[i] ELSE g[i - 1] \o seqs[i]]
           flatten == CHOOSE g : Is(g)
<1>1. N \in Nat /\ \A k \in 1..N : seqs[k] \in C  BY LenProperties, ElementOfSeq
<1>2. CASE N = 0
  <2>1. seqs = <<>>  BY <1>2, EmptySeq
  <2> QED BY <1>2, <2>1 DEF FlattenSeq, Concatenates
<1>3. CASE N # 0
  <2>1. FlattenSeq(seqs) = flatten[N]  BY <1>3 DEF FlattenSeq
  <2>2. f[1] = seqs[1]
    <3>1. f[1] = <<>> \o seqs[1]
      <4>1. 1 \in 1..N /\ 1 - 1 = 0  BY <1>1, <1>3
      <4> QED BY <4>1 DEF Concatenates
    <3>2. seqs[1] \in C  BY <1>1, <1>3
    <3> QED BY <3>1, <3>2, ConcatEmptySeq
  <2> HIDE DEF C, N
  <2>3. \E g : Is(g)
    <3> DEFINE g == [i \in 1..N |-> f[i]]
    <3>1. ASSUME NEW i \in 1..N
          PROVE  g[i] = IF i = 1 THEN seqs[i] ELSE g[i - 1] \o seqs[i]
      <4>1. CASE i = 1  BY <2>2, <4>1
      <4>2. CASE i # 1
        <5>1. i - 1 \in 1..N  BY <1>1, <4>2
        <5>2. f[i] = f[i - 1] \o seqs[i]  BY DEF Concatenates, N
        <5> QED BY <4>2, <5>1, <5>2
      <4> QED BY <4>1, <4>2
    <3>2. g = [i \in 1..N |-> g[i]]  OBVIOUS
    <3> HIDE DEF g
    <3>3. Is(g)  BY <3>1, <3>2
    <3> QED BY <3>3
  <2>4. Is(flatten)
    <3> HIDE DEF Is
    <3> QED BY <2>3
  <2> HIDE DEF flatten
  <2> DEFINE P == {n \in Nat : n + 1 <= N => flatten[n + 1] = f[n + 1]}
  <2>5. 0 \in P
    <3>1. 1 \in 1..N  BY <1>1, <1>3
    <3>2. flatten[1] = seqs[1]  BY <2>4, <3>1
    <3> QED BY <2>2, <3>2
  <2>6. ASSUME NEW n \in Nat, n \in P PROVE n + 1 \in P
    <3> SUFFICES ASSUME n + 1 + 1 <= N PROVE flatten[n + 1 + 1] = f[n + 1 + 1]
      OBVIOUS
    <3>1. PICK q : q = n + 1 + 1  OBVIOUS
    <3>2. q \in 1..N /\ q # 1 /\ q - 1 = n + 1  BY <1>1, <3>1
    <3>3. flatten[q] = flatten[q - 1] \o seqs[q]  BY <2>4, <3>2
    <3>4. f[q] = f[q - 1] \o seqs[q]  BY <3>2 DEF Concatenates, N
    <3>5. flatten[n + 1] = f[n + 1]  BY <1>1, <2>6
    <3> QED BY <3>1, <3>2, <3>3, <3>4, <3>5
  <2>7. Nat \subseteq P
    <3> HIDE DEF P
    <3> QED BY <2>5, <2>6, AllNumbers
  <2>8. N - 1 \in Nat /\ N - 1 + 1 = N  BY <1>1, <1>3
  <2>9. flatten[N] = f[N]  BY <1>1, <2>7, <2>8
  <2> QED BY <2>1, <2>9 DEF N
<1> QED BY <1>2, <1>3

\* The flattening of the first k members.
Flattened(seqs, k) == FlattenSeq(SubSeq(seqs, 1, k))

LEMMA PrefixIs ==
  ASSUME NEW S, NEW s, NEW k \in Nat, \A i \in 1..k : s[i] \in S
  PROVE  /\ SubSeq(s, 1, k) \in Seq(S) /\ Len(SubSeq(s, 1, k)) = k
         /\ \A i \in 1..k : SubSeq(s, 1, k)[i] = s[i]
<1> DEFINE p == SubSeq(s, 1, k)
<1>1. k \in Int /\ 1 \in Int /\ k - 1 + 1 = k /\ \A i \in 1..k : 1 + i - 1 = i
      /\ (IF 1 <= k THEN k - 1 + 1 ELSE 0) = k
  OBVIOUS
<1>2. /\ p \in Seq(S) /\ Len(p) = IF 1 <= k THEN k - 1 + 1 ELSE 0
      /\ \A i \in 1..k - 1 + 1 : p[i] = s[1 + i - 1]
  BY <1>1, SubSeqProperties
<1> HIDE DEF p
<1>3. \A i \in 1..k : i \in 1..k - 1 + 1  BY <1>1
<1> QED BY <1>1, <1>2, <1>3 DEF p

LEMMA FlattenedIs ==
  ASSUME NEW S, NEW seqs \in Seq(Seq(S))
  PROVE  /\ Flattened(seqs, 0) = <<>>
         /\ \A k \in 0..Len(seqs) : Flattened(seqs, k) \in Seq(S)
         /\ \A k \in 1..Len(seqs) : Flattened(seqs, k) = Flattened(seqs, k - 1) \o seqs[k]
         /\ Flattened(seqs, Len(seqs)) = FlattenSeq(seqs)
<1>1. PICK f \in [0..Len(seqs) -> Seq(S)] : Concatenates(seqs, Len(seqs), f)
  BY ConcatenationsExist
<1>2. ASSUME NEW k \in 0..Len(seqs) PROVE Flattened(seqs, k) = f[k]
  <2> DEFINE s == SubSeq(seqs, 1, k)
             T == Seq(S)
  <2>1. s \in Seq(T) /\ Len(s) = k /\ \A i \in 1..k : s[i] = seqs[i]
    <3>1. Len(seqs) \in Nat /\ seqs \in Seq(T)  BY LenProperties
    <3> HIDE DEF T
    <3>2. \A i \in 1..k : seqs[i] \in T  BY <3>1, ElementOfSeq
    <3> QED BY <3>1, <3>2, PrefixIs
  <2> HIDE DEF s
  <2>2. Concatenates(s, Len(s), f)
    <3>1. ASSUME NEW i \in 1..k PROVE f[i] = f[i - 1] \o s[i]
      <4>1. i \in 1..Len(seqs)  BY LenProperties
      <4> QED BY <1>1, <2>1, <4>1 DEF Concatenates
    <3> QED BY <1>1, <2>1, <3>1 DEF Concatenates
  <2>3. FlattenSeq(s) = f[k]  BY <2>1, <2>2, FlattenIs
  <2> QED BY <2>3 DEF s, Flattened
<1>3. Len(seqs) \in Nat  BY LenProperties
<1>4. Flattened(seqs, 0) = <<>>  BY <1>1, <1>2, <1>3 DEF Concatenates
<1>5. ASSUME NEW k \in 1..Len(seqs) PROVE Flattened(seqs, k) = Flattened(seqs, k - 1) \o seqs[k]
  <2>1. k \in 0..Len(seqs) /\ k - 1 \in 0..Len(seqs)  BY <1>3
  <2> QED BY <1>1, <1>2, <2>1 DEF Concatenates
<1>6. Flattened(seqs, Len(seqs)) = FlattenSeq(seqs)
  <2>1. FlattenSeq(seqs) = f[Len(seqs)]  BY <1>1, FlattenIs
  <2>2. Len(seqs) \in 0..Len(seqs)  BY <1>3
  <2> QED BY <1>2, <2>1, <2>2
<1>7. ASSUME NEW k \in 0..Len(seqs) PROVE Flattened(seqs, k) \in Seq(S)
  <2>1. f[k] \in Seq(S)  OBVIOUS
  <2> QED BY <1>2, <2>1
<1> QED BY <1>4, <1>5, <1>6, <1>7

LEMMA FlattenedGrows ==
  ASSUME NEW S, NEW seqs \in Seq(Seq(S)), NEW j \in 0..Len(seqs), NEW k \in j..Len(seqs)
  PROVE  /\ Len(Flattened(seqs, j)) \in Nat /\ Len(Flattened(seqs, k)) \in Nat
         /\ Len(Flattened(seqs, j)) <= Len(Flattened(seqs, k))
         /\ \A a \in 1..Len(Flattened(seqs, j)) : Flattened(seqs, k)[a] = Flattened(seqs, j)[a]
<1> DEFINE N == Len(seqs)
           F(i) == Flattened(seqs, i)
           P == {d \in Nat : j + d <= N => /\ Len(F(j)) <= Len(F(j + d))
                                           /\ \A a \in 1..Len(F(j)) : F(j + d)[a] = F(j)[a]}
<1>1. /\ N \in Nat /\ j \in 0..N /\ k \in j..N
      /\ \A i \in 0..N : F(i) \in Seq(S)
      /\ \A i \in 1..N : F(i) = F(i - 1) \o seqs[i] /\ seqs[i] \in Seq(S)
  <2>1. \A i \in 1..Len(seqs) : seqs[i] \in Seq(S)
    <3> DEFINE C == Seq(S)
    <3> HIDE DEF C
    <3>1. seqs \in Seq(C)  BY DEF C
    <3>2. \A i \in 1..Len(seqs) : seqs[i] \in C  BY <3>1, ElementOfSeq
    <3> QED BY <3>2 DEF C
  <2> QED BY <2>1, FlattenedIs, LenProperties
<1> HIDE DEF N, F
<1>2. \A i \in 0..N : Len(F(i)) \in Nat  BY <1>1, LenProperties
<1>3. 0 \in P
  <2>1. j + 0 = j /\ Len(F(j)) \in Nat  BY <1>1, <1>2
  <2> QED BY <2>1
<1>4. ASSUME NEW d \in Nat, d \in P PROVE d + 1 \in P
  <2> SUFFICES ASSUME j + (d + 1) <= N
               PROVE  /\ Len(F(j)) <= Len(F(j + (d + 1)))
                      /\ \A a \in 1..Len(F(j)) : F(j + (d + 1))[a] = F(j)[a]
    OBVIOUS
  <2>1. PICK q \in Nat, r \in Nat : q = j + (d + 1) /\ r = j + d  BY <1>1
  <2>2. q \in 1..N /\ q - 1 = r /\ r \in 0..N /\ r <= N  BY <1>1, <2>1
  <2>3. /\ Len(F(j)) <= Len(F(r))
        /\ \A a \in 1..Len(F(j)) : F(r)[a] = F(j)[a]
    BY <1>4, <2>1, <2>2
  <2>4. F(q) = F(r) \o seqs[q] /\ F(r) \in Seq(S) /\ seqs[q] \in Seq(S)
    BY <1>1, <2>2
  <2> DEFINE x == F(j)
             y == F(r)
             z == F(q)
  <2>5. /\ Len(z) = Len(y) + Len(seqs[q])
        /\ \A a \in 1..Len(y) : z[a] = y[a]
        /\ Len(y) \in Nat /\ Len(seqs[q]) \in Nat /\ Len(x) \in Nat
    BY <1>1, <1>2, <2>4, ConcatIs
  <2>6. Len(x) <= Len(y) /\ \A a \in 1..Len(x) : y[a] = x[a]  BY <2>3
  <2>7. F(j + (d + 1)) = z  BY <2>1
  <2> HIDE DEF x, y, z
  <2>8. Len(x) <= Len(z) /\ \A a \in 1..Len(x) : z[a] = x[a]  BY <2>5, <2>6
  <2> QED BY <2>7, <2>8 DEF x
<1>5. Nat \subseteq P
  <2> HIDE DEF P
  <2> QED BY <1>3, <1>4, AllNumbers
<1>6. k - j \in P /\ j + (k - j) = k /\ k <= N
  <2>1. k - j \in Nat /\ j + (k - j) = k /\ k <= N  BY <1>1
  <2> HIDE DEF P
  <2> QED BY <1>5, <2>1
<1>7. /\ Len(F(j)) <= Len(F(k))
      /\ \A a \in 1..Len(F(j)) : F(k)[a] = F(j)[a]
  BY <1>6
<1>8. j \in 0..N /\ k \in 0..N  BY <1>1
<1> HIDE DEF P
<1> QED BY <1>2, <1>7, <1>8 DEF F

\* Each member lies behind the ones before it.
LEMMA MembersAreInside ==
  ASSUME NEW S, NEW seqs \in Seq(Seq(S)), NEW i \in 1..Len(seqs)
  PROVE  /\ Len(Flattened(seqs, i - 1)) \in Nat /\ Len(seqs[i]) \in Nat
         /\ Len(FlattenSeq(seqs)) \in Nat
         /\ Len(Flattened(seqs, i - 1)) + Len(seqs[i]) <= Len(FlattenSeq(seqs))
         /\ Len(Flattened(seqs, i)) = Len(Flattened(seqs, i - 1)) + Len(seqs[i])
         /\ \A k \in 1..Len(seqs[i]) :
              FlattenSeq(seqs)[Len(Flattened(seqs, i - 1)) + k] = seqs[i][k]
<1> DEFINE N == Len(seqs)
           p == Flattened(seqs, i - 1)
           q == Flattened(seqs, i)
           m == seqs[i]
           f == FlattenSeq(seqs)
<1>1. N \in Nat /\ i \in 1..N  BY LenProperties
<1>2. i - 1 \in 0..N /\ i \in 0..N /\ N \in i..N /\ N \in 0..N  BY <1>1
<1>3. m \in Seq(S)
  <2> DEFINE C == Seq(S)
  <2> HIDE DEF C
  <2>1. seqs \in Seq(C)  BY DEF C
  <2>2. seqs[i] \in C  BY <2>1, ElementOfSeq
  <2> QED BY <2>2 DEF C
<1>4. p \in Seq(S) /\ q = p \o m /\ Flattened(seqs, N) = f /\ f \in Seq(S)
  <2>1. Flattened(seqs, N) \in Seq(S) /\ Flattened(seqs, N) = f /\ p \in Seq(S)
    BY <1>2, FlattenedIs
  <2>2. q = p \o m  BY FlattenedIs
  <2> QED BY <2>1, <2>2
<1>5. /\ Len(q) <= Len(f) /\ \A a \in 1..Len(q) : f[a] = q[a]
  <2>1. /\ Len(q) <= Len(Flattened(seqs, N))
        /\ \A a \in 1..Len(q) : Flattened(seqs, N)[a] = q[a]
    BY <1>2, FlattenedGrows
  <2> QED BY <1>4, <2>1
<1> HIDE DEF p, q, m, f
<1>6. /\ Len(p) \in Nat /\ Len(m) \in Nat /\ Len(f) \in Nat /\ Len(q) = Len(p) + Len(m)
      /\ \A k \in 1..Len(m) : q[Len(p) + k] = m[k]
  BY <1>3, <1>4, ConcatIs, LenProperties
<1>7. ASSUME NEW k \in 1..Len(m) PROVE f[Len(p) + k] = m[k]
  <2>1. Len(p) + k \in 1..Len(q)  BY <1>6
  <2> QED BY <1>5, <1>6, <2>1
<1>8. Len(p) + Len(m) <= Len(f)  BY <1>5, <1>6
<1> QED BY <1>6, <1>7, <1>8 DEF p, q, m, f

\* There is nothing else in it.
LEMMA NothingElseInside ==
  ASSUME NEW S, NEW seqs \in Seq(Seq(S)), NEW a \in 1..Len(FlattenSeq(seqs))
  PROVE  \E i \in 1..Len(seqs) : \E k \in 1..Len(seqs[i]) : FlattenSeq(seqs)[a] = seqs[i][k]
<1> DEFINE N == Len(seqs)
           F(n) == Flattened(seqs, n)
           In(x) == \E i \in 1..N : \E k \in 1..Len(seqs[i]) : x = seqs[i][k]
           P == {n \in Nat : n <= N => \A b \in 1..Len(F(n)) : In(F(n)[b])}
<1>1. /\ N \in Nat /\ F(N) = FlattenSeq(seqs) /\ F(0) = <<>>
      /\ \A n \in 0..N : F(n) \in Seq(S)
      /\ \A n \in 1..N : F(n) = F(n - 1) \o seqs[n] /\ seqs[n] \in Seq(S)
  <2>1. \A i \in 1..Len(seqs) : seqs[i] \in Seq(S)
    <3> DEFINE C == Seq(S)
    <3> HIDE DEF C
    <3>1. seqs \in Seq(C)  BY DEF C
    <3>2. \A i \in 1..Len(seqs) : seqs[i] \in C  BY <3>1, ElementOfSeq
    <3> QED BY <3>2 DEF C
  <2> QED BY <2>1, FlattenedIs, LenProperties
<1> HIDE DEF F, In
<1>2. 0 \in P
  <2>1. Len(F(0)) = 0  BY <1>1, EmptySeq
  <2> QED BY <2>1
<1>3. ASSUME NEW n \in Nat, n \in P PROVE n + 1 \in P
  <2> SUFFICES ASSUME n + 1 <= N PROVE \A b \in 1..Len(F(n + 1)) : In(F(n + 1)[b])
    OBVIOUS
  <2> DEFINE q == n + 1
             x == F(n)
             m == seqs[q]
             z == F(q)
  <2>1. n \in 0..N /\ n <= N /\ q \in 1..N /\ q - 1 = n  BY <1>1
  <2>2. \A b \in 1..Len(x) : In(x[b])  BY <1>3, <2>1
  <2> HIDE DEF q
  <2>3. z = x \o m /\ x \in Seq(S) /\ m \in Seq(S)  BY <1>1, <2>1
  <2>4. \A k \in 1..Len(m) : In(m[k])  BY <2>1 DEF In
  <2> HIDE DEF x, m, z
  <2>5. /\ Len(z) = Len(x) + Len(m) /\ Len(x) \in Nat /\ Len(m) \in Nat
        /\ \A c \in 1..Len(x) : z[c] = x[c]
        /\ \A c \in 1..Len(m) : z[Len(x) + c] = m[c]
    BY <2>3, ConcatIs
  <2>6. ASSUME NEW b \in 1..Len(z) PROVE In(z[b])
    <3>1. CASE b <= Len(x)
      <4>1. b \in 1..Len(x)  BY <2>5, <3>1
      <4> QED BY <2>2, <2>5, <4>1
    <3>2. CASE ~ (b <= Len(x))
      <4>1. PICK c \in 1..Len(m) : b = Len(x) + c
        <5>1. b - Len(x) \in 1..Len(m) /\ b = Len(x) + (b - Len(x))  BY <2>5, <3>2
        <5> QED BY <5>1
      <4> QED BY <2>4, <2>5, <4>1
    <3> QED BY <3>1, <3>2
  <2> QED BY <2>6 DEF z, q
<1>4. Nat \subseteq P
  <2> HIDE DEF P
  <2> QED BY <1>2, <1>3, AllNumbers
<1>5. \A b \in 1..Len(F(N)) : In(F(N)[b])
  <2>1. N \in P
    <3> HIDE DEF P
    <3> QED BY <1>1, <1>4
  <2>2. N <= N  BY <1>1
  <2> QED BY <2>1, <2>2
<1>6. In(FlattenSeq(seqs)[a])  BY <1>1, <1>5
<1> QED BY <1>6 DEF In, N

-----------------------------------------------------------------------------
(* The table of addresses.                                                  *)

LEMMA StreamsAre ==
  ASSUME IInv
  PROVE  /\ streams \in Seq(Seq(Insts)) /\ Len(streams) \in Nat
         /\ DOMAIN streams = 1..Len(streams)
         /\ \A n \in 1..Len(streams) :
              /\ streams[n] \in Seq(Insts) /\ Len(streams[n]) \in Nat
              /\ DOMAIN streams[n] = 1..Len(streams[n])
              /\ \A i \in 1..Len(streams[n]) : streams[n][i] \in Insts
<1> DEFINE C == Seq(Insts)
<1> HIDE DEF C
<1>1. streams \in Seq(C)  BY DEF IInv, TypeOK, C
<1>2. \A n \in 1..Len(streams) : streams[n] \in C  BY <1>1, ElementOfSeq
<1>3. \A q \in C : /\ Len(q) \in Nat /\ DOMAIN q = 1..Len(q)
                   /\ \A i \in 1..Len(q) : q[i] \in Insts
  BY LenProperties, ElementOfSeq DEF C
<1> QED BY <1>1, <1>2, <1>3, LenProperties DEF C

LEMMA PartOf ==
  ASSUME NEW x \in Nat, NEW y \in Nat, NEW z \in Nat, x + y <= z
  PROVE  y <= z /\ \A i \in 1..y : x + i \in 1..z
  OBVIOUS

\* A patched jump of a complete program leads to one of its instructions.
LEMMA TargetsInRange ==
  ASSUME IInv, todo = <<>>, Unpatched \notin Targets, NEW t \in Targets
  PROVE  t \in 0..Len(AllInsts) - 1 /\ Len(AllInsts) \in Nat
<1>1. PICK a \in DOMAIN AllInsts : AllInsts[a].op \in Jumps /\ t = AllInsts[a].to
  BY DEF Targets
<1>2. AllInsts \in Seq(Insts) /\ AllInsts = FlattenSeq(streams)
  <2>1. Len(streams) \in 0..Len(streams)  BY StreamsAre
  <2> QED BY <2>1, StreamsAre, FlattenedIs DEF AllInsts
<1>3. a \in 1..Len(FlattenSeq(streams))  BY <1>1, <1>2, LenProperties
<1>4. PICK n \in 1..Len(streams), k \in 1..Len(streams[1]) \cup Nat :
        k \in 1..Len(streams[n]) /\ AllInsts[a] = streams[n][k]
  <2>1. PICK n \in 1..Len(streams) : \E k \in 1..Len(streams[n]) :
          FlattenSeq(streams)[a] = streams[n][k]
    BY <1>3, StreamsAre, NothingElseInside
  <2> QED BY <1>2, <2>1
<1>5. n \in DOMAIN streams /\ k \in DOMAIN streams[n]  BY <1>4, StreamsAre
<1>6. t \in 0..Len(streams[n]) /\ t # Len(streams[n])
  <2>1. Complete(n) /\ t # Unpatched  BY DEF Complete
  <2> QED BY <1>1, <1>4, <1>5, <2>1 DEF IInv, TargetsInv, TargetsWithin
<1>7. /\ Len(streams[n]) <= Len(AllInsts)
      /\ Len(streams[n]) \in Nat /\ Len(AllInsts) \in Nat
  <2>1. /\ Len(Flattened(streams, n - 1)) \in Nat /\ Len(streams[n]) \in Nat
        /\ Len(FlattenSeq(streams)) \in Nat
        /\ Len(Flattened(streams, n - 1)) + Len(streams[n]) <= Len(FlattenSeq(streams))
    BY <1>4, StreamsAre, MembersAreInside
  <2>2. Len(streams[n]) <= Len(FlattenSeq(streams))  BY <2>1, PartOf, Zenon
  <2> QED BY <1>2, <2>1, <2>2
<1> QED BY <1>6, <1>7

LEMMA JumpIsTarget ==
  ASSUME IInv, NEW n \in 1..Len(streams), NEW i \in 1..Len(streams[n]),
         streams[n][i].op \in Jumps
  PROVE  streams[n][i].to \in Targets
<1> DEFINE a == Len(Flattened(streams, n - 1)) + i
<1>1. /\ Len(Flattened(streams, n - 1)) \in Nat /\ Len(streams[n]) \in Nat
      /\ Len(FlattenSeq(streams)) \in Nat
      /\ Len(Flattened(streams, n - 1)) + Len(streams[n]) <= Len(FlattenSeq(streams))
      /\ FlattenSeq(streams)[a] = streams[n][i]
  BY StreamsAre, MembersAreInside
<1>2. a \in 1..Len(FlattenSeq(streams))
  <2>1. \A j \in 1..Len(streams[n]) :
          Len(Flattened(streams, n - 1)) + j \in 1..Len(FlattenSeq(streams))
    BY <1>1, PartOf, Zenon
  <2> QED BY <2>1
<1>3. DOMAIN AllInsts = 1..Len(AllInsts)
  <2>1. Len(streams) \in 0..Len(streams)  BY StreamsAre
  <2>2. AllInsts \in Seq(Insts)  BY <2>1, StreamsAre, FlattenedIs DEF AllInsts
  <2> QED BY <2>2, LenProperties
<1> HIDE DEF a
<1> QED BY <1>1, <1>2, <1>3 DEF Targets, AllInsts

-----------------------------------------------------------------------------
(* The translation of a stream.                                             *)

LEMMA TranslatedIs ==
  ASSUME NEW x \in Insts
  PROVE  /\ Translated(x) \in Seq(Cells)
         /\ \A k \in DOMAIN Translated(x) : Translated(x)[k].op \in Jumps => Translated(x)[k] = x
         /\ x.op = "retmain" => Len(Translated(x)) = 1
<1>1. Nop \in Cells /\ Inst("stop", NoNode, 0) \in Cells /\ x \in Cells
  <2>1. NoNode \in Seq(Nat)  BY EmptySeq DEF NoNode
  <2> QED BY <2>1 DEF Nop, Inst, Cells, Insts, Jumps
<1>2. Nop.op \notin Jumps /\ Inst("stop", NoNode, 0).op \notin Jumps
  BY DEF Nop, Inst, Jumps
<1> DEFINE nop == Nop
           stop == Inst("stop", NoNode, 0)
<1> HIDE DEF nop, stop
<1>3. Translated(x) \in {<<>>, <<stop>>, <<x, nop>>, <<x>>}  BY DEF Translated, nop, stop
<1>4. x.op = "retmain" => Translated(x) = <<stop>>  BY DEF Translated, stop
<1>5. nop \in Cells /\ stop \in Cells /\ nop.op \notin Jumps /\ stop.op \notin Jumps
  BY <1>1, <1>2 DEF nop, stop
<1>6. CASE Translated(x) = <<>>  BY <1>4, <1>6, EmptySeq
<1>7. CASE Translated(x) = <<stop>>  BY <1>5, <1>7
<1>8. CASE Translated(x) = <<x, nop>>  BY <1>1, <1>4, <1>5, <1>8
<1>9. CASE Translated(x) = <<x>>  BY <1>1, <1>4, <1>9
<1> QED BY <1>3, <1>6, <1>7, <1>8, <1>9

EachTranslated(insts) == [i \in DOMAIN insts |-> Translated(insts[i])]

LEMMA EachIs ==
  ASSUME NEW insts \in Seq(Insts)
  PROVE  /\ EachTranslated(insts) \in Seq(Seq(Cells))
         /\ Len(EachTranslated(insts)) = Len(insts) /\ Len(insts) \in Nat
         /\ DOMAIN insts = 1..Len(insts)
         /\ \A i \in 1..Len(insts) : /\ EachTranslated(insts)[i] = Translated(insts[i])
                                     /\ insts[i] \in Insts
<1> DEFINE C == Seq(Cells)
           N == Len(insts)
           each == EachTranslated(insts)
<1>1. N \in Nat /\ DOMAIN insts = 1..N /\ \A i \in 1..N : insts[i] \in Insts
  BY LenProperties, ElementOfSeq
<1>2. \A i \in 1..N : Translated(insts[i]) \in C  BY <1>1, TranslatedIs
<1> HIDE DEF C, N
<1>3. each = [i \in 1..N |-> Translated(insts[i])]  BY <1>1 DEF EachTranslated
<1> HIDE DEF each
<1>4. each \in [1..N -> C]  BY <1>2, <1>3
<1>5. each \in Seq(C) /\ Len(each) = N  BY <1>1, <1>4
<1>6. \A i \in 1..N : each[i] = Translated(insts[i])  BY <1>3
<1> QED BY <1>1, <1>5, <1>6 DEF C, N, each

LEMMA CodeOfPrefix ==
  ASSUME NEW insts \in Seq(Insts), NEW j \in 0..Len(insts)
  PROVE  VMCode(SubSeq(insts, 1, j)) = Flattened(EachTranslated(insts), j)
<1> DEFINE p == SubSeq(insts, 1, j)
           each == EachTranslated(insts)
           q == SubSeq(each, 1, j)
           C == Seq(Cells)
<1>1. /\ each \in Seq(C) /\ Len(each) = Len(insts) /\ Len(insts) \in Nat
      /\ \A i \in 1..Len(insts) : each[i] = Translated(insts[i]) /\ insts[i] \in Insts
      /\ \A i \in 1..j : i \in 1..Len(insts)
  BY EachIs
<1> HIDE DEF C, each
<1>2. /\ DOMAIN p = 1..j /\ \A i \in 1..j : p[i] = insts[i]
  <2>1. p \in Seq(Insts) /\ Len(p) = j /\ \A i \in 1..j : p[i] = insts[i]
    BY <1>1, PrefixIs
  <2> QED BY <2>1, LenProperties
<1>3. /\ q \in Seq(C) /\ Len(q) = j /\ \A i \in 1..j : q[i] = each[i]
  <2>1. \A i \in 1..j : each[i] \in C  BY <1>1, ElementOfSeq
  <2> QED BY <1>1, <2>1, PrefixIs
<1>4. DOMAIN q = 1..j  BY <1>3, LenProperties
<1> HIDE DEF p, q
<1>5. [i \in DOMAIN p |-> Translated(p[i])] = q
  <2>1. \A i \in 1..j : q[i] = Translated(p[i])  BY <1>1, <1>2, <1>3
  <2>2. q = [i \in 1..j |-> q[i]]  BY <1>3, <1>4
  <2> QED BY <1>2, <2>1, <2>2
<1> QED BY <1>5 DEF VMCode, Flattened, p, q, each

\* Where an instruction's translation lies in its stream's.
Before(insts, i) == Len(Flattened(EachTranslated(insts), i - 1))

LEMMA AddressIs ==
  ASSUME NEW insts \in Seq(Insts), NEW i \in 1..Len(insts), NEW first
  PROVE  /\ AddressOf(first, insts, i) = first + Before(insts, i)
         /\ Before(insts, i) \in Nat /\ Len(Translated(insts[i])) \in Nat
         /\ Before(insts, i) + Len(Translated(insts[i])) <= Len(VMCode(insts))
         /\ \A k \in 1..Len(Translated(insts[i])) :
              VMCode(insts)[Before(insts, i) + k] = Translated(insts[i])[k]
         /\ \A j \in i..Len(insts) : Before(insts, i) <= Before(insts, j)
<1> DEFINE each == EachTranslated(insts)
<1>1. each \in Seq(Seq(Cells)) /\ Len(each) = Len(insts) /\ each[i] = Translated(insts[i])
      /\ Len(insts) \in Nat
  BY EachIs
<1>2. VMCode(insts) = FlattenSeq(each)  BY DEF VMCode, EachTranslated
<1>3. i - 1 \in 0..Len(insts) /\ i \in 1..Len(each)  BY <1>1
<1>4. AddressOf(first, insts, i) = first + Before(insts, i)
  BY <1>3, CodeOfPrefix DEF AddressOf, Before
<1> HIDE DEF each
<1>5. /\ Len(Flattened(each, i - 1)) \in Nat /\ Len(each[i]) \in Nat
      /\ Len(Flattened(each, i - 1)) + Len(each[i]) <= Len(FlattenSeq(each))
      /\ \A k \in 1..Len(each[i]) :
           FlattenSeq(each)[Len(Flattened(each, i - 1)) + k] = each[i][k]
  BY <1>1, <1>3, MembersAreInside
<1>6. ASSUME NEW j \in i..Len(insts)
      PROVE  Len(Flattened(each, i - 1)) <= Len(Flattened(each, j - 1))
  <2>1. i - 1 \in 0..Len(each) /\ j - 1 \in i - 1..Len(each)  BY <1>1
  <2> QED BY <1>1, <2>1, FlattenedGrows
<1>7. Before(insts, i) = Len(Flattened(each, i - 1))  BY DEF Before, each
<1>8. \A j \in i..Len(insts) : Before(insts, j) = Len(Flattened(each, j - 1))
  BY DEF Before, each
<1> QED BY <1>1, <1>2, <1>4, <1>5, <1>6, <1>7, <1>8

\* The byte code of a stream has the stream's jumps and no others.
LEMMA VMCodeIs ==
  ASSUME NEW insts \in Seq(Insts)
  PROVE  /\ VMCode(insts) \in Seq(Cells) /\ Len(VMCode(insts)) \in Nat
         /\ \A a \in 1..Len(VMCode(insts)) : VMCode(insts)[a].op \in Jumps =>
              \E i \in 1..Len(insts) : VMCode(insts)[a] = insts[i]
<1> DEFINE each == EachTranslated(insts)
<1>1. /\ each \in Seq(Seq(Cells)) /\ Len(each) = Len(insts) /\ Len(insts) \in Nat
      /\ \A i \in 1..Len(insts) : each[i] = Translated(insts[i]) /\ insts[i] \in Insts
  BY EachIs
<1>2. VMCode(insts) = FlattenSeq(each)  BY DEF VMCode, EachTranslated
<1> HIDE DEF each
<1>3. FlattenSeq(each) \in Seq(Cells)
  <2>1. Len(each) \in 0..Len(each)  BY <1>1
  <2>2. Flattened(each, Len(each)) \in Seq(Cells)
        /\ Flattened(each, Len(each)) = FlattenSeq(each)
    BY <1>1, <2>1, FlattenedIs
  <2> QED BY <2>2
<1>4. ASSUME NEW a \in 1..Len(FlattenSeq(each)), FlattenSeq(each)[a].op \in Jumps
      PROVE  \E i \in 1..Len(insts) : FlattenSeq(each)[a] = insts[i]
  <2>1. PICK i \in 1..Len(each) : \E k \in 1..Len(each[i]) : FlattenSeq(each)[a] = each[i][k]
    BY <1>1, NothingElseInside
  <2>2. PICK k \in 1..Len(each[i]) : FlattenSeq(each)[a] = each[i][k]  BY <2>1
  <2>3. i \in 1..Len(insts) /\ each[i] = Translated(insts[i]) /\ insts[i] \in Insts
    BY <1>1
  <2>4. /\ Translated(insts[i]) \in Seq(Cells)
        /\ \A l \in DOMAIN Translated(insts[i]) :
             Translated(insts[i])[l].op \in Jumps => Translated(insts[i])[l] = insts[i]
    BY <2>3, TranslatedIs
  <2>5. k \in DOMAIN Translated(insts[i])  BY <2>2, <2>3, <2>4, LenProperties
  <2>6. Translated(insts[i])[k] = insts[i]  BY <1>4, <2>2, <2>3, <2>4, <2>5
  <2> QED BY <2>2, <2>3, <2>6
<1> QED BY <1>2, <1>3, <1>4, LenProperties

LEMMA MainEndsIt ==
  ASSUME NEW insts \in Seq(Insts), NEW i \in 1..Len(insts),
         insts[Len(insts)].op = "retmain"
  PROVE  Before(insts, i) < Len(VMCode(insts))
<1> DEFINE l == Len(insts)
<1>1. l \in 1..Len(insts) /\ l \in i..Len(insts) /\ insts[l] \in Insts  BY EachIs
<1>2. /\ Before(insts, i) \in Nat /\ Before(insts, i) <= Before(insts, l)
      /\ Before(insts, l) \in Nat
      /\ Before(insts, l) + Len(Translated(insts[l])) <= Len(VMCode(insts))
      /\ Len(VMCode(insts)) \in Nat
  BY <1>1, AddressIs, VMCodeIs
<1>3. Len(Translated(insts[l])) = 1  BY <1>1, TranslatedIs
<1> QED BY <1>2, <1>3

LEMMA OffsetIs ==
  ASSUME IInv, NEW n \in 1..Len(streams)
  PROVE  /\ Offset(n) \in Nat /\ Len(streams[n]) \in Nat
         /\ \A m \in Nat : m = n + 1 => Offset(m) = Offset(n) + Len(streams[n])
         /\ \A m \in 1..Len(streams) : m < n => Offset(m) \in Nat /\ Offset(m) + Len(streams[m]) <= Offset(n)
<1>1. /\ streams \in Seq(Seq(Insts)) /\ Len(streams) \in Nat
      /\ \A m \in 1..Len(streams) : streams[m] \in Seq(Insts) /\ Len(streams[m]) \in Nat
  BY StreamsAre
<1>2. \A m \in Nat : Offset(m) = Len(Flattened(streams, m - 1))  BY DEF Offset, Flattened
<1>3. ASSUME NEW m \in 1..Len(streams)
      PROVE  /\ Len(Flattened(streams, m - 1)) \in Nat
             /\ Len(Flattened(streams, m)) = Len(Flattened(streams, m - 1)) + Len(streams[m])
  BY <1>1, MembersAreInside
<1>4. ASSUME NEW m \in Nat, m = n + 1 PROVE Offset(m) = Offset(n) + Len(streams[n])
  <2>1. m - 1 = n /\ n \in Nat  BY <1>4
  <2>2. Offset(m) = Len(Flattened(streams, n))  BY <1>2, <2>1
  <2>3. Offset(n) = Len(Flattened(streams, n - 1))  BY <1>2, <2>1
  <2>4. Len(Flattened(streams, n)) = Len(Flattened(streams, n - 1)) + Len(streams[n])
    BY <1>3
  <2> QED BY <2>2, <2>3, <2>4
<1>5. ASSUME NEW m \in 1..Len(streams), m < n
      PROVE  Offset(m) \in Nat /\ Offset(m) + Len(streams[m]) <= Offset(n)
  <2>1. m \in 0..Len(streams) /\ n - 1 \in m..Len(streams) /\ m \in Nat /\ n \in Nat
    BY <1>1, <1>5
  <2>2. Len(Flattened(streams, m)) <= Len(Flattened(streams, n - 1))
    BY <1>1, <2>1, FlattenedGrows
  <2>3. Offset(m) = Len(Flattened(streams, m - 1)) /\ Offset(n) = Len(Flattened(streams, n - 1))
    BY <1>2, <2>1
  <2>4. /\ Len(Flattened(streams, m - 1)) \in Nat
        /\ Len(Flattened(streams, m)) = Len(Flattened(streams, m - 1)) + Len(streams[m])
    BY <1>3
  <2> QED BY <2>2, <2>3, <2>4
<1>6. Offset(n) \in Nat
  <2>1. n \in Nat  OBVIOUS
  <2> QED BY <1>2, <1>3, <2>1
<1> QED BY <1>1, <1>4, <1>5, <1>6

JumpsInto(s, T) == \A a \in DOMAIN s : s[a].op \in Jumps => s[a].to \in T
NoJumps(s) == \A a \in DOMAIN s : s[a].op \notin Jumps

LEMMA JumpsJoin ==
  ASSUME NEW s \in Seq(Cells), NEW t \in Seq(Cells), NEW T, JumpsInto(s, T), JumpsInto(t, T)
  PROVE  JumpsInto(s \o t, T)
<1> DEFINE w == s \o t
<1>1. /\ w \in Seq(Cells) /\ Len(s) \in Nat /\ Len(t) \in Nat /\ Len(w) = Len(s) + Len(t)
      /\ \A a \in 1..Len(s) : w[a] = s[a]
      /\ \A a \in 1..Len(t) : w[Len(s) + a] = t[a]
  BY ConcatIs
<1> HIDE DEF w
<1>2. DOMAIN w = 1..Len(w) /\ DOMAIN s = 1..Len(s) /\ DOMAIN t = 1..Len(t)
  BY <1>1, LenProperties
<1>3. ASSUME NEW a \in DOMAIN w, w[a].op \in Jumps PROVE w[a].to \in T
  <2>1. CASE a <= Len(s)
    <3>1. a \in 1..Len(s)  BY <1>1, <1>2, <2>1
    <3>2. w[a] = s[a]  BY <1>1, <3>1
    <3> QED BY <1>2, <1>3, <3>1, <3>2 DEF JumpsInto
  <2>2. CASE ~ (a <= Len(s))
    <3>1. PICK b \in 1..Len(t) : a = Len(s) + b
      <4>1. a - Len(s) \in 1..Len(t) /\ a = Len(s) + (a - Len(s))  BY <1>1, <1>2, <2>2
      <4> QED BY <4>1
    <3>2. w[a] = t[b]  BY <1>1, <3>1
    <3> QED BY <1>2, <1>3, <3>2 DEF JumpsInto
  <2> QED BY <2>1, <2>2
<1> QED BY <1>3 DEF JumpsInto, w

LEMMA PlacingIs ==
  ASSUME NEW c \in Seq(Cells), NEW p \in Seq(Cells), NEW v \in Seq(Cells), NEW e \in Seq(Cells)
  PROVE  /\ c \o p \o v \o e \in Seq(Cells)
         /\ Len(c) \in Nat /\ Len(p) \in Nat /\ Len(v) \in Nat /\ Len(e) \in Nat
         /\ Len(c \o p \o v \o e) = Len(c) + Len(p) + Len(v) + Len(e)
         /\ \A a \in 1..Len(c) : (c \o p \o v \o e)[a] = c[a]
         /\ \A a \in 1..Len(v) : (c \o p \o v \o e)[Len(c) + Len(p) + a] = v[a]
<1> DEFINE x == c \o p
           y == x \o v
           z == y \o e
<1>1. /\ x \in Seq(Cells) /\ Len(c) \in Nat /\ Len(p) \in Nat /\ Len(x) = Len(c) + Len(p)
      /\ \A a \in 1..Len(c) : x[a] = c[a]
      /\ \A a \in 1..Len(p) : x[Len(c) + a] = p[a]
  BY ConcatIs
<1> HIDE DEF x
<1>2. /\ y \in Seq(Cells) /\ Len(v) \in Nat /\ Len(x) \in Nat /\ Len(y) = Len(x) + Len(v)
      /\ \A a \in 1..Len(x) : y[a] = x[a]
      /\ \A a \in 1..Len(v) : y[Len(x) + a] = v[a]
  <2>1. x \in Seq(Cells)  BY <1>1
  <2> QED BY <2>1, ConcatIs
<1> HIDE DEF y
<1>3. /\ z \in Seq(Cells) /\ Len(e) \in Nat /\ Len(y) \in Nat /\ Len(z) = Len(y) + Len(e)
      /\ \A a \in 1..Len(y) : z[a] = y[a]
      /\ \A a \in 1..Len(e) : z[Len(y) + a] = e[a]
  <2>1. y \in Seq(Cells)  BY <1>2
  <2> QED BY <2>1, ConcatIs
<1> HIDE DEF z
<1>4. Len(z) = Len(c) + Len(p) + Len(v) + Len(e)  BY <1>1, <1>2, <1>3
<1>5. ASSUME NEW a \in 1..Len(c) PROVE z[a] = c[a]
  <2>1. a \in 1..Len(x) /\ a \in 1..Len(y)  BY <1>1, <1>2
  <2> QED BY <1>1, <1>2, <1>3, <2>1
<1>6. ASSUME NEW a \in 1..Len(v) PROVE z[Len(c) + Len(p) + a] = v[a]
  <2>1. PICK b \in Nat : b = Len(c) + Len(p) + a  BY <1>1
  <2>2. b = Len(x) + a /\ b \in 1..Len(y)  BY <1>1, <1>2, <2>1
  <2>3. z[b] = v[a]  BY <1>2, <1>3, <2>2
  <2> QED BY <2>1, <2>3
<1>7. c \o p \o v \o e = z  BY DEF x, y, z
<1> QED BY <1>1, <1>2, <1>3, <1>4, <1>5, <1>6, <1>7

LEMMA FramesAre ==
  /\ InitTest \in Seq(Cells) /\ NoJumps(InitTest)
  /\ FuncPrologue \in Seq(Cells) /\ NoJumps(FuncPrologue)
  /\ FuncEpilogue \in Seq(Cells) /\ NoJumps(FuncEpilogue) /\ Len(FuncEpilogue) = 3
  /\ <<>> \in Seq(Cells) /\ NoJumps(<<>>) /\ Len(<<>>) = 0
<1> DEFINE nop == Nop
           ret == Inst("ret", NoNode, 0)
<1>1. nop \in Cells /\ ret \in Cells
  <2>1. NoNode \in Seq(Nat)  BY EmptySeq DEF NoNode
  <2> QED BY <2>1 DEF Nop, Inst, Cells, Jumps
<1>2. nop.op \notin Jumps /\ ret.op \notin Jumps  BY DEF Nop, Inst, Jumps
<1>3. InitTest = <<nop, nop>> /\ FuncPrologue = <<nop, nop>> /\ FuncEpilogue = <<nop, nop, ret>>
  BY DEF InitTest, FuncPrologue, FuncEpilogue
<1> HIDE DEF nop, ret
<1>4. <<nop, nop>> \in Seq(Cells) /\ <<nop, nop, ret>> \in Seq(Cells) /\ Len(<<nop, nop, ret>>) = 3
  BY <1>1
<1>5. NoJumps(<<nop, nop>>) /\ NoJumps(<<nop, nop, ret>>)  BY <1>2 DEF NoJumps
<1>6. <<>> \in Seq(Cells) /\ Len(<<>>) = 0 /\ NoJumps(<<>>)
  <2>1. <<>> \in Seq(Cells) /\ Len(<<>>) = 0  BY EmptySeq
  <2>2. DOMAIN <<>> = 1..0  BY <2>1, LenProperties
  <2> QED BY <2>1, <2>2 DEF NoJumps
<1> QED BY <1>3, <1>4, <1>5, <1>6

\* x lies in w from the address a on, which is one of w's.
LiesAt(x, a, w) ==
  /\ a \in Nat /\ a < Len(w)
  /\ \A k \in DOMAIN x : a + k \in 1..Len(w) /\ w[a + k] = x[k]

\* Where the translations of a stream's instructions come to lie.
LEMMA NewAddresses ==
  ASSUME NEW insts \in Seq(Insts), NEW c \in Seq(Cells), NEW p \in Seq(Cells),
         NEW e \in Seq(Cells), NEW i \in 1..Len(insts),
         insts[Len(insts)].op = "retmain" \/ Len(e) = 3
  PROVE  LiesAt(Translated(insts[i]), AddressOf(Len(c) + Len(p), insts, i),
                c \o p \o VMCode(insts) \o e)
<1> DEFINE v == VMCode(insts)
           w == c \o p \o v \o e
           b == Before(insts, i)
           first == Len(c) + Len(p)
           x == Translated(insts[i])
           a == AddressOf(first, insts, i)
<1>1. v \in Seq(Cells) /\ Len(v) \in Nat  BY VMCodeIs
<1>2. /\ a = first + b /\ b \in Nat /\ Len(x) \in Nat /\ b + Len(x) <= Len(v)
      /\ \A k \in 1..Len(x) : v[b + k] = x[k]
  BY AddressIs
<1>3. b < Len(v) \/ Len(e) = 3  BY MainEndsIt
<1>4. DOMAIN x = 1..Len(x)
  <2>1. insts[i] \in Insts  BY EachIs
  <2>2. x \in Seq(Cells)  BY <2>1, TranslatedIs
  <2> QED BY <2>2, LenProperties
<1> HIDE DEF v, b, x
<1>5. /\ Len(c) \in Nat /\ Len(p) \in Nat /\ Len(e) \in Nat
      /\ Len(w) = Len(c) + Len(p) + Len(v) + Len(e)
      /\ \A k \in 1..Len(v) : w[first + k] = v[k]
  <2>1. \A u \in Seq(Cells) :
          /\ Len(c \o p \o u \o e) = Len(c) + Len(p) + Len(u) + Len(e)
          /\ \A k \in 1..Len(u) : (c \o p \o u \o e)[Len(c) + Len(p) + k] = u[k]
    BY PlacingIs
  <2> QED BY <1>1, <2>1, LenProperties
<1> HIDE DEF w, a
<1>6. a \in Nat /\ a < Len(w)
  <2>1. first \in Nat /\ Len(w) = first + Len(v) + Len(e)  BY <1>5
  <2> HIDE DEF first
  <2>2. PICK l \in Nat, m \in Nat, n \in Nat : l = Len(v) /\ m = Len(e) /\ n = Len(x)
    BY <1>1, <1>2, <1>5
  <2>3. b \in Nat /\ b + n <= l /\ (b < l \/ m = 3)  BY <1>2, <1>3, <2>2
  <2>4. b < l + m
    <3>1. b <= l  BY <2>2, <2>3
    <3> QED BY <2>2, <2>3, <3>1
  <2>5. \A f \in Nat : f + b < f + l + m /\ f + b \in Nat  BY <2>2, <2>3, <2>4
  <2>6. a = first + b /\ Len(w) = first + l + m /\ first \in Nat  BY <1>2, <2>1, <2>2
  <2> QED BY <2>5, <2>6
<1>7. ASSUME NEW k \in 1..Len(x) PROVE a + k \in 1..Len(w) /\ w[a + k] = x[k]
  <2>1. PICK q \in Nat : q = b + k  BY <1>2
  <2>2. q \in 1..Len(v) /\ v[q] = x[k]  BY <1>1, <1>2, <2>1
  <2>3. w[first + q] = v[q]  BY <1>5, <2>2
  <2>4. first \in Nat /\ Len(w) = first + Len(v) + Len(e) /\ Len(e) \in Nat  BY <1>5
  <2> HIDE DEF first
  <2>5. a + k = first + q /\ a + k \in 1..Len(w)  BY <1>1, <1>2, <2>1, <2>2, <2>4
  <2> QED BY <2>2, <2>3, <2>5
<1> QED BY <1>4, <1>6, <1>7 DEF LiesAt, w, x, a, v, first

LEMMA EmitStreamStep ==
  ASSUME CodeInv, EmitStream
  PROVE  CodeInv'
<1> DEFINE n == Len(call_translation) + 1
           insts == streams[n]
           prologue == IF n = 1 THEN InitTest ELSE FuncPrologue
           epilogue == IF n = 1 THEN <<>> ELSE FuncEpilogue
           first == Len(code) + Len(prologue)
           new == [i \in DOMAIN insts |-> AddressOf(first, insts, i)]
           placed == code \o prologue \o VMCode(insts) \o epilogue
<1>1. /\ phase = "emit" /\ n <= Len(streams)
      /\ call_translation' = Append(call_translation, Len(code))
      /\ jump_translation' = jump_translation \o new
      /\ code' = placed
      /\ UNCHANGED <<ir_vars, phase, is_begin_bb, run_vars>>
  BY DEF EmitStream
<1>2. IInv /\ BlocksInv /\ TableInv /\ EmitInv /\ RunInv  BY DEF CodeInv
<1>3. IInv'  BY <1>1, <1>2, StepIInv DEF ir_vars
<1>4. /\ code \in Seq(Cells)
      /\ \A a \in DOMAIN code : code[a].op \in Jumps => code[a].to \in Targets
  BY <1>1, <1>2 DEF EmitInv
<1>5. /\ Len(call_translation) \in Nat /\ n \in 1..Len(streams)
      /\ call_translation' \in Seq(Nat) /\ Len(call_translation') = n
  <2>1. Len(call_translation) \in Nat /\ Len(streams) \in Nat  BY <1>2, StreamsAre, LenProperties DEF TableInv
  <2>2. Len(code) \in Nat /\ call_translation \in Seq(Nat)  BY <1>2 DEF TableInv
  <2>3. /\ Append(call_translation, Len(code)) \in Seq(Nat)
        /\ Len(Append(call_translation, Len(code))) = n
    BY <2>2, AppendProperties
  <2> QED BY <1>1, <2>1, <2>3
<1>6. /\ insts \in Seq(Insts) /\ Len(insts) \in Nat /\ DOMAIN insts = 1..Len(insts)
  BY <1>2, <1>5, StreamsAre
<1>7. /\ prologue \in Seq(Cells) /\ NoJumps(prologue)
      /\ epilogue \in Seq(Cells) /\ NoJumps(epilogue) /\ (n # 1 => Len(epilogue) = 3)
  BY FramesAre
<1>8. n = 1 /\ Len(insts) # 0 => insts[Len(insts)].op = "retmain"
  <2>1. todo = <<>>  BY <1>1, <1>2 DEF BlocksInv
  <2>2. streams # <<>>
    <3>1. Len(streams) # 0  BY <1>2, <1>5, StreamsAre
    <3> QED BY <3>1, EmptySeq
  <2>3. streams[1][Len(streams[1])].op = "retmain"
    BY <1>2, <2>1, <2>2 DEF IInv, TargetsInv, MainReturns, Complete
  <2> QED BY <2>3
<1>9. ASSUME NEW i \in 1..Len(insts)
      PROVE  /\ AddressOf(first, insts, i) \in Nat
             /\ AddressOf(first, insts, i) < Len(placed)
             /\ \A k \in DOMAIN Translated(insts[i]) :
                  /\ AddressOf(first, insts, i) + k \in 1..Len(placed)
                  /\ placed[AddressOf(first, insts, i) + k] = Translated(insts[i])[k]
  <2>1. insts[Len(insts)].op = "retmain" \/ Len(epilogue) = 3  BY <1>6, <1>7, <1>8
  <2> HIDE DEF n, insts, prologue, epilogue
  <2>2. /\ insts \in Seq(Insts) /\ code \in Seq(Cells) /\ prologue \in Seq(Cells)
        /\ epilogue \in Seq(Cells)
    BY <1>4, <1>6, <1>7
  <2>3. LiesAt(Translated(insts[i]), AddressOf(first, insts, i), placed)
    BY <2>1, <2>2, NewAddresses
  <2> HIDE DEF first, placed
  <2> QED BY <2>3 DEF LiesAt
<1>10. /\ placed \in Seq(Cells) /\ Len(placed) \in Nat /\ Len(code) <= Len(placed)
       /\ Len(code) \in Nat
       /\ DOMAIN code = 1..Len(code) /\ DOMAIN placed = 1..Len(placed)
       /\ \A a \in 1..Len(code) : a \in 1..Len(placed) /\ placed[a] = code[a]
       /\ JumpsInto(placed, Targets)
  <2> DEFINE v == VMCode(insts)
  <2> HIDE DEF n, insts, prologue, epilogue
  <2>1. /\ v \in Seq(Cells) /\ Len(v) \in Nat
        /\ \A a \in 1..Len(v) : v[a].op \in Jumps => \E i \in 1..Len(insts) : v[a] = insts[i]
    BY <1>6, VMCodeIs
  <2>2. JumpsInto(v, Targets)
    <3>1. \A i \in 1..Len(insts) : insts[i].op \in Jumps => insts[i].to \in Targets
      BY <1>2, <1>5, JumpIsTarget DEF insts
    <3>2. DOMAIN v = 1..Len(v)  BY <2>1, LenProperties
    <3> HIDE DEF v
    <3> QED BY <2>1, <3>1, <3>2 DEF JumpsInto
  <2> HIDE DEF v
  <2>3. /\ code \in Seq(Cells) /\ prologue \in Seq(Cells)
        /\ v \in Seq(Cells) /\ epilogue \in Seq(Cells)
    BY <1>4, <1>7, <2>1
  <2>4. /\ JumpsInto(code, Targets) /\ JumpsInto(prologue, Targets)
        /\ JumpsInto(epilogue, Targets)
    BY <1>4, <1>7 DEF JumpsInto, NoJumps
  <2>5. placed = code \o prologue \o v \o epilogue  BY DEF v
  <2> DEFINE x == code \o prologue
             y == x \o v
             z == y \o epilogue
  <2>6. x \in Seq(Cells) /\ JumpsInto(x, Targets)  BY <2>3, <2>4, JumpsJoin, ConcatIs
  <2> HIDE DEF x
  <2>7. y \in Seq(Cells) /\ JumpsInto(y, Targets)  BY <2>2, <2>3, <2>6, JumpsJoin, ConcatIs
  <2> HIDE DEF y
  <2>8. JumpsInto(z, Targets)  BY <2>3, <2>4, <2>7, JumpsJoin
  <2>9. placed = z  BY <2>5 DEF x, y
  <2> HIDE DEF placed, z
  <2>10. /\ placed \in Seq(Cells)
         /\ Len(code) \in Nat /\ Len(prologue) \in Nat /\ Len(v) \in Nat /\ Len(epilogue) \in Nat
         /\ Len(placed) = Len(code) + Len(prologue) + Len(v) + Len(epilogue)
    BY <2>3, <2>5, PlacingIs
  <2>11. \A a \in 1..Len(code) : placed[a] = code[a]
    BY <2>3, <2>5, PlacingIs
  <2>12. Len(code) <= Len(placed) /\ Len(placed) \in Nat  BY <2>10
  <2>13. \A a \in 1..Len(code) : a \in 1..Len(placed)  BY <2>10, <2>12
  <2>14. DOMAIN code = 1..Len(code) /\ DOMAIN placed = 1..Len(placed)
    BY <2>3, <2>10, LenProperties
  <2> QED BY <2>8, <2>9, <2>10, <2>11, <2>12, <2>13, <2>14
<1>11. /\ new \in Seq(Nat) /\ Len(new) = Len(insts)
       /\ \A i \in 1..Len(insts) : new[i] = AddressOf(first, insts, i)
  <2>1. \A i \in 1..Len(insts) : AddressOf(first, insts, i) \in Nat  BY <1>9
  <2> HIDE DEF n, insts, first
  <2>2. new \in [1..Len(insts) -> Nat]  BY <1>6, <2>1
  <2>3. new \in Seq(Nat) /\ Len(new) = Len(insts)  BY <1>6, <2>2
  <2> QED BY <1>6, <2>3
<1>12. /\ jump_translation' \in Seq(Nat)
       /\ Len(jump_translation) = Offset(n) /\ Len(jump_translation) \in Nat
       /\ Len(jump_translation') = Len(jump_translation) + Len(insts)
       /\ \A g \in 1..Len(jump_translation) : jump_translation'[g] = jump_translation[g]
       /\ \A i \in 1..Len(insts) : jump_translation'[Len(jump_translation) + i] = new[i]
  <2>1. jump_translation \in Seq(Nat) /\ Len(jump_translation) = Offset(n)
    BY <1>2 DEF TableInv
  <2> HIDE DEF n, insts, new
  <2> DEFINE C == Nat
  <2>2. jump_translation \in Seq(C) /\ new \in Seq(C)  BY <1>11, <2>1
  <2> HIDE DEF C
  <2>3. /\ jump_translation \o new \in Seq(C)
        /\ Len(jump_translation) \in Nat
        /\ Len(jump_translation \o new) = Len(jump_translation) + Len(new)
        /\ \A g \in 1..Len(jump_translation) : (jump_translation \o new)[g] = jump_translation[g]
        /\ \A i \in 1..Len(new) : (jump_translation \o new)[Len(jump_translation) + i] = new[i]
    BY <2>2, ConcatIs
  <2>4. Len(new) = Len(insts)  BY <1>11
  <2>5. jump_translation' = jump_translation \o new  BY <1>1
  <2> QED BY <2>1, <2>3, <2>4, <2>5 DEF C
<1>13. /\ streams' = streams /\ todo' = todo /\ phase' = phase /\ is_begin_bb' = is_begin_bb
       /\ \A m \in Nat : Offset(m)' = Offset(m)
  BY <1>1 DEF ir_vars, Offset
<1>14. /\ Offset(n) \in Nat
       /\ \A m \in Nat : m = n + 1 => Offset(m) = Offset(n) + Len(insts)
       /\ \A m \in 1..Len(streams) : m < n =>
            Offset(m) \in Nat /\ Offset(m) + Len(streams[m]) <= Offset(n)
  BY <1>2, <1>5, OffsetIs
<1> DEFINE J == jump_translation
           K == jump_translation'
           D == code'
<1>15. /\ D \in Seq(Cells) /\ Len(D) \in Nat /\ Len(code) \in Nat /\ Len(code) <= Len(D)
       /\ DOMAIN D = 1..Len(D) /\ DOMAIN code = 1..Len(code)
       /\ \A a \in DOMAIN code : a \in DOMAIN D /\ D[a] = code[a]
       /\ JumpsInto(D, Targets)
  BY <1>1, <1>10
<1>16. ASSUME NEW i \in 1..Len(insts)
       PROVE  /\ K[Len(J) + i] < Len(D)
              /\ \A k \in DOMAIN Translated(insts[i]) :
                   /\ K[Len(J) + i] + k \in DOMAIN D
                   /\ D[K[Len(J) + i] + k] = Translated(insts[i])[k]
  <2>1. K[Len(J) + i] = AddressOf(first, insts, i)  BY <1>11, <1>12
  <2>2. D = placed  BY <1>1
  <2> HIDE DEF K, J, D, placed, first, insts, new
  <2> QED BY <1>9, <1>15, <2>1, <2>2
<1>17. /\ K \in Seq(Nat) /\ DOMAIN K = 1..Len(K) /\ DOMAIN J = 1..Len(J)
       /\ Len(J) = Offset(n) /\ Len(K) = Len(J) + Len(insts) /\ Len(J) \in Nat
       /\ \A g \in 1..Len(J) : K[g] = J[g]
       /\ \A g \in 1..Len(J) : J[g] < Len(code) /\ J[g] \in Nat
  <2>1. J \in Seq(Nat) /\ \A g \in DOMAIN J : J[g] < Len(code)  BY <1>2 DEF TableInv
  <2>2. DOMAIN J = 1..Len(J) /\ \A g \in 1..Len(J) : J[g] \in Nat
    BY <2>1, LenProperties, ElementOfSeq
  <2>3. K \in Seq(Nat)  BY <1>12
  <2>4. DOMAIN K = 1..Len(K)  BY <2>3, LenProperties
  <2> HIDE DEF J, K
  <2> QED BY <1>12, <2>1, <2>2, <2>3, <2>4 DEF J, K
<1> HIDE DEF J, K, D, insts, placed, first, new, prologue, epilogue
<1>18. ASSUME NEW g \in 1..Len(K) PROVE K[g] < Len(D)
  <2>1. CASE g <= Len(J)
    <3>1. g \in 1..Len(J)  BY <1>17, <2>1
    <3>2. J[g] < Len(code) /\ J[g] \in Nat /\ K[g] = J[g]  BY <1>17, <3>1
    <3>3. Len(D) \in Nat /\ Len(code) \in Nat /\ Len(code) <= Len(D)  BY <1>15
    <3> QED BY <3>2, <3>3
  <2>2. CASE ~ (g <= Len(J))
    <3>1. PICK i \in 1..Len(insts) : g = Len(J) + i
      <4>1. g - Len(J) \in 1..Len(insts) /\ g = Len(J) + (g - Len(J))
        BY <1>6, <1>17, <2>2
      <4> QED BY <4>1
    <3> QED BY <1>16, <3>1
  <2> QED BY <2>1, <2>2
<1>19. ASSUME NEW m \in 1..n, NEW i \in DOMAIN streams[m],
              NEW k \in DOMAIN Translated(streams[m][i])
       PROVE  /\ K[Offset(m) + i] + k \in DOMAIN D
              /\ D[K[Offset(m) + i] + k].op = Translated(streams[m][i])[k].op
              /\ D[K[Offset(m) + i] + k].at = Translated(streams[m][i])[k].at
  <2>1. CASE m = n
    <3>1. streams[m] = insts /\ i \in 1..Len(insts)  BY <1>6, <2>1 DEF insts
    <3>2. Offset(m) = Len(J)  BY <1>17, <2>1
    <3> QED BY <1>16, <3>1, <3>2
  <2>2. CASE m # n
    <3>1. /\ m \in 1..Len(call_translation) /\ m \in 1..Len(streams) /\ m < n
      BY <1>5, <2>2
    <3>2. Len(streams[m]) \in Nat /\ DOMAIN streams[m] = 1..Len(streams[m])
      BY <1>2, <3>1, StreamsAre
    <3>3. /\ J[Offset(m) + i] + k \in DOMAIN code
          /\ code[J[Offset(m) + i] + k].op = Translated(streams[m][i])[k].op
          /\ code[J[Offset(m) + i] + k].at = Translated(streams[m][i])[k].at
      BY <1>2, <3>1 DEF TableInv, Placed, J
    <3>4. Offset(m) + i \in 1..Len(J)
      <4>1. Offset(m) \in Nat /\ Offset(m) + Len(streams[m]) <= Offset(n)  BY <1>14, <3>1
      <4>2. i \in 1..Len(streams[m])  BY <3>2
      <4>3. Len(J) \in Nat /\ Len(J) = Offset(n)  BY <1>17
      <4> HIDE DEF n
      <4> QED BY <3>2, <4>1, <4>2, <4>3
    <3>5. K[Offset(m) + i] = J[Offset(m) + i]  BY <1>17, <3>4
    <3> QED BY <1>15, <3>3, <3>5
  <2> QED BY <2>1, <2>2
<1>20. Placed(Len(call_translation))'
  <2> SUFFICES ASSUME NEW m \in 1..n, NEW i \in DOMAIN streams[m],
                      NEW k \in DOMAIN Translated(streams[m][i])
               PROVE  /\ K[Offset(m) + i] + k \in DOMAIN D
                      /\ D[K[Offset(m) + i] + k].op = Translated(streams[m][i])[k].op
                      /\ D[K[Offset(m) + i] + k].at = Translated(streams[m][i])[k].at
    <3>1. Len(call_translation') = n /\ \A m \in 1..n : Offset(m)' = Offset(m)
      BY <1>5, <1>13
    <3> HIDE DEF n
    <3> QED BY <1>13, <3>1 DEF Placed, K, D
  <2> QED BY <1>19
<1>21. Len(K) = Offset(Len(call_translation) + 1)'
  <2>1. PICK m \in Nat : m = n + 1  BY <1>5
  <2>2. Offset(m)' = Offset(m) /\ Offset(m) = Offset(n) + Len(insts)  BY <1>13, <1>14, <2>1
  <2>3. Len(call_translation') = n  BY <1>5
  <2> HIDE DEF n
  <2> QED BY <1>17, <2>1, <2>2, <2>3
<1>22. TableInv'
  <2>1. Len(call_translation') <= Len(streams')  BY <1>5, <1>13
  <2> HIDE DEF n
  <2> QED BY <1>5, <1>13, <1>15, <1>17, <1>18, <1>20, <1>21, <2>1 DEF TableInv, K, D
<1>23. BlocksInv' /\ EmitInv' /\ RunInv'
  <2>1. AllInsts' = AllInsts  BY <1>13 DEF AllInsts
  <2>2. Targets' = Targets  BY <2>1 DEF Targets
  <2>3. BlockStarts' = BlockStarts
    <3>1. BlockStarts' = {Offset(m)' : m \in DOMAIN streams} \cup Targets
      BY <1>13, <2>2 DEF BlockStarts
    <3>2. DOMAIN streams \subseteq Nat  BY <1>2, StreamsAre
    <3> QED BY <1>13, <3>1, <3>2 DEF BlockStarts
  <2>4. BlocksInv'  BY <1>1, <1>2, <1>13, <2>2, <2>3 DEF BlocksInv
  <2>5. EmitInv'  BY <1>15, <2>2 DEF EmitInv, JumpsInto, D
  <2>6. RunInv'  BY <1>1, <1>13 DEF RunInv
  <2> QED BY <2>4, <2>5, <2>6
<1> QED BY <1>3, <1>22, <1>23 DEF CodeInv

-----------------------------------------------------------------------------
(* The other steps. *)

LEMMA InitCodeInv == CodeInit => CodeInv
<1> SUFFICES ASSUME CodeInit PROVE CodeInv
  OBVIOUS
<1>1. /\ Init /\ phase = "generate" /\ code = <<>>
      /\ call_translation = <<>> /\ jump_translation = <<>>
  BY DEF CodeInit
<1>2. IInv  BY <1>1, InitIInv
<1>3. Len(<<>>) = 0 /\ \A S : <<>> \in Seq(S)  BY EmptySeq
<1>4. DOMAIN <<>> = 1..0  BY <1>3, LenProperties
<1>5. BlocksInv /\ RunInv  BY <1>1 DEF BlocksInv, RunInv
<1>6. EmitInv  BY <1>1, <1>3, <1>4 DEF EmitInv
<1>7. TableInv
  <2>1. Len(streams) \in Nat  BY <1>2, StreamsAre
  <2>2. Len(jump_translation) = Offset(Len(call_translation) + 1)
    <3>1. Flattened(streams, 0) = <<>>  BY <1>2, StreamsAre, FlattenedIs
    <3>2. Offset(1) = Len(Flattened(streams, 0))  BY DEF Offset, Flattened
    <3> QED BY <1>1, <1>3, <3>1, <3>2
  <2>3. Placed(Len(call_translation))  BY <1>1, <1>3 DEF Placed
  <2> QED BY <1>1, <1>3, <1>4, <2>1, <2>2, <2>3 DEF TableInv
<1> QED BY <1>2, <1>5, <1>6, <1>7 DEF CodeInv

LEMMA GenerateIRStep ==
  ASSUME CodeInv, GenerateIR
  PROVE  CodeInv'
<1>1. /\ phase = "generate" /\ Generate /\ phase' = phase /\ code' = code
      /\ call_translation' = call_translation /\ jump_translation' = jump_translation
  BY DEF GenerateIR, code_vars
<1>2. IInv' /\ IInv  BY <1>1, StepIInv DEF CodeInv
<1>3. code = <<>> /\ call_translation = <<>> /\ jump_translation = <<>>
  BY <1>1 DEF CodeInv, BlocksInv
<1>4. Len(<<>>) = 0 /\ \A S : <<>> \in Seq(S)  BY EmptySeq
<1>5. DOMAIN <<>> = 1..0  BY <1>4, LenProperties
<1>6. BlocksInv' /\ RunInv'  BY <1>1, <1>3 DEF BlocksInv, RunInv
<1>7. EmitInv'  BY <1>1, <1>3, <1>4, <1>5 DEF EmitInv
<1>8. TableInv'
  <2>1. streams' \in Seq(Seq(Insts))  BY <1>2 DEF IInv, TypeOK
  <2>2. Len(streams') \in Nat  BY <2>1, LenProperties
  <2>3. Len(jump_translation') = Offset(Len(call_translation) + 1)'
    <3>1. Flattened(streams', 0) = <<>>  BY <2>1, FlattenedIs
    <3>2. Offset(1)' = Len(Flattened(streams', 0))  BY DEF Offset, Flattened
    <3>3. Len(call_translation') + 1 = 1  BY <1>1, <1>3, <1>4
    <3> QED BY <1>1, <1>3, <1>4, <3>1, <3>2, <3>3
  <2>4. Placed(Len(call_translation))'  BY <1>1, <1>3, <1>4 DEF Placed
  <2> QED BY <1>1, <1>3, <1>4, <1>5, <2>2, <2>3, <2>4 DEF TableInv
<1> QED BY <1>2, <1>6, <1>7, <1>8 DEF CodeInv

\* The invariant does not look at the machine.
LEMMA SameTables ==
  ASSUME CodeInv, IInv',
         UNCHANGED <<todo, streams, is_begin_bb, code, call_translation, jump_translation>>,
         \/ phase' = phase
         \/ phase \notin {"generate", "emit"} /\ phase' \notin {"generate", "emit"}
  PROVE  CodeInv'
<1>1. IInv /\ BlocksInv /\ TableInv /\ EmitInv /\ RunInv  BY DEF CodeInv
<1>2. AllInsts' = AllInsts /\ Targets' = Targets /\ BlockStarts' = BlockStarts
  <2>1. AllInsts' = AllInsts  BY DEF AllInsts
  <2>2. Targets' = Targets  BY <2>1 DEF Targets
  <2> QED BY <2>1, <2>2 DEF BlockStarts, Offset
<1>3. BlocksInv'  BY <1>1, <1>2 DEF BlocksInv
<1>4. TableInv'  BY <1>1 DEF TableInv, Placed, Offset
<1>5. EmitInv'  BY <1>1, <1>2 DEF EmitInv
<1>6. RunInv'  BY <1>1 DEF RunInv
<1> QED BY <1>3, <1>4, <1>5, <1>6 DEF CodeInv

LEMMA ComputeBeginBBStep ==
  ASSUME CodeInv, ComputeBeginBB
  PROVE  CodeInv'
<1>1. /\ phase = "generate" /\ Generated /\ ~aborted
      /\ UNCHANGED <<program, todo, streams, back_patch, code, call_translation,
                     jump_translation>>
  BY DEF ComputeBeginBB
<1>2. IInv /\ BlocksInv /\ TableInv /\ EmitInv /\ RunInv  BY DEF CodeInv
<1>3. aborted' \in BOOLEAN
  BY <1>2 DEF ComputeBeginBB, IInv, TypeOK
<1>4. IInv'  BY <1>1, <1>2, <1>3, SameIR
<1>5. CASE Unpatched \in Targets
  <2>1. UNCHANGED <<phase, is_begin_bb>>  BY <1>5 DEF ComputeBeginBB
  <2> QED BY <1>1, <1>4, <2>1, SameTables
<1>6. CASE Unpatched \notin Targets
  <2>1. phase' = "emit" /\ is_begin_bb' = BlockStarts  BY <1>6 DEF ComputeBeginBB
  <2>2. AllInsts' = AllInsts /\ Targets' = Targets /\ BlockStarts' = BlockStarts
    <3>1. AllInsts' = AllInsts  BY <1>1 DEF AllInsts
    <3>2. Targets' = Targets  BY <3>1 DEF Targets
    <3> QED BY <1>1, <3>1, <3>2 DEF BlockStarts, Offset
  <2>3. BlocksInv'
    <3>1. todo = <<>>  BY <1>1 DEF Generated
    <3> QED BY <1>1, <1>6, <2>1, <2>2, <3>1 DEF BlocksInv
  <2>4. TableInv'  BY <1>1, <1>2 DEF TableInv, Placed, Offset
  <2>5. EmitInv'  BY <1>1, <1>2, <2>2 DEF EmitInv
  <2>6. RunInv'  BY <2>1 DEF RunInv
  <2> QED BY <1>4, <2>3, <2>4, <2>5, <2>6 DEF CodeInv
<1> QED BY <1>5, <1>6

LEMMA PatchTargetsStep ==
  ASSUME CodeInv, PatchTargets
  PROVE  CodeInv'
<1>1. /\ phase = "emit" /\ Len(call_translation) = Len(streams) /\ phase' = "run"
      /\ UNCHANGED <<ir_vars, is_begin_bb, call_translation, jump_translation, run_vars>>
      /\ code' = [a \in DOMAIN code |->
            CASE code[a].op \in Jumps -> [code[a] EXCEPT !.to = jump_translation[@ + 1]]
              [] code[a].op = "call" -> [code[a] EXCEPT !.to = call_translation[@]]
              [] OTHER -> code[a]]
  BY DEF PatchTargets
<1>2. IInv /\ BlocksInv /\ TableInv /\ EmitInv  BY DEF CodeInv
<1>3. IInv'  BY <1>1, <1>2, StepIInv DEF ir_vars
<1>4. /\ code \in Seq(Cells) /\ Len(code) \in Nat /\ DOMAIN code = 1..Len(code)
      /\ \A a \in DOMAIN code : code[a] \in Cells
      /\ \A a \in DOMAIN code : code[a].op \in Jumps => code[a].to \in Targets
  <2>1. /\ code \in Seq(Cells)
        /\ \A a \in DOMAIN code : code[a].op \in Jumps => code[a].to \in Targets
    BY <1>1, <1>2 DEF EmitInv
  <2>2. \A a \in 1..Len(code) : code[a] \in Cells  BY <2>1, ElementOfSeq
  <2> QED BY <2>1, <2>2, LenProperties
<1>5. DOMAIN code' = DOMAIN code /\ Len(code') = Len(code)
  <2> DEFINE N == Len(code)
             S == {code'[a] : a \in DOMAIN code}
  <2>1. DOMAIN code' = DOMAIN code /\ code' = [a \in DOMAIN code |-> code'[a]]  BY <1>1
  <2>2. N \in Nat /\ DOMAIN code = 1..N  BY <1>4
  <2>3. \A a \in DOMAIN code : code'[a] \in S  OBVIOUS
  <2> HIDE DEF N, S
  <2>4. code' \in [1..N -> S]  BY <2>1, <2>2, <2>3
  <2>5. Len(code') = N  BY <2>2, <2>4
  <2> QED BY <2>1, <2>5 DEF N
<1>6. ASSUME NEW a \in DOMAIN code
      PROVE  /\ code'[a].op = code[a].op /\ code'[a].at = code[a].at
             /\ code[a].op \in Jumps => code'[a].to = jump_translation[code[a].to + 1]
  <2>1. code[a] \in Cells  BY <1>4
  <2>2. CASE code[a].op \in Jumps
    <3>1. code[a].op # "call"  BY <2>2 DEF Jumps
    <3>2. code'[a] = [code[a] EXCEPT !.to = jump_translation[@ + 1]]  BY <1>1, <2>2, <3>1
    <3> QED BY <2>1, <3>2 DEF Cells
  <2>3. CASE code[a].op = "call"
    <3>1. code[a].op \notin Jumps  BY <2>3 DEF Jumps
    <3>2. code'[a] = [code[a] EXCEPT !.to = call_translation[@]]  BY <1>1, <2>3, <3>1
    <3> QED BY <2>1, <3>1, <3>2 DEF Cells
  <2>4. CASE code[a].op \notin Jumps /\ code[a].op # "call"
    <3>1. code'[a] = code[a]  BY <1>1, <2>4
    <3> QED BY <2>4, <3>1
  <2> QED BY <2>2, <2>3, <2>4
<1>7. /\ streams' = streams /\ todo' = todo /\ is_begin_bb' = is_begin_bb
      /\ call_translation' = call_translation /\ jump_translation' = jump_translation
  BY <1>1 DEF ir_vars
<1>8. AllInsts' = AllInsts /\ Targets' = Targets /\ BlockStarts' = BlockStarts
  <2>1. AllInsts' = AllInsts  BY <1>7 DEF AllInsts
  <2>2. Targets' = Targets  BY <1>7, <2>1 DEF Targets
  <2> QED BY <1>7, <2>1, <2>2 DEF BlockStarts, Offset
<1>9. BlocksInv'  BY <1>1, <1>2, <1>7, <1>8 DEF BlocksInv
<1>10. TableInv'
  <2>1. Placed(Len(call_translation))'
    <3>1. Placed(Len(call_translation))  BY <1>2 DEF TableInv
    <3> QED BY <1>5, <1>6, <1>7, <3>1 DEF Placed, Offset
  <2>2. Len(jump_translation') = Offset(Len(call_translation) + 1)'
    BY <1>2, <1>7 DEF TableInv, Offset
  <2> QED BY <1>2, <1>5, <1>7, <2>1, <2>2 DEF TableInv
<1>11. EmitInv'  BY <1>1 DEF EmitInv
<1>12. Len(jump_translation) = Len(AllInsts)
  <2>1. Len(streams) \in Nat /\ Len(streams) \in 0..Len(streams)  BY <1>2, StreamsAre
  <2>2. Flattened(streams, Len(streams)) = AllInsts
    <3>1. streams \in Seq(Seq(Insts))  BY <1>2, StreamsAre
    <3> QED BY <3>1, FlattenedIs DEF AllInsts
  <2>3. PICK m \in Nat : m = Len(streams) + 1  BY <2>1
  <2>4. m - 1 = Len(streams)  BY <2>1, <2>3
  <2>5. Offset(m) = Len(AllInsts)  BY <2>2, <2>4 DEF Offset, Flattened
  <2> QED BY <1>1, <1>2, <2>3, <2>5 DEF TableInv
<1>13. RunInv'
  <2>1. ASSUME NEW a \in DOMAIN code, code[a].op \in Jumps
        PROVE  \E g \in is_begin_bb : /\ g + 1 \in DOMAIN jump_translation
                                      /\ code'[a].to = jump_translation[g + 1]
    <3>1. code[a].to \in Targets  BY <1>4, <2>1
    <3>2. PICK g \in Targets : g = code[a].to  BY <3>1
    <3>3. todo = <<>> /\ Unpatched \notin Targets /\ is_begin_bb = BlockStarts
      BY <1>1, <1>2 DEF BlocksInv
    <3>4. g \in 0..Len(AllInsts) - 1 /\ Len(AllInsts) \in Nat  BY <1>2, <3>3, TargetsInRange
    <3>5. DOMAIN jump_translation = 1..Len(jump_translation)
      BY <1>2, LenProperties DEF TableInv
    <3>6. g + 1 \in DOMAIN jump_translation  BY <1>12, <3>4, <3>5
    <3>7. g \in is_begin_bb  BY <3>3 DEF BlockStarts
    <3>8. code'[a].to = jump_translation[g + 1]  BY <1>6, <2>1, <3>2
    <3> QED BY <3>6, <3>7, <3>8
  <2> QED BY <1>1, <1>5, <1>6, <1>7, <2>1 DEF RunInv
<1> QED BY <1>3, <1>9, <1>10, <1>11, <1>13 DEF CodeInv

\* The machine's steps leave the code and the tables alone.
Machine == Skip \/ Do \/ Test \/ Jump \/ Call \/ Ret \/ Stop

LEMMA MachineFrame ==
  ASSUME Machine
  PROVE  /\ UNCHANGED <<program, todo, streams, back_patch, aborted, is_begin_bb, code,
                        call_translation, jump_translation>>
         /\ phase = "run" /\ phase' \in {"run", "lost", "done"}
<1> USE DEF Stay, Lost, ir_vars, Source!Simple, Source!Return, Source!Call, Source!Test
<1>1. CASE Skip  BY <1>1 DEF Skip, Running
<1>2. CASE Do  BY <1>2 DEF Do, Running
<1>3. CASE Test  BY <1>3 DEF Test, Running
<1>4. CASE Jump  BY <1>4 DEF Jump, Running
<1>5. CASE Call  BY <1>5 DEF Call, Running
<1>6. CASE Ret  BY <1>6 DEF Ret, Running
<1>7. CASE Stop  BY <1>7 DEF Stop
<1> QED BY <1>1, <1>2, <1>3, <1>4, <1>5, <1>6, <1>7 DEF Machine

LEMMA MachineStep ==
  ASSUME CodeInv, Machine
  PROVE  CodeInv'
<1>1. /\ UNCHANGED <<program, todo, streams, back_patch, aborted, is_begin_bb, code,
                     call_translation, jump_translation>>
      /\ phase = "run" /\ phase' \in {"run", "lost", "done"}
  BY MachineFrame
<1>2. IInv /\ aborted \in BOOLEAN  BY DEF CodeInv, IInv, TypeOK
<1>3. IInv'  BY <1>1, <1>2, SameIR
<1> QED BY <1>1, <1>3, SameTables

LEMMA StepCodeInv == CodeInv /\ [Next]_vars => CodeInv'
<1> SUFFICES ASSUME CodeInv, [Next]_vars PROVE CodeInv'
  OBVIOUS
<1>1. CASE GenerateIR  BY <1>1, GenerateIRStep
<1>2. CASE ComputeBeginBB  BY <1>2, ComputeBeginBBStep
<1>3. CASE EmitStream  BY <1>3, EmitStreamStep
<1>4. CASE PatchTargets  BY <1>4, PatchTargetsStep
<1>5. CASE Machine  BY <1>5, MachineStep
<1>6. CASE UNCHANGED vars
  <2>1. /\ UNCHANGED <<program, todo, streams, back_patch, aborted, is_begin_bb, code,
                       call_translation, jump_translation, phase>>
    BY <1>6 DEF vars, ir_vars, code_vars
  <2>2. IInv /\ aborted \in BOOLEAN  BY DEF CodeInv, IInv, TypeOK
  <2>3. IInv'  BY <2>1, <2>2, SameIR
  <2> QED BY <2>1, <2>3, SameTables
<1> QED BY <1>1, <1>2, <1>3, <1>4, <1>5, <1>6 DEF Next, Machine

-----------------------------------------------------------------------------
(* What the compiler and the machine promise. *)

\* From the tree to the run, for every set of programs: the table of addresses
\* has one entry for each instruction of the streams placed so far.
THEOREM CodeInvariance == CodeSpec => []CodeInv
<1> QED BY InitCodeInv, StepCodeInv, PTL DEF CodeSpec

\* What IR generation promises on its own it promises in the whole compiler,
\* where compilation may be aborted later: a patch finds a jump of its own
\* stream, and no jump of a finished program is forgotten.
THEOREM CompilerPatches ==
  CodeSpec => [](TypeOK /\ PatchesFindTheirJumps /\ NoJumpIsForgotten)
<1>1. CodeInv => TypeOK /\ PatchesFindTheirJumps /\ NoJumpIsForgotten
  <2> SUFFICES ASSUME CodeInv PROVE TypeOK /\ PatchesFindTheirJumps /\ NoJumpIsForgotten
    OBVIOUS
  <2>1. IInv  BY DEF CodeInv
  <2> QED BY <2>1, NothingForgotten DEF IInv
<1> QED BY <1>1, CodeInvariance, PTL

\* The machine arrives by a jump only where a basic block begins, where the
\* register allocator was flushed: BackpathCallTargets gives a jump the
\* address of an instruction IRUnit::computeIsBeginBB marked.
THEOREM JumpsEnterMarkedBlocks == CodeSpec => JumpsEnterBlocks
<1>1. CodeInv /\ [Next]_vars => [Jump /\ Taken => pc' \in MarkedAddresses]_vars
  <2> SUFFICES ASSUME CodeInv, Jump, Taken PROVE pc' \in MarkedAddresses
    OBVIOUS
  <2>1. phase = "run" /\ pc + 1 \in DOMAIN code /\ code[pc + 1].op \in Jumps
    BY DEF Jump, Running
  <2>2. pc' = code[pc + 1].to  BY DEF Jump, Go, Now
  <2>3. PICK g \in is_begin_bb : code[pc + 1].to = jump_translation[g + 1]
    BY <2>1 DEF CodeInv, RunInv
  <2> QED BY <2>2, <2>3 DEF MarkedAddresses
<1> QED BY <1>1, CodeInvariance, PTL DEF CodeSpec, JumpsEnterBlocks

\* In the code that runs, every jump leads to an instruction.
JumpsStayInTheCode ==
  phase \notin {"generate", "emit"} =>
    \A a \in DOMAIN code : code[a].op \in Jumps => code[a].to \in 0..Len(code) - 1

THEOREM JumpsHaveTargets == CodeSpec => []JumpsStayInTheCode
<1>1. CodeInv => JumpsStayInTheCode
  <2> SUFFICES ASSUME CodeInv, phase \notin {"generate", "emit"},
                      NEW a \in DOMAIN code, code[a].op \in Jumps
               PROVE  code[a].to \in 0..Len(code) - 1
    BY DEF JumpsStayInTheCode
  <2>1. PICK g \in is_begin_bb : /\ g + 1 \in DOMAIN jump_translation
                                 /\ code[a].to = jump_translation[g + 1]
    BY DEF CodeInv, RunInv
  <2>2. PICK k \in DOMAIN jump_translation : code[a].to = jump_translation[k]  BY <2>1
  <2>3. /\ jump_translation \in Seq(Nat) /\ Len(code) \in Nat
        /\ jump_translation[k] < Len(code)
    BY DEF CodeInv, TableInv
  <2>4. jump_translation[k] \in Nat
    <3>1. k \in 1..Len(jump_translation)  BY <2>3, LenProperties
    <3> QED BY <2>3, <3>1, ElementOfSeq
  <2> QED BY <2>2, <2>3, <2>4
<1> QED BY <1>1, CodeInvariance, PTL

\* In the code that runs, the address the table keeps for an instruction of
\* the intermediate code is where its translation begins: same operations, of
\* the same nodes, whatever the patches of targets have changed since.
InstructionsArePlaced == phase \notin {"generate", "emit"} => Placed(Len(streams))

THEOREM TableFindsInstructions == CodeSpec => []InstructionsArePlaced
<1>1. CodeInv => InstructionsArePlaced
  BY DEF CodeInv, TableInv, RunInv, InstructionsArePlaced
<1> QED BY <1>1, CodeInvariance, PTL
===============================================================================
