------------------------ MODULE ParserSentencesProofs ------------------------
(***************************************************************************)
(* The recursive descent parser hands on no tree with a null pointer in it *)
(* for an error of syntax, whatever the file (NoHolesFromSyntax).  The     *)
(* functions are told apart by what they promise to their caller when they *)
(* return: the functions of expressions, that where they return null the   *)
(* token is none an expression could go on with or end before, or the      *)
(* parser is to stop; the others, no more than a node or null.  The        *)
(* invariant (Inv) says of every frame how far in its body it is, what it  *)
(* has collected there and which promise it waits for (Steady, Awaits,     *)
(* Ready), and of the scanner what was read before some tokens.            *)
(***************************************************************************)
EXTENDS ParserSentences, SequenceTheorems, WellFoundedInduction, TLAPS

(* What the promises speak of.                                             *)
Now == [made |-> made, token |-> token_, go |-> continue_parsing_, fatal |-> num_fatal_errors_,
        text |-> text, at |-> current_position_]

(* What is left of a body from its n-th item on.                           *)
From(body, n) == SubSeq(body, n, Len(body))

-----------------------------------------------------------------------------
(* The kinds of frames.                                                    *)
Levels == {"Expr", "AndExpr", "RelExpr", "NumExpr", "Term"}
Of(f, b) == <<f, b>>            \* an expression; with b, a plus was taken before it
AnyNode == <<"any", FALSE>>
NoElse == <<"noelse", FALSE>>   \* null
Main == <<"main", FALSE>>       \* the frame at the bottom
Kinds == {Of(f, b) : f \in Levels, b \in BOOLEAN} \cup {AnyNode, NoElse, Main}

Stopped(s) == s.go = FALSE
Added(s) == \E i \in 1..(s.at - 1) : s.text[i] = "+"
Compared(s) == \E k \in 1..(s.at - 1) :
                  Compares(s.text, k) /\ \E i \in 1..(k - 1) : s.text[i] = "+"

(* Nothing is looked at that an expression could go on with or end before. *)
Refused(b, s) == s.token \notin set_argm_ \/ (~b /\ s.token = "plus")

(* The operators of a level and of those below it.                         *)
UpTo(f) == CASE f = "Term"    -> {}
             [] f = "NumExpr" -> {"plus"}
             [] f = "RelExpr" -> {"plus", "lessthan", "equalto"}
             [] f = "AndExpr" -> {"plus", "lessthan", "equalto", "and"}
             [] f = "Expr"    -> {"plus", "lessthan", "equalto", "and", "or"}

Returns(f, b, v, s) ==
    \/ Stopped(s)
    \/ v = Null /\ Refused(b, s)
    \/ v = Whole /\ s.token \notin UpTo(f)

NullStops(v, s) == v = Whole \/ (v = Null /\ Stopped(s))
NullRefuses(v, b, s) == v = Whole \/ (v = Null /\ (Stopped(s) \/ Refused(b, s)))

Promise(k, s) ==
    /\ s.made \in {Null, Whole}
    /\ k = NoElse => s.made = Null
    /\ \A f \in Levels, b \in BOOLEAN : k = Of(f, b) => Returns(f, b, s.made, s)

-----------------------------------------------------------------------------
(* What a frame may have left to do.  Steady: it relies on what stays true *)
(* and neither on the token looked at nor on the node returned last.       *)
(* Awaits: it waits for a function of a kind.  Ready: it runs.             *)

(* Most functions: of what they collect nothing is asked.                  *)
PlainFunctions == {"DefList", "FuncDef_", "ParseFuncDef", "ParList", "ParListPrime", "ClassDef_", "InhtList",
                   "InhtListPrime", "MemberList", "Member", "BuildNameDecl", "Type", "NameDecl", "NameList",
                   "Stmts", "Stmt", "ArgList", "ArgListPrime", "Argument"}
HandedFunctions == {"Stmts", "NameList", "NameListPrime", "NameAfterComma", "NameListEnd"}
PlainTokens == {"void", "int", "bool", "ntype", "astk", "class", "while", "return", "else", "name",
                "lpar", "rpar", "lcbr", "rcbr", "comma", "colon", "semi", "equl"}
PlainItems ==
    {Take(t) : t \in PlainTokens} \cup {Need(t) : t \in PlainTokens} \cup {Try(t) : t \in PlainTokens}
    \cup {Expect(ts) : ts \in {{"rcbr"}, set_ifelse_, {"semi", "lpar"}}}
    \cup {Declare(what) : what \in {"class", "function", "variable", "member"}}
    \cup {KeepMember(kind) : kind \in {"function", "variable"}} \cup {Inside(b) : b \in BOOLEAN}
    \cup {Unreported(kind) : kind \in {"undefined", "skipped"}}
    \cup {Call(f) : f \in PlainFunctions \cup {"Expr"}} \cup {Pass(f) : f \in HandedFunctions}
    \cup {Recover(f) : f \in {"NameList", "NameListPrime"}}
    \cup {Fail, Missed, Valid, Unless, Collect, Build, Fatal, NoReturn, PlainType, ClassName, Parent,
           NewClassDecl, NewClass, KeepFunction, ConsumeUntil("rpar"), Give(Null), Give(Whole)}

IfTodo == <<Take("if"), Need("lpar"), Call("Expr"), Missed, Collect, Need("rpar"), Need("lcbr"),
            Call("Stmts"), Missed, Valid, Collect, Need("rcbr"), Call("IfElse"), BuildIf>>

AnySteady(d, c, s) ==
    \/ d \in Seq(PlainItems) \ {<<>>} /\ c \in {Nothing, Null, Whole}
    \/ \E n \in 1..3 : d = From(IfTodo, n) /\ c = Nothing
    \/ \E n \in {7, 8, 9, 10, 12, 13} : d = From(IfTodo, n) /\ NullStops(c, s)
    \/ d = From(IfTodo, 14) /\ c = Whole
AnyAwaits(d, c, j, s) ==
    \/ d = From(IfTodo, 4) /\ c = Nothing /\ j = Of("Expr", FALSE)
    \/ d = From(IfTodo, 14) /\ NullStops(c, s) /\ j = NoElse
AnyReady(d, c, s) ==
    \/ \E n \in {4, 5} : d = From(IfTodo, n) /\ c = Nothing /\ Returns("Expr", FALSE, s.made, s)
    \/ d = From(IfTodo, 6) /\ NullRefuses(c, FALSE, s)
    \/ d = From(IfTodo, 11) /\ NullStops(c, s) /\ s.made = Whole
    \/ d = From(IfTodo, 14) /\ NullStops(c, s) /\ s.made = Null

NoElseTodo == <<Give(Null)>>
MainTodo == <<Begin, Call("DefList"), Finish>>

(* A level of expressions.  Behind an operator what was collected is       *)
(* whole, or the parser is to stop.                                        *)
LevelTodo(f) == <<Call(Below[f]), Collect, Valid, Operator(f)>>
AgainTodo(f) == <<Prime(f)>>
PrimeTodo(f, t) == <<Take(t), Call(Operand[f]), Collect, Prime(f), Missed>>
EndTodo(f) == <<Expect(Delimiters[f]), Build>>

Operated(f, b, s) == (f = "NumExpr" => Added(s)) /\ (f = "RelExpr" /\ b => Compared(s))
Strict(f, b) == IF f = "NumExpr" THEN TRUE ELSE b
Operands(f, b, c, s) ==
    Operated(f, b, s) /\ c \in {Null, Whole} /\ Returns(Operand[f], Strict(f, b), c, s)

LevelSteady(d, c, f, b, s) ==
    \/ d = From(LevelTodo(f), 1) /\ c = Nothing
    \/ \E n \in {1, 2}, t \in Operators[f] :
          d = From(PrimeTodo(f, t), n) /\ NullStops(c, s) /\ Operated(f, b, s)
LevelAwaits(d, c, f, b, j, s) ==
    \/ d = From(LevelTodo(f), 2) /\ c = Nothing /\ j = Of(Below[f], b)
    \/ \E t \in Operators[f] :
          \/ /\ d = From(PrimeTodo(f, t), 3) /\ NullStops(c, s) /\ Operated(f, b, s)
             /\ j = Of(Operand[f], Strict(f, b))
          \/ d = From(PrimeTodo(f, t), 5) /\ c \in {Null, Whole} /\ j = Of(f, b)
LevelReady(d, c, f, b, s) ==
    \/ d = From(LevelTodo(f), 2) /\ c = Nothing /\ Returns(Below[f], b, s.made, s)
    \/ d = From(LevelTodo(f), 3) /\ c = s.made /\ Returns(Below[f], b, s.made, s)
    \/ d = From(LevelTodo(f), 4) /\ c = Whole /\ Returns(Below[f], b, Whole, s)
    \/ d = AgainTodo(f) /\ c = Whole /\ s.token \in Operators[f]
    \/ \E t \in Operators[f] :
          \/ /\ d = From(PrimeTodo(f, t), 3) /\ NullStops(c, s) /\ Operated(f, b, s)
             /\ Returns(Operand[f], Strict(f, b), s.made, s)
          \/ d = From(PrimeTodo(f, t), 4) /\ Operands(f, b, c, s)
          \/ d = From(PrimeTodo(f, t), 5) /\ c \in {Null, Whole} /\ Returns(f, b, s.made, s)
    \/ d = From(EndTodo(f), 1) /\ Operands(f, b, c, s) /\ s.token \notin Operators[f]
    \/ d = From(EndTodo(f), 2) /\ c \in {Null, Whole} /\ Returns(f, b, c, s)

(* Terms.                                                                  *)
PointerTodo(t) == <<Take(t), Call("FactorPrime")>>
ValueTodo(t) == <<Take(t), Give(Whole)>>
SkipTodo == <<Fail, Recover("Factor")>>
RetryTodo == <<Pass("Factor")>>
NameTodo == <<Take("name"), BuildVar, Call("Argm")>>
ParenTodo == <<Take("lpar"), Call("Expr"), Collect, Take("rpar"), Build>>
ArgsTodo(dotted) == <<Take("lpar"), Deferred(TRUE), Call("ArgList"), BuildCall(dotted), Collect,
                      Take("rpar"), Deferred(FALSE), Build>>
DotTodo == <<Take("dot"), Need("name"), Call("ArgmOfMember")>>
FailTodo == <<Fail, Give(Null)>>

TermSteady(d, c) ==
    \/ \E n \in {1, 2}, t \in {"astk", "amps"} : d = From(PointerTodo(t), n) /\ c = Nothing
    \/ \E n \in {1, 2}, t \in {"numr", "true", "false"} : d = From(ValueTodo(t), n) /\ c = Nothing
    \/ \E n \in {1, 2} : d = From(SkipTodo, n) /\ c = Nothing
    \/ d = RetryTodo /\ c = Nothing
    \/ \E n \in 1..3 : d = From(NameTodo, n) /\ c = Nothing
    \/ \E n \in {1, 2} : d = From(ParenTodo, n) /\ c = Nothing
    \/ \E n \in 1..4, q \in BOOLEAN : d = From(ArgsTodo(q), n) /\ c = Nothing
    \/ \E n \in 6..8, q \in BOOLEAN : d = From(ArgsTodo(q), n) /\ c = Whole
    \/ d = From(DotTodo, 3) /\ c = Nothing
TermAwaits(d, c, b, j) == d = From(ParenTodo, 3) /\ c = Nothing /\ j = Of("Expr", b)
TermReady(d, c, b, s) ==
    \/ d = From(ParenTodo, 3) /\ c = Nothing /\ Returns("Expr", b, s.made, s)
    \/ \E n \in {4, 5} : d = From(ParenTodo, n) /\ NullRefuses(c, b, s)
    \/ \E q \in BOOLEAN : d = From(ArgsTodo(q), 5) /\ c = Nothing /\ s.made = Whole
    \/ d = From(DotTodo, 1) /\ c = Nothing /\ s.token = "dot"
    \/ d = From(DotTodo, 2) /\ c = Nothing /\ (DotsHaveNames(s.text) => s.token \in {"name", "ntype"})
    \/ \E n \in {1, 2} : d = From(FailTodo, n) /\ c = Nothing /\ (Stopped(s) \/ Refused(b, s))

(* The frames of every kind.                                               *)
Steady(d, c, k, s) ==
    \/ k = AnyNode /\ AnySteady(d, c, s)
    \/ k = NoElse /\ d = NoElseTodo /\ c = Nothing
    \/ k = Main /\ c = Nothing /\ (d = <<Died>> \/ \E n \in 1..3 : d = From(MainTodo, n))
    \/ \E f \in DOMAIN Below, b \in BOOLEAN : k = Of(f, b) /\ (b => Added(s)) /\ LevelSteady(d, c, f, b, s)
    \/ \E b \in BOOLEAN : k = Of("Term", b) /\ (b => Added(s)) /\ TermSteady(d, c)
Awaits(d, c, k, j, s) ==
    \/ k = AnyNode /\ AnyAwaits(d, c, j, s)
    \/ \E f \in DOMAIN Below, b \in BOOLEAN : k = Of(f, b) /\ (b => Added(s)) /\ LevelAwaits(d, c, f, b, j, s)
    \/ \E b \in BOOLEAN : k = Of("Term", b) /\ (b => Added(s)) /\ TermAwaits(d, c, b, j)
Ready(d, c, k, s) ==
    \/ Steady(d, c, k, s)
    \/ k = AnyNode /\ AnyReady(d, c, s)
    \/ \E f \in DOMAIN Below, b \in BOOLEAN : k = Of(f, b) /\ (b => Added(s)) /\ LevelReady(d, c, f, b, s)
    \/ \E b \in BOOLEAN : k = Of("Term", b) /\ (b => Added(s)) /\ TermReady(d, c, b, s)
Waits(d, c, k, j, s) == Steady(d, c, k, s) \/ Awaits(d, c, k, j, s)

(* A stack of frames that wait, the first of them for a function of kind   *)
(* j, and a stack whose first frame runs.                                  *)
IsSeq(fs) == fs \in Seq(Elements(fs))
Pending(fs, ks, j, s) ==
    /\ IsSeq(fs) /\ Len(ks) = Len(fs)
    /\ \A i \in 1..Len(fs) : Waits(fs[i].todo, fs[i].collected, ks[i], IF i = 1 THEN j ELSE ks[i - 1], s)
    /\ \A i \in 1..Len(fs) : ks[i] = Main <=> i = Len(fs)
    /\ j = Main <=> fs = <<>>
Running(fs, s) ==
    \/ fs = <<>>
    \/ /\ IsSeq(fs)
       /\ \E k \in Kinds, ks \in Seq(Kinds) :
             /\ Ready(Head(fs).todo, Head(fs).collected, k, s)
             /\ Pending(Tail(fs), ks, k, s)

-----------------------------------------------------------------------------
(* The invariant.                                                          *)
Scanned_ ==
    /\ text \in Seq(STRING)
    /\ current_position_ \in 1..(Len(text) + 1)
    /\ continue_parsing_ \in BOOLEAN /\ num_fatal_errors_ \in {0, 1}
    /\ token_ = "plus" => current_position_ > 1 /\ text[current_position_ - 1] = "+"
    /\ token_ = "dot" => current_position_ > 1 /\ text[current_position_ - 1] = "."
    /\ token_ = "lessthan" => current_position_ > 1 /\ text[current_position_ - 1] = "<"
    /\ token_ = "equalto" => /\ current_position_ > 2 /\ IsEqualTo(text, current_position_ - 2)

(* Nothing is claimed of other errors than those of syntax.                *)
Claimed == blamed = "none" \/ (blamed = "syntax" /\ DotsHaveNames(text) /\ ~ComparesBetweenPluses(text))

Trees ==
    /\ made \in {Null, Whole}
    /\ func_defs \in {0, 1}
    /\ tree \in {Nothing, Holed, Whole}
    /\ tree = Holed => num_fatal_errors_ = 1
    /\ func_defs = 1 => tree # Nothing
    /\ ast \in {Null, Whole}
    /\ Done /\ blamed = "none" => ast = Whole /\ token_ = "eof"

Inv == Scanned_ /\ (Claimed => Trees /\ Running(frames, Now))

-----------------------------------------------------------------------------
(* Bodies.  What is left of one is an item and what is left after it.      *)
Begins(d, x, r) ==
    /\ d # <<>> /\ IsSeq(d) /\ IsSeq(r)
    /\ Head(d) = x /\ Tail(d) = r /\ <<>> \o r = r

LEMMA SeqIsSeq ==
    ASSUME NEW S, NEW s \in Seq(S)
    PROVE  IsSeq(s)
<1>1. DOMAIN s = 1..Len(s) /\ Len(s) \in Nat /\ s \in [1..Len(s) -> S]
  BY LenProperties
<1>2. s \in [1..Len(s) -> Elements(s)]
  BY <1>1 DEF Elements
<1>3. s \in UNION {[1..n -> Elements(s)] : n \in Nat}
  BY <1>1, <1>2
<1> QED
  BY <1>3, SeqDef DEF IsSeq

AtItem(body, n, m) == n \in 1..Len(body) /\ m = n + 1
AtEnd(body, n) == n = Len(body) + 1

LEMMA BodyBegins ==
    ASSUME NEW body, IsSeq(body), NEW n, NEW m, AtItem(body, n, m)
    PROVE  Begins(From(body, n), body[n], From(body, m))
<1> DEFINE S == Elements(body)
<1>1. body \in Seq(S) /\ Len(body) \in Nat /\ n \in 1..Len(body) /\ m = n + 1
  BY LenProperties DEF AtItem, IsSeq
<1>2. /\ \A i \in n..Len(body) : body[i] \in S
      /\ \A i \in m..Len(body) : body[i] \in S
  BY <1>1, ElementOfSeq
<1> HIDE DEF S
<1>3. /\ From(body, n) \in Seq(S) /\ Len(From(body, n)) = Len(body) - n + 1
      /\ From(body, m) \in Seq(S)
  BY <1>1, <1>2, SubSeqProperties DEF From
<1>4. IsSeq(From(body, n)) /\ IsSeq(From(body, m))
  BY <1>3, SeqIsSeq
<1>5. From(body, n) # <<>>
  BY <1>1, <1>3, EmptySeq
<1>6. Head(From(body, n)) = body[n] /\ Tail(From(body, n)) = From(body, m)
  BY <1>1, HeadTailOfSubSeq DEF From
<1>7. <<>> \o From(body, m) = From(body, m)
  BY <1>3, ConcatEmptySeq
<1> QED
  BY <1>4, <1>5, <1>6, <1>7 DEF Begins

LEMMA BodyEnds ==
    ASSUME NEW body, IsSeq(body), NEW n, AtEnd(body, n)
    PROVE  From(body, n) = <<>>
BY LenProperties, SubSeqEmpty DEF From, AtEnd, IsSeq

LEMMA WholeBody ==
    ASSUME NEW body, IsSeq(body)
    PROVE  From(body, 1) = body
BY SubSeqFull DEF From, IsSeq

LEMMA EightItems ==
    ASSUME NEW a, NEW b, NEW c, NEW d, NEW e, NEW f, NEW g, NEW h
    PROVE  /\ <<a, b, c, d, e, f, g, h>> \in Seq(Elements(<<a, b, c, d, e, f, g, h>>))
           /\ Len(<<a, b, c, d, e, f, g, h>>) = 8
           /\ <<a, b, c, d, e, f, g, h>>[1] = a /\ <<a, b, c, d, e, f, g, h>>[2] = b
           /\ <<a, b, c, d, e, f, g, h>>[3] = c /\ <<a, b, c, d, e, f, g, h>>[4] = d
           /\ <<a, b, c, d, e, f, g, h>>[5] = e /\ <<a, b, c, d, e, f, g, h>>[6] = f
           /\ <<a, b, c, d, e, f, g, h>>[7] = g /\ <<a, b, c, d, e, f, g, h>>[8] = h
BY DEF Elements

LEMMA IfItems ==
    /\ From(IfTodo, 1) = IfTodo
    /\ Begins(From(IfTodo, 1), Take("if"), From(IfTodo, 2))
    /\ Begins(From(IfTodo, 2), Need("lpar"), From(IfTodo, 3))
    /\ Begins(From(IfTodo, 3), Call("Expr"), From(IfTodo, 4))
    /\ Begins(From(IfTodo, 4), Missed, From(IfTodo, 5))
    /\ Begins(From(IfTodo, 5), Collect, From(IfTodo, 6))
    /\ Begins(From(IfTodo, 6), Need("rpar"), From(IfTodo, 7))
    /\ Begins(From(IfTodo, 7), Need("lcbr"), From(IfTodo, 8))
    /\ Begins(From(IfTodo, 8), Call("Stmts"), From(IfTodo, 9))
    /\ Begins(From(IfTodo, 9), Missed, From(IfTodo, 10))
    /\ Begins(From(IfTodo, 10), Valid, From(IfTodo, 11))
    /\ Begins(From(IfTodo, 11), Collect, From(IfTodo, 12))
    /\ Begins(From(IfTodo, 12), Need("rcbr"), From(IfTodo, 13))
    /\ Begins(From(IfTodo, 13), Call("IfElse"), From(IfTodo, 14))
    /\ Begins(From(IfTodo, 14), BuildIf, <<>>)
<1>1. IfTodo \in Seq(Elements(IfTodo)) /\ Len(IfTodo) = 14
  BY DEF IfTodo, Elements
<1>2. IsSeq(IfTodo) /\ AtEnd(IfTodo, 15)
  BY <1>1 DEF IsSeq, AtEnd
<1>3. /\ AtItem(IfTodo, 1, 2) /\ AtItem(IfTodo, 2, 3) /\ AtItem(IfTodo, 3, 4) /\ AtItem(IfTodo, 4, 5)
      /\ AtItem(IfTodo, 5, 6) /\ AtItem(IfTodo, 6, 7) /\ AtItem(IfTodo, 7, 8) /\ AtItem(IfTodo, 8, 9)
      /\ AtItem(IfTodo, 9, 10) /\ AtItem(IfTodo, 10, 11) /\ AtItem(IfTodo, 11, 12) /\ AtItem(IfTodo, 12, 13)
      /\ AtItem(IfTodo, 13, 14) /\ AtItem(IfTodo, 14, 15)
  BY <1>1 DEF AtItem
<1>4. IfTodo[1] = Take("if") /\ IfTodo[2] = Need("lpar") /\ IfTodo[3] = Call("Expr") /\ IfTodo[4] = Missed /\ IfTodo[5] = Collect /\ IfTodo[6] = Need("rpar") /\ IfTodo[7] = Need("lcbr") /\ IfTodo[8] = Call("Stmts") /\ IfTodo[9] = Missed /\ IfTodo[10] = Valid /\ IfTodo[11] = Collect /\ IfTodo[12] = Need("rcbr") /\ IfTodo[13] = Call("IfElse") /\ IfTodo[14] = BuildIf
  BY DEF IfTodo
<1>5. /\ Begins(From(IfTodo, 1), IfTodo[1], From(IfTodo, 2))
      /\ Begins(From(IfTodo, 2), IfTodo[2], From(IfTodo, 3))
      /\ Begins(From(IfTodo, 3), IfTodo[3], From(IfTodo, 4))
      /\ Begins(From(IfTodo, 4), IfTodo[4], From(IfTodo, 5))
      /\ Begins(From(IfTodo, 5), IfTodo[5], From(IfTodo, 6))
      /\ Begins(From(IfTodo, 6), IfTodo[6], From(IfTodo, 7))
      /\ Begins(From(IfTodo, 7), IfTodo[7], From(IfTodo, 8))
      /\ Begins(From(IfTodo, 8), IfTodo[8], From(IfTodo, 9))
      /\ Begins(From(IfTodo, 9), IfTodo[9], From(IfTodo, 10))
      /\ Begins(From(IfTodo, 10), IfTodo[10], From(IfTodo, 11))
      /\ Begins(From(IfTodo, 11), IfTodo[11], From(IfTodo, 12))
      /\ Begins(From(IfTodo, 12), IfTodo[12], From(IfTodo, 13))
      /\ Begins(From(IfTodo, 13), IfTodo[13], From(IfTodo, 14))
      /\ Begins(From(IfTodo, 14), IfTodo[14], From(IfTodo, 15))
  BY <1>2, <1>3, BodyBegins
<1>6. From(IfTodo, 15) = <<>>
  BY <1>2, BodyEnds
<1>7. From(IfTodo, 1) = IfTodo
  BY <1>2, WholeBody
<1> QED
  BY <1>4, <1>5, <1>6, <1>7

LEMMA NoElseItems ==
    /\ From(NoElseTodo, 1) = NoElseTodo
    /\ Begins(From(NoElseTodo, 1), Give(Null), <<>>)
<1>1. NoElseTodo \in Seq(Elements(NoElseTodo)) /\ Len(NoElseTodo) = 1
  BY DEF NoElseTodo, Elements
<1>2. IsSeq(NoElseTodo) /\ AtEnd(NoElseTodo, 2)
  BY <1>1 DEF IsSeq, AtEnd
<1>3. /\ AtItem(NoElseTodo, 1, 2)
  BY <1>1 DEF AtItem
<1>4. NoElseTodo[1] = Give(Null)
  BY DEF NoElseTodo
<1>5. /\ Begins(From(NoElseTodo, 1), NoElseTodo[1], From(NoElseTodo, 2))
  BY <1>2, <1>3, BodyBegins
<1>6. From(NoElseTodo, 2) = <<>>
  BY <1>2, BodyEnds
<1>7. From(NoElseTodo, 1) = NoElseTodo
  BY <1>2, WholeBody
<1> QED
  BY <1>4, <1>5, <1>6, <1>7

LEMMA MainItems ==
    /\ From(MainTodo, 1) = MainTodo
    /\ Begins(From(MainTodo, 1), Begin, From(MainTodo, 2))
    /\ Begins(From(MainTodo, 2), Call("DefList"), From(MainTodo, 3))
    /\ Begins(From(MainTodo, 3), Finish, <<>>)
<1>1. MainTodo \in Seq(Elements(MainTodo)) /\ Len(MainTodo) = 3
  BY DEF MainTodo, Elements
<1>2. IsSeq(MainTodo) /\ AtEnd(MainTodo, 4)
  BY <1>1 DEF IsSeq, AtEnd
<1>3. /\ AtItem(MainTodo, 1, 2) /\ AtItem(MainTodo, 2, 3) /\ AtItem(MainTodo, 3, 4)
  BY <1>1 DEF AtItem
<1>4. MainTodo[1] = Begin /\ MainTodo[2] = Call("DefList") /\ MainTodo[3] = Finish
  BY DEF MainTodo
<1>5. /\ Begins(From(MainTodo, 1), MainTodo[1], From(MainTodo, 2))
      /\ Begins(From(MainTodo, 2), MainTodo[2], From(MainTodo, 3))
      /\ Begins(From(MainTodo, 3), MainTodo[3], From(MainTodo, 4))
  BY <1>2, <1>3, BodyBegins
<1>6. From(MainTodo, 4) = <<>>
  BY <1>2, BodyEnds
<1>7. From(MainTodo, 1) = MainTodo
  BY <1>2, WholeBody
<1> QED
  BY <1>4, <1>5, <1>6, <1>7

LEMMA LevelItems ==
    ASSUME NEW f
    PROVE  /\ From(LevelTodo(f), 1) = LevelTodo(f)
           /\ Begins(From(LevelTodo(f), 1), Call(Below[f]), From(LevelTodo(f), 2))
           /\ Begins(From(LevelTodo(f), 2), Collect, From(LevelTodo(f), 3))
           /\ Begins(From(LevelTodo(f), 3), Valid, From(LevelTodo(f), 4))
           /\ Begins(From(LevelTodo(f), 4), Operator(f), <<>>)
<1>1. LevelTodo(f) \in Seq(Elements(LevelTodo(f))) /\ Len(LevelTodo(f)) = 4
  BY DEF LevelTodo, Elements
<1>2. IsSeq(LevelTodo(f)) /\ AtEnd(LevelTodo(f), 5)
  BY <1>1 DEF IsSeq, AtEnd
<1>3. /\ AtItem(LevelTodo(f), 1, 2) /\ AtItem(LevelTodo(f), 2, 3) /\ AtItem(LevelTodo(f), 3, 4) /\ AtItem(LevelTodo(f), 4, 5)
  BY <1>1 DEF AtItem
<1>4. LevelTodo(f)[1] = Call(Below[f]) /\ LevelTodo(f)[2] = Collect /\ LevelTodo(f)[3] = Valid /\ LevelTodo(f)[4] = Operator(f)
  BY DEF LevelTodo
<1>5. /\ Begins(From(LevelTodo(f), 1), LevelTodo(f)[1], From(LevelTodo(f), 2))
      /\ Begins(From(LevelTodo(f), 2), LevelTodo(f)[2], From(LevelTodo(f), 3))
      /\ Begins(From(LevelTodo(f), 3), LevelTodo(f)[3], From(LevelTodo(f), 4))
      /\ Begins(From(LevelTodo(f), 4), LevelTodo(f)[4], From(LevelTodo(f), 5))
  BY <1>2, <1>3, BodyBegins
<1>6. From(LevelTodo(f), 5) = <<>>
  BY <1>2, BodyEnds
<1>7. From(LevelTodo(f), 1) = LevelTodo(f)
  BY <1>2, WholeBody
<1> QED
  BY <1>4, <1>5, <1>6, <1>7

LEMMA AgainItems ==
    ASSUME NEW f
    PROVE  /\ From(AgainTodo(f), 1) = AgainTodo(f)
           /\ Begins(From(AgainTodo(f), 1), Prime(f), <<>>)
<1>1. AgainTodo(f) \in Seq(Elements(AgainTodo(f))) /\ Len(AgainTodo(f)) = 1
  BY DEF AgainTodo, Elements
<1>2. IsSeq(AgainTodo(f)) /\ AtEnd(AgainTodo(f), 2)
  BY <1>1 DEF IsSeq, AtEnd
<1>3. /\ AtItem(AgainTodo(f), 1, 2)
  BY <1>1 DEF AtItem
<1>4. AgainTodo(f)[1] = Prime(f)
  BY DEF AgainTodo
<1>5. /\ Begins(From(AgainTodo(f), 1), AgainTodo(f)[1], From(AgainTodo(f), 2))
  BY <1>2, <1>3, BodyBegins
<1>6. From(AgainTodo(f), 2) = <<>>
  BY <1>2, BodyEnds
<1>7. From(AgainTodo(f), 1) = AgainTodo(f)
  BY <1>2, WholeBody
<1> QED
  BY <1>4, <1>5, <1>6, <1>7

LEMMA PrimeItems ==
    ASSUME NEW f, NEW t
    PROVE  /\ From(PrimeTodo(f, t), 1) = PrimeTodo(f, t)
           /\ Begins(From(PrimeTodo(f, t), 1), Take(t), From(PrimeTodo(f, t), 2))
           /\ Begins(From(PrimeTodo(f, t), 2), Call(Operand[f]), From(PrimeTodo(f, t), 3))
           /\ Begins(From(PrimeTodo(f, t), 3), Collect, From(PrimeTodo(f, t), 4))
           /\ Begins(From(PrimeTodo(f, t), 4), Prime(f), From(PrimeTodo(f, t), 5))
           /\ Begins(From(PrimeTodo(f, t), 5), Missed, <<>>)
<1>1. PrimeTodo(f, t) \in Seq(Elements(PrimeTodo(f, t))) /\ Len(PrimeTodo(f, t)) = 5
  BY DEF PrimeTodo, Elements
<1>2. IsSeq(PrimeTodo(f, t)) /\ AtEnd(PrimeTodo(f, t), 6)
  BY <1>1 DEF IsSeq, AtEnd
<1>3. /\ AtItem(PrimeTodo(f, t), 1, 2) /\ AtItem(PrimeTodo(f, t), 2, 3) /\ AtItem(PrimeTodo(f, t), 3, 4) /\ AtItem(PrimeTodo(f, t), 4, 5)
      /\ AtItem(PrimeTodo(f, t), 5, 6)
  BY <1>1 DEF AtItem
<1>4. PrimeTodo(f, t)[1] = Take(t) /\ PrimeTodo(f, t)[2] = Call(Operand[f]) /\ PrimeTodo(f, t)[3] = Collect /\ PrimeTodo(f, t)[4] = Prime(f) /\ PrimeTodo(f, t)[5] = Missed
  BY DEF PrimeTodo
<1>5. /\ Begins(From(PrimeTodo(f, t), 1), PrimeTodo(f, t)[1], From(PrimeTodo(f, t), 2))
      /\ Begins(From(PrimeTodo(f, t), 2), PrimeTodo(f, t)[2], From(PrimeTodo(f, t), 3))
      /\ Begins(From(PrimeTodo(f, t), 3), PrimeTodo(f, t)[3], From(PrimeTodo(f, t), 4))
      /\ Begins(From(PrimeTodo(f, t), 4), PrimeTodo(f, t)[4], From(PrimeTodo(f, t), 5))
      /\ Begins(From(PrimeTodo(f, t), 5), PrimeTodo(f, t)[5], From(PrimeTodo(f, t), 6))
  BY <1>2, <1>3, BodyBegins
<1>6. From(PrimeTodo(f, t), 6) = <<>>
  BY <1>2, BodyEnds
<1>7. From(PrimeTodo(f, t), 1) = PrimeTodo(f, t)
  BY <1>2, WholeBody
<1> QED
  BY <1>4, <1>5, <1>6, <1>7

LEMMA EndItems ==
    ASSUME NEW f
    PROVE  /\ From(EndTodo(f), 1) = EndTodo(f)
           /\ Begins(From(EndTodo(f), 1), Expect(Delimiters[f]), From(EndTodo(f), 2))
           /\ Begins(From(EndTodo(f), 2), Build, <<>>)
<1>1. EndTodo(f) \in Seq(Elements(EndTodo(f))) /\ Len(EndTodo(f)) = 2
  BY DEF EndTodo, Elements
<1>2. IsSeq(EndTodo(f)) /\ AtEnd(EndTodo(f), 3)
  BY <1>1 DEF IsSeq, AtEnd
<1>3. /\ AtItem(EndTodo(f), 1, 2) /\ AtItem(EndTodo(f), 2, 3)
  BY <1>1 DEF AtItem
<1>4. EndTodo(f)[1] = Expect(Delimiters[f]) /\ EndTodo(f)[2] = Build
  BY DEF EndTodo
<1>5. /\ Begins(From(EndTodo(f), 1), EndTodo(f)[1], From(EndTodo(f), 2))
      /\ Begins(From(EndTodo(f), 2), EndTodo(f)[2], From(EndTodo(f), 3))
  BY <1>2, <1>3, BodyBegins
<1>6. From(EndTodo(f), 3) = <<>>
  BY <1>2, BodyEnds
<1>7. From(EndTodo(f), 1) = EndTodo(f)
  BY <1>2, WholeBody
<1> QED
  BY <1>4, <1>5, <1>6, <1>7

LEMMA PointerItems ==
    ASSUME NEW t
    PROVE  /\ From(PointerTodo(t), 1) = PointerTodo(t)
           /\ Begins(From(PointerTodo(t), 1), Take(t), From(PointerTodo(t), 2))
           /\ Begins(From(PointerTodo(t), 2), Call("FactorPrime"), <<>>)
<1>1. PointerTodo(t) \in Seq(Elements(PointerTodo(t))) /\ Len(PointerTodo(t)) = 2
  BY DEF PointerTodo, Elements
<1>2. IsSeq(PointerTodo(t)) /\ AtEnd(PointerTodo(t), 3)
  BY <1>1 DEF IsSeq, AtEnd
<1>3. /\ AtItem(PointerTodo(t), 1, 2) /\ AtItem(PointerTodo(t), 2, 3)
  BY <1>1 DEF AtItem
<1>4. PointerTodo(t)[1] = Take(t) /\ PointerTodo(t)[2] = Call("FactorPrime")
  BY DEF PointerTodo
<1>5. /\ Begins(From(PointerTodo(t), 1), PointerTodo(t)[1], From(PointerTodo(t), 2))
      /\ Begins(From(PointerTodo(t), 2), PointerTodo(t)[2], From(PointerTodo(t), 3))
  BY <1>2, <1>3, BodyBegins
<1>6. From(PointerTodo(t), 3) = <<>>
  BY <1>2, BodyEnds
<1>7. From(PointerTodo(t), 1) = PointerTodo(t)
  BY <1>2, WholeBody
<1> QED
  BY <1>4, <1>5, <1>6, <1>7

LEMMA ValueItems ==
    ASSUME NEW t
    PROVE  /\ From(ValueTodo(t), 1) = ValueTodo(t)
           /\ Begins(From(ValueTodo(t), 1), Take(t), From(ValueTodo(t), 2))
           /\ Begins(From(ValueTodo(t), 2), Give(Whole), <<>>)
<1>1. ValueTodo(t) \in Seq(Elements(ValueTodo(t))) /\ Len(ValueTodo(t)) = 2
  BY DEF ValueTodo, Elements
<1>2. IsSeq(ValueTodo(t)) /\ AtEnd(ValueTodo(t), 3)
  BY <1>1 DEF IsSeq, AtEnd
<1>3. /\ AtItem(ValueTodo(t), 1, 2) /\ AtItem(ValueTodo(t), 2, 3)
  BY <1>1 DEF AtItem
<1>4. ValueTodo(t)[1] = Take(t) /\ ValueTodo(t)[2] = Give(Whole)
  BY DEF ValueTodo
<1>5. /\ Begins(From(ValueTodo(t), 1), ValueTodo(t)[1], From(ValueTodo(t), 2))
      /\ Begins(From(ValueTodo(t), 2), ValueTodo(t)[2], From(ValueTodo(t), 3))
  BY <1>2, <1>3, BodyBegins
<1>6. From(ValueTodo(t), 3) = <<>>
  BY <1>2, BodyEnds
<1>7. From(ValueTodo(t), 1) = ValueTodo(t)
  BY <1>2, WholeBody
<1> QED
  BY <1>4, <1>5, <1>6, <1>7

LEMMA SkipItems ==
    /\ From(SkipTodo, 1) = SkipTodo
    /\ Begins(From(SkipTodo, 1), Fail, From(SkipTodo, 2))
    /\ Begins(From(SkipTodo, 2), Recover("Factor"), <<>>)
<1>1. SkipTodo \in Seq(Elements(SkipTodo)) /\ Len(SkipTodo) = 2
  BY DEF SkipTodo, Elements
<1>2. IsSeq(SkipTodo) /\ AtEnd(SkipTodo, 3)
  BY <1>1 DEF IsSeq, AtEnd
<1>3. /\ AtItem(SkipTodo, 1, 2) /\ AtItem(SkipTodo, 2, 3)
  BY <1>1 DEF AtItem
<1>4. SkipTodo[1] = Fail /\ SkipTodo[2] = Recover("Factor")
  BY DEF SkipTodo
<1>5. /\ Begins(From(SkipTodo, 1), SkipTodo[1], From(SkipTodo, 2))
      /\ Begins(From(SkipTodo, 2), SkipTodo[2], From(SkipTodo, 3))
  BY <1>2, <1>3, BodyBegins
<1>6. From(SkipTodo, 3) = <<>>
  BY <1>2, BodyEnds
<1>7. From(SkipTodo, 1) = SkipTodo
  BY <1>2, WholeBody
<1> QED
  BY <1>4, <1>5, <1>6, <1>7

LEMMA RetryItems ==
    /\ From(RetryTodo, 1) = RetryTodo
    /\ Begins(From(RetryTodo, 1), Pass("Factor"), <<>>)
<1>1. RetryTodo \in Seq(Elements(RetryTodo)) /\ Len(RetryTodo) = 1
  BY DEF RetryTodo, Elements
<1>2. IsSeq(RetryTodo) /\ AtEnd(RetryTodo, 2)
  BY <1>1 DEF IsSeq, AtEnd
<1>3. /\ AtItem(RetryTodo, 1, 2)
  BY <1>1 DEF AtItem
<1>4. RetryTodo[1] = Pass("Factor")
  BY DEF RetryTodo
<1>5. /\ Begins(From(RetryTodo, 1), RetryTodo[1], From(RetryTodo, 2))
  BY <1>2, <1>3, BodyBegins
<1>6. From(RetryTodo, 2) = <<>>
  BY <1>2, BodyEnds
<1>7. From(RetryTodo, 1) = RetryTodo
  BY <1>2, WholeBody
<1> QED
  BY <1>4, <1>5, <1>6, <1>7

LEMMA NameItems ==
    /\ From(NameTodo, 1) = NameTodo
    /\ Begins(From(NameTodo, 1), Take("name"), From(NameTodo, 2))
    /\ Begins(From(NameTodo, 2), BuildVar, From(NameTodo, 3))
    /\ Begins(From(NameTodo, 3), Call("Argm"), <<>>)
<1>1. NameTodo \in Seq(Elements(NameTodo)) /\ Len(NameTodo) = 3
  BY DEF NameTodo, Elements
<1>2. IsSeq(NameTodo) /\ AtEnd(NameTodo, 4)
  BY <1>1 DEF IsSeq, AtEnd
<1>3. /\ AtItem(NameTodo, 1, 2) /\ AtItem(NameTodo, 2, 3) /\ AtItem(NameTodo, 3, 4)
  BY <1>1 DEF AtItem
<1>4. NameTodo[1] = Take("name") /\ NameTodo[2] = BuildVar /\ NameTodo[3] = Call("Argm")
  BY DEF NameTodo
<1>5. /\ Begins(From(NameTodo, 1), NameTodo[1], From(NameTodo, 2))
      /\ Begins(From(NameTodo, 2), NameTodo[2], From(NameTodo, 3))
      /\ Begins(From(NameTodo, 3), NameTodo[3], From(NameTodo, 4))
  BY <1>2, <1>3, BodyBegins
<1>6. From(NameTodo, 4) = <<>>
  BY <1>2, BodyEnds
<1>7. From(NameTodo, 1) = NameTodo
  BY <1>2, WholeBody
<1> QED
  BY <1>4, <1>5, <1>6, <1>7

LEMMA ParenItems ==
    /\ From(ParenTodo, 1) = ParenTodo
    /\ Begins(From(ParenTodo, 1), Take("lpar"), From(ParenTodo, 2))
    /\ Begins(From(ParenTodo, 2), Call("Expr"), From(ParenTodo, 3))
    /\ Begins(From(ParenTodo, 3), Collect, From(ParenTodo, 4))
    /\ Begins(From(ParenTodo, 4), Take("rpar"), From(ParenTodo, 5))
    /\ Begins(From(ParenTodo, 5), Build, <<>>)
<1>1. ParenTodo \in Seq(Elements(ParenTodo)) /\ Len(ParenTodo) = 5
  BY DEF ParenTodo, Elements
<1>2. IsSeq(ParenTodo) /\ AtEnd(ParenTodo, 6)
  BY <1>1 DEF IsSeq, AtEnd
<1>3. /\ AtItem(ParenTodo, 1, 2) /\ AtItem(ParenTodo, 2, 3) /\ AtItem(ParenTodo, 3, 4) /\ AtItem(ParenTodo, 4, 5)
      /\ AtItem(ParenTodo, 5, 6)
  BY <1>1 DEF AtItem
<1>4. ParenTodo[1] = Take("lpar") /\ ParenTodo[2] = Call("Expr") /\ ParenTodo[3] = Collect /\ ParenTodo[4] = Take("rpar") /\ ParenTodo[5] = Build
  BY DEF ParenTodo
<1>5. /\ Begins(From(ParenTodo, 1), ParenTodo[1], From(ParenTodo, 2))
      /\ Begins(From(ParenTodo, 2), ParenTodo[2], From(ParenTodo, 3))
      /\ Begins(From(ParenTodo, 3), ParenTodo[3], From(ParenTodo, 4))
      /\ Begins(From(ParenTodo, 4), ParenTodo[4], From(ParenTodo, 5))
      /\ Begins(From(ParenTodo, 5), ParenTodo[5], From(ParenTodo, 6))
  BY <1>2, <1>3, BodyBegins
<1>6. From(ParenTodo, 6) = <<>>
  BY <1>2, BodyEnds
<1>7. From(ParenTodo, 1) = ParenTodo
  BY <1>2, WholeBody
<1> QED
  BY <1>4, <1>5, <1>6, <1>7

LEMMA ArgsItems ==
    ASSUME NEW q
    PROVE  /\ From(ArgsTodo(q), 1) = ArgsTodo(q)
           /\ Begins(From(ArgsTodo(q), 1), Take("lpar"), From(ArgsTodo(q), 2))
           /\ Begins(From(ArgsTodo(q), 2), Deferred(TRUE), From(ArgsTodo(q), 3))
           /\ Begins(From(ArgsTodo(q), 3), Call("ArgList"), From(ArgsTodo(q), 4))
           /\ Begins(From(ArgsTodo(q), 4), BuildCall(q), From(ArgsTodo(q), 5))
           /\ Begins(From(ArgsTodo(q), 5), Collect, From(ArgsTodo(q), 6))
           /\ Begins(From(ArgsTodo(q), 6), Take("rpar"), From(ArgsTodo(q), 7))
           /\ Begins(From(ArgsTodo(q), 7), Deferred(FALSE), From(ArgsTodo(q), 8))
           /\ Begins(From(ArgsTodo(q), 8), Build, <<>>)
<1>1. ArgsTodo(q) \in Seq(Elements(ArgsTodo(q))) /\ Len(ArgsTodo(q)) = 8
  BY EightItems, Zenon DEF ArgsTodo
<1>2. IsSeq(ArgsTodo(q)) /\ AtEnd(ArgsTodo(q), 9)
  BY <1>1 DEF IsSeq, AtEnd
<1>3. /\ AtItem(ArgsTodo(q), 1, 2) /\ AtItem(ArgsTodo(q), 2, 3) /\ AtItem(ArgsTodo(q), 3, 4) /\ AtItem(ArgsTodo(q), 4, 5)
      /\ AtItem(ArgsTodo(q), 5, 6) /\ AtItem(ArgsTodo(q), 6, 7) /\ AtItem(ArgsTodo(q), 7, 8) /\ AtItem(ArgsTodo(q), 8, 9)
  BY <1>1 DEF AtItem
<1>4. ArgsTodo(q)[1] = Take("lpar") /\ ArgsTodo(q)[2] = Deferred(TRUE) /\ ArgsTodo(q)[3] = Call("ArgList") /\ ArgsTodo(q)[4] = BuildCall(q) /\ ArgsTodo(q)[5] = Collect /\ ArgsTodo(q)[6] = Take("rpar") /\ ArgsTodo(q)[7] = Deferred(FALSE) /\ ArgsTodo(q)[8] = Build
  BY EightItems, Zenon DEF ArgsTodo
<1>5. /\ Begins(From(ArgsTodo(q), 1), ArgsTodo(q)[1], From(ArgsTodo(q), 2))
      /\ Begins(From(ArgsTodo(q), 2), ArgsTodo(q)[2], From(ArgsTodo(q), 3))
      /\ Begins(From(ArgsTodo(q), 3), ArgsTodo(q)[3], From(ArgsTodo(q), 4))
      /\ Begins(From(ArgsTodo(q), 4), ArgsTodo(q)[4], From(ArgsTodo(q), 5))
      /\ Begins(From(ArgsTodo(q), 5), ArgsTodo(q)[5], From(ArgsTodo(q), 6))
      /\ Begins(From(ArgsTodo(q), 6), ArgsTodo(q)[6], From(ArgsTodo(q), 7))
      /\ Begins(From(ArgsTodo(q), 7), ArgsTodo(q)[7], From(ArgsTodo(q), 8))
      /\ Begins(From(ArgsTodo(q), 8), ArgsTodo(q)[8], From(ArgsTodo(q), 9))
  BY <1>2, <1>3, BodyBegins
<1>6. From(ArgsTodo(q), 9) = <<>>
  BY <1>2, BodyEnds
<1>7. From(ArgsTodo(q), 1) = ArgsTodo(q)
  BY <1>2, WholeBody
<1> QED
  BY <1>4, <1>5, <1>6, <1>7

LEMMA DotItems ==
    /\ From(DotTodo, 1) = DotTodo
    /\ Begins(From(DotTodo, 1), Take("dot"), From(DotTodo, 2))
    /\ Begins(From(DotTodo, 2), Need("name"), From(DotTodo, 3))
    /\ Begins(From(DotTodo, 3), Call("ArgmOfMember"), <<>>)
<1>1. DotTodo \in Seq(Elements(DotTodo)) /\ Len(DotTodo) = 3
  BY DEF DotTodo, Elements
<1>2. IsSeq(DotTodo) /\ AtEnd(DotTodo, 4)
  BY <1>1 DEF IsSeq, AtEnd
<1>3. /\ AtItem(DotTodo, 1, 2) /\ AtItem(DotTodo, 2, 3) /\ AtItem(DotTodo, 3, 4)
  BY <1>1 DEF AtItem
<1>4. DotTodo[1] = Take("dot") /\ DotTodo[2] = Need("name") /\ DotTodo[3] = Call("ArgmOfMember")
  BY DEF DotTodo
<1>5. /\ Begins(From(DotTodo, 1), DotTodo[1], From(DotTodo, 2))
      /\ Begins(From(DotTodo, 2), DotTodo[2], From(DotTodo, 3))
      /\ Begins(From(DotTodo, 3), DotTodo[3], From(DotTodo, 4))
  BY <1>2, <1>3, BodyBegins
<1>6. From(DotTodo, 4) = <<>>
  BY <1>2, BodyEnds
<1>7. From(DotTodo, 1) = DotTodo
  BY <1>2, WholeBody
<1> QED
  BY <1>4, <1>5, <1>6, <1>7

LEMMA FailItems ==
    /\ From(FailTodo, 1) = FailTodo
    /\ Begins(From(FailTodo, 1), Fail, From(FailTodo, 2))
    /\ Begins(From(FailTodo, 2), Give(Null), <<>>)
<1>1. FailTodo \in Seq(Elements(FailTodo)) /\ Len(FailTodo) = 2
  BY DEF FailTodo, Elements
<1>2. IsSeq(FailTodo) /\ AtEnd(FailTodo, 3)
  BY <1>1 DEF IsSeq, AtEnd
<1>3. /\ AtItem(FailTodo, 1, 2) /\ AtItem(FailTodo, 2, 3)
  BY <1>1 DEF AtItem
<1>4. FailTodo[1] = Fail /\ FailTodo[2] = Give(Null)
  BY DEF FailTodo
<1>5. /\ Begins(From(FailTodo, 1), FailTodo[1], From(FailTodo, 2))
      /\ Begins(From(FailTodo, 2), FailTodo[2], From(FailTodo, 3))
  BY <1>2, <1>3, BodyBegins
<1>6. From(FailTodo, 3) = <<>>
  BY <1>2, BodyEnds
<1>7. From(FailTodo, 1) = FailTodo
  BY <1>2, WholeBody
<1> QED
  BY <1>4, <1>5, <1>6, <1>7

-----------------------------------------------------------------------------
(* What goes on being true as the parser reads on.                         *)
Onward(s, t) ==
    /\ s.at \in Nat /\ t.at \in Nat /\ s.at <= t.at
    /\ t.text = s.text
    /\ s.go = FALSE => t.go = FALSE
    /\ s.fatal = 1 => t.fatal = 1

LEMMA SeenStays ==
    ASSUME NEW s, NEW t, Onward(s, t)
    PROVE  /\ Added(s) => Added(t)
           /\ Compared(s) => Compared(t)
           /\ Stopped(s) => Stopped(t)
<1>1. \A i : i \in 1..(s.at - 1) => i \in 1..(t.at - 1)
  BY DEF Onward
<1>2. t.text = s.text
  BY DEF Onward
<1>3. Added(s) => Added(t)
  BY <1>1, <1>2 DEF Added
<1>4. Compared(s) => Compared(t)
  BY <1>1, <1>2 DEF Compared
<1> QED
  BY <1>3, <1>4 DEF Onward, Stopped

LEMMA NullStays ==
    ASSUME NEW s, NEW t, Onward(s, t), NEW c, NEW f, NEW b
    PROVE  /\ NullStops(c, s) => NullStops(c, t)
           /\ Operated(f, b, s) => Operated(f, b, t)
<1>1. /\ Added(s) => Added(t)
      /\ Compared(s) => Compared(t)
      /\ Stopped(s) => Stopped(t)
  BY SeenStays
<1> QED
  BY <1>1 DEF NullStops, Operated

LEMMA SteadyStays ==
    ASSUME NEW s, NEW t, Onward(s, t), NEW d, NEW c, NEW k, Steady(d, c, k, s)
    PROVE  Steady(d, c, k, t)
<1>1. /\ Added(s) => Added(t)
      /\ NullStops(c, s) => NullStops(c, t)
      /\ \A f, b : Operated(f, b, s) => Operated(f, b, t)
  BY SeenStays, NullStays
<1>2. AnySteady(d, c, s) => AnySteady(d, c, t)
  BY <1>1 DEF AnySteady
<1>3. \A f, b : LevelSteady(d, c, f, b, s) => LevelSteady(d, c, f, b, t)
  BY <1>1 DEF LevelSteady
<1> QED
  BY <1>1, <1>2, <1>3 DEF Steady

LEMMA AwaitsStays ==
    ASSUME NEW s, NEW t, Onward(s, t), NEW d, NEW c, NEW k, NEW j, Awaits(d, c, k, j, s)
    PROVE  Awaits(d, c, k, j, t)
<1>1. /\ Added(s) => Added(t)
      /\ NullStops(c, s) => NullStops(c, t)
      /\ \A f, b : Operated(f, b, s) => Operated(f, b, t)
  BY SeenStays, NullStays
<1>2. AnyAwaits(d, c, j, s) => AnyAwaits(d, c, j, t)
  BY <1>1 DEF AnyAwaits
<1>3. \A f, b : LevelAwaits(d, c, f, b, j, s) => LevelAwaits(d, c, f, b, j, t)
  BY <1>1 DEF LevelAwaits
<1> QED
  BY <1>1, <1>2, <1>3 DEF Awaits

LEMMA PendingStays ==
    ASSUME NEW s, NEW t, Onward(s, t), NEW fs, NEW ks, NEW j, Pending(fs, ks, j, s)
    PROVE  Pending(fs, ks, j, t)
BY SteadyStays, AwaitsStays DEF Pending, Waits

(* The tables of the levels.                                               *)
LEMMA Tables ==
    /\ DOMAIN Below = {"Expr", "AndExpr", "RelExpr", "NumExpr"}
    /\ Below["Expr"] = "AndExpr" /\ Below["AndExpr"] = "RelExpr"
    /\ Below["RelExpr"] = "NumExpr" /\ Below["NumExpr"] = "Term"
    /\ Operators["Expr"] = {"or"} /\ Operators["AndExpr"] = {"and"}
    /\ Operators["RelExpr"] = {"lessthan", "equalto"} /\ Operators["NumExpr"] = {"plus"}
    /\ Operand["Expr"] = "AndExpr" /\ Operand["AndExpr"] = "RelExpr"
    /\ Operand["RelExpr"] = "Term" /\ Operand["NumExpr"] = "Term"
    /\ Delimiters["Expr"] = {"comma", "equl", "rpar", "semi"}
    /\ Delimiters["AndExpr"] = {"comma", "equl", "rpar", "semi", "or"}
    /\ Delimiters["RelExpr"] = {"comma", "equl", "rpar", "semi", "or", "and"}
    /\ Delimiters["NumExpr"] = {"comma", "equl", "rpar", "semi", "or", "and", "lessthan", "equalto"}
BY DEF Below, Operators, Operand, Delimiters, delimiters

LEMMA LevelsBelow ==
    /\ DOMAIN Below = {"Expr", "AndExpr", "RelExpr", "NumExpr"}
    /\ \A f \in DOMAIN Below : f \in Levels /\ Below[f] \in Levels /\ Operand[f] \in Levels
BY Tables DEF Levels

(* A promise is what the frame that waits needs to run; of a function of   *)
(* which only a node or null is promised, any promise will do.             *)
LEMMA Resume ==
    ASSUME NEW d, NEW c, NEW k, NEW j, NEW s, Waits(d, c, k, j, s), Promise(j, s)
    PROVE  Ready(d, c, k, s)
<1>1. /\ s.made = Null \/ j # NoElse
      /\ \A f \in Levels, b \in BOOLEAN : j = Of(f, b) => Returns(f, b, s.made, s)
  BY DEF Promise
<1>2. \A f \in DOMAIN Below : f \in Levels /\ Below[f] \in Levels /\ Operand[f] \in Levels
  BY LevelsBelow
<1>3. AnyAwaits(d, c, j, s) => AnyReady(d, c, s)
  BY <1>1 DEF AnyAwaits, AnyReady, Levels
<1>4. ASSUME NEW f \in DOMAIN Below, NEW b \in BOOLEAN, LevelAwaits(d, c, f, b, j, s)
      PROVE  LevelReady(d, c, f, b, s)
  <2>1. Strict(f, b) \in BOOLEAN
    BY DEF Strict
  <2> QED
    BY <1>1, <1>2, <1>4, <2>1 DEF LevelAwaits, LevelReady
<1>5. ASSUME NEW b \in BOOLEAN, TermAwaits(d, c, b, j)
      PROVE  TermReady(d, c, b, s)
  BY <1>1, <1>5 DEF TermAwaits, TermReady, Levels
<1> QED
  BY <1>3, <1>4, <1>5 DEF Waits, Awaits, Ready

LEMMA KindsDiffer ==
    /\ AnyNode # NoElse /\ AnyNode # Main /\ NoElse # Main
    /\ \A f \in Levels, b \in BOOLEAN : Of(f, b) \notin {AnyNode, NoElse, Main}
    /\ \A f, g, b, e : Of(f, b) = Of(g, e) => f = g /\ b = e
    /\ AnyNode \in Kinds /\ NoElse \in Kinds /\ Main \in Kinds
    /\ \A f \in Levels, b \in BOOLEAN : Of(f, b) \in Kinds
BY DEF AnyNode, NoElse, Main, Of, Levels, Kinds

LEMMA AnyIsSteady ==
    ASSUME NEW d, NEW c, NEW k, NEW s, Waits(d, c, k, AnyNode, s)
    PROVE  Steady(d, c, k, s)
<1>1. \A f \in DOMAIN Below : f \in Levels /\ Below[f] \in Levels /\ Operand[f] \in Levels
  BY LevelsBelow
<1>2. ~AnyAwaits(d, c, AnyNode, s)
  BY KindsDiffer DEF AnyAwaits, Levels
<1>3. \A f \in DOMAIN Below, b \in BOOLEAN : ~LevelAwaits(d, c, f, b, AnyNode, s)
  BY <1>1, KindsDiffer DEF LevelAwaits, Strict
<1>4. \A b \in BOOLEAN : ~TermAwaits(d, c, b, AnyNode)
  BY KindsDiffer DEF TermAwaits, Levels
<1> QED
  BY <1>2, <1>3, <1>4 DEF Waits, Awaits

-----------------------------------------------------------------------------
(* Stacks of frames.                                                       *)
Going(d, c, rest) == IF d = <<>> THEN rest ELSE <<Frame(d, c)>> \o rest

LEMMA PushIsSeq ==
    ASSUME NEW x, NEW fs, IsSeq(fs)
    PROVE  /\ IsSeq(<<x>> \o fs) /\ <<x>> \o fs # <<>>
           /\ Head(<<x>> \o fs) = x /\ Tail(<<x>> \o fs) = fs
<1> DEFINE S == Elements(fs) \cup {x}
<1>1. fs \in Seq(S) /\ <<x>> \in Seq(S) /\ Len(<<x>>) = 1 /\ <<x>>[1] = x
  BY SeqMonotonic DEF IsSeq
<1> HIDE DEF S
<1> DEFINE gs == <<x>> \o fs
<1>2. /\ gs \in Seq(S) /\ Len(gs) = 1 + Len(fs) /\ Len(fs) \in Nat
      /\ \A i \in 1..(1 + Len(fs)) : gs[i] = IF i <= 1 THEN <<x>>[i] ELSE fs[i - 1]
  BY <1>1, ConcatProperties, LenProperties
<1> HIDE DEF gs
<1>3. IsSeq(gs) /\ gs # <<>>
  BY <1>2, SeqIsSeq, EmptySeq
<1>4. Head(gs) = x
  BY <1>1, <1>2, <1>3
<1>5. /\ Tail(gs) \in Seq(S) /\ Len(Tail(gs)) = Len(fs)
      /\ \A i \in 1..Len(fs) : Tail(gs)[i] = gs[i + 1]
  BY <1>2, <1>3, HeadTailProperties
<1>6. \A i \in 1..Len(fs) : Tail(gs)[i] = fs[i]
  BY <1>2, <1>5
<1>7. Tail(gs) = fs
  BY <1>1, <1>5, <1>6, SeqEqual
<1> QED
  BY <1>3, <1>4, <1>7 DEF gs

LEMMA TailIsSeq ==
    ASSUME NEW fs, IsSeq(fs), fs # <<>>
    PROVE  IsSeq(Tail(fs)) /\ Head(fs) = fs[1]
<1>1. fs \in Seq(Elements(fs))
  BY DEF IsSeq
<1>2. Tail(fs) \in Seq(Elements(fs))
  BY <1>1, HeadTailProperties
<1>3. IsSeq(Tail(fs))
  BY <1>2, SeqIsSeq
<1>4. Head(fs) = fs[1]
  BY <1>1
<1> QED
  BY <1>3, <1>4

(* The first of the frames that wait gets what it waits for.               *)
LEMMA PendingRuns ==
    ASSUME NEW fs, NEW ks \in Seq(Kinds), NEW k, NEW s, Pending(fs, ks, k, s), Promise(k, s)
    PROVE  Running(fs, s)
<1> SUFFICES ASSUME fs # <<>>
             PROVE  Running(fs, s)
  BY DEF Running
<1>1. IsSeq(fs) /\ Len(ks) = Len(fs) /\ Len(fs) \in Nat \ {0}
  BY EmptySeq DEF Pending, IsSeq
<1>2. ks # <<>> /\ ks[1] \in Kinds /\ Head(ks) = ks[1]
  BY <1>1, ElementOfSeq, EmptySeq
<1>3. Waits(fs[1].todo, fs[1].collected, ks[1], k, s)
  BY <1>1 DEF Pending
<1>4. Ready(Head(fs).todo, Head(fs).collected, ks[1], s)
  BY <1>1, <1>3, Resume, TailIsSeq
<1>5. /\ Tail(fs) \in Seq(Elements(fs)) /\ Len(Tail(fs)) = Len(fs) - 1
      /\ \A i \in 1..(Len(fs) - 1) : Tail(fs)[i] = fs[i + 1]
      /\ Tail(ks) \in Seq(Kinds) /\ Len(Tail(ks)) = Len(fs) - 1
      /\ \A i \in 1..(Len(fs) - 1) : Tail(ks)[i] = ks[i + 1]
  BY <1>1, <1>2, HeadTailProperties DEF IsSeq
<1>6. Pending(Tail(fs), Tail(ks), ks[1], s)
  <2>1. IsSeq(Tail(fs)) /\ Len(Tail(ks)) = Len(Tail(fs))
    BY <1>5, SeqIsSeq
  <2>2. ASSUME NEW i \in 1..Len(Tail(fs))
        PROVE  Waits(Tail(fs)[i].todo, Tail(fs)[i].collected, Tail(ks)[i],
                     IF i = 1 THEN ks[1] ELSE Tail(ks)[i - 1], s)
    <3>1. i + 1 \in 1..Len(fs) /\ i + 1 # 1 /\ (i + 1) - 1 = i
      BY <1>1, <1>5
    <3>2. Waits(fs[i + 1].todo, fs[i + 1].collected, ks[i + 1], ks[(i + 1) - 1], s)
      BY <3>1 DEF Pending
    <3>3. (IF i = 1 THEN ks[1] ELSE Tail(ks)[i - 1]) = ks[i]
      BY <1>1, <1>5
    <3> QED
      BY <1>5, <3>1, <3>2, <3>3
  <2>3. \A i \in 1..Len(Tail(fs)) : Tail(ks)[i] = Main <=> i = Len(Tail(fs))
    <3>1. \A i \in 1..Len(fs) : ks[i] = Main <=> i = Len(fs)
      BY DEF Pending
    <3> SUFFICES ASSUME NEW i \in 1..Len(Tail(fs))
                 PROVE  Tail(ks)[i] = Main <=> i = Len(Tail(fs))
      OBVIOUS
    <3>2. i + 1 \in 1..Len(fs) /\ Tail(ks)[i] = ks[i + 1]
      BY <1>1, <1>5
    <3>3. ks[i + 1] = Main <=> i + 1 = Len(fs)
      BY <3>1, <3>2
    <3> QED
      BY <1>1, <1>5, <3>2, <3>3
  <2>4. ks[1] = Main <=> Tail(fs) = <<>>
    <3>1. ks[1] = Main <=> 1 = Len(fs)
      BY <1>1 DEF Pending
    <3>2. Tail(fs) = <<>> <=> Len(Tail(fs)) = 0
      BY <1>5, EmptySeq
    <3> QED
      BY <1>1, <1>5, <3>1, <3>2
  <2> QED
    BY <2>1, <2>2, <2>3, <2>4 DEF Pending
<1> QED
  BY <1>1, <1>2, <1>4, <1>5, <1>6 DEF Running

(* What a frame does with its rest: it goes on, or a function it calls     *)
(* runs first.                                                             *)
OnWith(d, c, k, s) == IF d = <<>> THEN Promise(k, s) ELSE Ready(d, c, k, s)

LEMMA FrameGoesOn ==
    ASSUME NEW d, NEW c, NEW k \in Kinds, NEW s, NEW rest, NEW ks \in Seq(Kinds),
           Pending(rest, ks, k, s), OnWith(d, c, k, s)
    PROVE  Running(Going(d, c, rest), s) /\ (k # Main \/ d # <<>> => Going(d, c, rest) # <<>>)
<1>1. IsSeq(rest) /\ (k # Main => rest # <<>>)
  BY DEF Pending
<1>2. CASE d = <<>>
  BY <1>1, <1>2, PendingRuns DEF Going, OnWith
<1>3. CASE d # <<>>
  <2>1. Going(d, c, rest) = <<Frame(d, c)>> \o rest
    BY <1>3 DEF Going
  <2>2. /\ IsSeq(<<Frame(d, c)>> \o rest) /\ <<Frame(d, c)>> \o rest # <<>>
        /\ Head(<<Frame(d, c)>> \o rest) = Frame(d, c) /\ Tail(<<Frame(d, c)>> \o rest) = rest
    BY <1>1, PushIsSeq
  <2>3. Frame(d, c).todo = d /\ Frame(d, c).collected = c
    BY DEF Frame
  <2>4. Ready(d, c, k, s)
    BY <1>3 DEF OnWith
  <2> QED
    BY <2>1, <2>2, <2>3, <2>4 DEF Running
<1> QED
  BY <1>2, <1>3

Keeps(d, c, k, j, s) == IF d = <<>> THEN j = k \/ k = AnyNode ELSE Waits(d, c, k, j, s)

LEMMA AnyWillDo ==
    ASSUME NEW fs, NEW ks \in Seq(Kinds), NEW j, NEW s, Pending(fs, ks, AnyNode, s), j # Main
    PROVE  Pending(fs, ks, j, s)
<1>1. fs # <<>>
  BY KindsDiffer DEF Pending
<1>2. ASSUME NEW i \in 1..Len(fs)
      PROVE  Waits(fs[i].todo, fs[i].collected, ks[i], IF i = 1 THEN j ELSE ks[i - 1], s)
  <2>1. Waits(fs[i].todo, fs[i].collected, ks[i], IF i = 1 THEN AnyNode ELSE ks[i - 1], s)
    BY DEF Pending
  <2>2. CASE i = 1
    <3>1. Steady(fs[i].todo, fs[i].collected, ks[i], s)
      BY <2>1, <2>2, AnyIsSteady
    <3> QED
      BY <2>2, <3>1 DEF Waits
  <2>3. CASE i # 1
    BY <2>1, <2>3
  <2> QED
    BY <2>2, <2>3
<1> QED
  BY <1>1, <1>2 DEF Pending

LEMMA FrameWaits ==
    ASSUME NEW d, NEW c, NEW k \in Kinds, NEW j, NEW s, NEW rest, NEW ks \in Seq(Kinds),
           Pending(rest, ks, k, s), Waits(d, c, k, j, s), j # Main
    PROVE  /\ <<k>> \o ks \in Seq(Kinds)
           /\ Pending(<<Frame(d, c)>> \o rest, <<k>> \o ks, j, s)
<1> DEFINE fs == <<Frame(d, c)>> \o rest
           ls == <<k>> \o ks
<1>1. /\ rest \in Seq(Elements(rest)) /\ Len(ks) = Len(rest)
      /\ Len(rest) \in Nat
  BY LenProperties DEF Pending, IsSeq
<1>2. /\ IsSeq(fs) /\ fs # <<>> /\ Head(fs) = Frame(d, c) /\ Tail(fs) = rest
  BY PushIsSeq DEF Pending
<1>3. ls \in Seq(Kinds) /\ Len(ls) = 1 + Len(ks)
      /\ \A i \in 1..(1 + Len(ks)) : ls[i] = IF i <= 1 THEN k ELSE ks[i - 1]
  <2>1. <<k>> \in Seq(Kinds) /\ Len(<<k>>) = 1 /\ <<k>>[1] = k
    OBVIOUS
  <2> QED
    BY <1>1, <2>1, ConcatProperties
<1> HIDE DEF fs, ls
<1>4. /\ Len(fs) = 1 + Len(rest) /\ fs[1] = Frame(d, c)
      /\ \A i \in 1..Len(rest) : fs[i + 1] = rest[i]
  <2>1. /\ fs \in Seq(Elements(fs)) /\ Len(rest) = Len(fs) - 1 /\ Len(fs) \in Nat
        /\ \A i \in 1..Len(rest) : rest[i] = fs[i + 1]
    BY <1>2, HeadTailProperties, LenProperties DEF IsSeq
  <2>2. Head(fs) = fs[1]
    BY <1>2, TailIsSeq
  <2> QED
    BY <1>1, <1>2, <2>1, <2>2
<1>5. Frame(d, c).todo = d /\ Frame(d, c).collected = c
  BY DEF Frame
<1>6. ASSUME NEW i \in 1..Len(fs)
      PROVE  Waits(fs[i].todo, fs[i].collected, ls[i], IF i = 1 THEN j ELSE ls[i - 1], s)
  <2>1. CASE i = 1
    BY <1>1, <1>3, <1>4, <1>5, <2>1
  <2>2. CASE i # 1
    <3> PICK q \in 1..Len(rest) : i = q + 1
      <4>1. i - 1 \in 1..Len(rest) /\ i = (i - 1) + 1
        BY <1>1, <1>4, <2>2
      <4> QED
        BY <4>1
    <3>1. /\ fs[i] = rest[q] /\ ls[i] = ks[q]
          /\ ls[i - 1] = IF q = 1 THEN k ELSE ks[q - 1]
      BY <1>1, <1>3, <1>4
    <3>2. Waits(rest[q].todo, rest[q].collected, ks[q], IF q = 1 THEN k ELSE ks[q - 1], s)
      BY DEF Pending
    <3> QED
      BY <2>2, <3>1, <3>2
  <2> QED
    BY <2>1, <2>2
<1>7. \A i \in 1..Len(fs) : ls[i] = Main <=> i = Len(fs)
  <2> SUFFICES ASSUME NEW i \in 1..Len(fs)
               PROVE  ls[i] = Main <=> i = Len(fs)
    OBVIOUS
  <2>1. (k = Main <=> rest = <<>>) /\ (rest = <<>> <=> Len(rest) = 0)
    BY <1>1, EmptySeq DEF Pending
  <2>2. \A q \in 1..Len(rest) : ks[q] = Main <=> q = Len(rest)
    BY DEF Pending
  <2>3. CASE i = 1
    BY <1>1, <1>3, <1>4, <2>1, <2>3
  <2>4. CASE i # 1
    <3>1. i - 1 \in 1..Len(rest) /\ ls[i] = ks[i - 1]
      BY <1>1, <1>3, <1>4, <2>4
    <3>2. ks[i - 1] = Main <=> i - 1 = Len(rest)
      BY <2>2, <3>1
    <3> QED
      BY <1>1, <1>4, <3>1, <3>2
  <2> QED
    BY <2>3, <2>4
<1>8. Pending(fs, ls, j, s)
  BY <1>1, <1>2, <1>3, <1>4, <1>6, <1>7 DEF Pending
<1> QED
  BY <1>3, <1>8 DEF fs, ls

LEMMA EntersFunction ==
    ASSUME NEW todo, todo # <<>>, NEW c0, NEW j \in Kinds, j # Main, NEW s, Ready(todo, c0, j, s),
           NEW d, NEW c, NEW k \in Kinds, NEW rest, NEW ks \in Seq(Kinds),
           Pending(rest, ks, k, s), Keeps(d, c, k, j, s)
    PROVE  /\ Running(<<Frame(todo, c0)>> \o Going(d, c, rest), s)
           /\ <<Frame(todo, c0)>> \o Going(d, c, rest) # <<>>
<1>1. PICK ls \in Seq(Kinds) : Pending(Going(d, c, rest), ls, j, s)
  <2>1. CASE d = <<>>
    <3>1. Going(d, c, rest) = rest /\ (j = k \/ k = AnyNode)
      BY <2>1 DEF Going, Keeps
    <3> QED
      BY <3>1, AnyWillDo
  <2>2. CASE d # <<>>
    <3>1. Going(d, c, rest) = <<Frame(d, c)>> \o rest /\ Waits(d, c, k, j, s)
      BY <2>2 DEF Going, Keeps
    <3>2. /\ <<k>> \o ks \in Seq(Kinds)
          /\ Pending(<<Frame(d, c)>> \o rest, <<k>> \o ks, j, s)
      BY <3>1, FrameWaits
    <3> QED
      BY <3>1, <3>2
  <2> QED
    BY <2>1, <2>2
<1> DEFINE gs == Going(d, c, rest)
<1>2. IsSeq(gs)
  BY <1>1 DEF Pending
<1> HIDE DEF gs
<1>3. /\ IsSeq(<<Frame(todo, c0)>> \o gs) /\ <<Frame(todo, c0)>> \o gs # <<>>
      /\ Head(<<Frame(todo, c0)>> \o gs) = Frame(todo, c0) /\ Tail(<<Frame(todo, c0)>> \o gs) = gs
  BY <1>2, PushIsSeq
<1>4. Frame(todo, c0).todo = todo /\ Frame(todo, c0).collected = c0
  BY DEF Frame
<1>5. Pending(gs, ls, j, s)
  BY <1>1 DEF gs
<1>6. Running(<<Frame(todo, c0)>> \o gs, s)
  BY <1>3, <1>4, <1>5 DEF Running
<1> QED
  BY <1>3, <1>6 DEF gs

-----------------------------------------------------------------------------
(* The scanner.                                                            *)
LEMMA LeastIsFound ==
    ASSUME NEW T \in SUBSET Nat, T # {}
    PROVE  Min(T) \in T /\ \A t \in T : Min(T) <= t
<1> DEFINE R == {ss \in Nat \X Nat : ss[1] < ss[2]}
<1>1. IsWellFoundedOn(R, Nat)
  BY NatLessThanWellFounded DEF OpToRel
<1>2. PICK m \in T : \A t \in T : ~ (<<t, m>> \in R)
  <2> HIDE DEF R
  <2> QED
    BY <1>1, WFMin
<1>3. \A t \in T : m <= t
  <2> TAKE t \in T
  <2>1. <<t, m>> \in Nat \X Nat
    OBVIOUS
  <2>2. ~ (t < m)
    BY <1>2, <2>1
  <2> QED
    BY <2>2
<1>4. \E x \in T : \A y \in T : x =< y
  BY <1>3
<1> QED
  BY <1>4 DEF Min

LEMMA RunEnds ==
    ASSUME NEW file \in Seq(STRING), NEW p \in 1..(Len(file) + 1), NEW kind
    PROVE  /\ RunEnd(file, p, kind) \in p..(Len(file) + 1)
           /\ p <= Len(file) /\ file[p] \notin kind => RunEnd(file, p, kind) = p
<1> DEFINE T == {q \in p..(Len(file) + 1) : q > Len(file) \/ file[q] \notin kind}
<1>1. Len(file) \in Nat
  BY LenProperties
<1>2. T \in SUBSET Nat /\ Len(file) + 1 \in T
  BY <1>1
<1>3. p <= Len(file) /\ file[p] \notin kind => p \in T
  BY <1>1
<1>4. T \subseteq p..(Len(file) + 1)
  OBVIOUS
<1>5. RunEnd(file, p, kind) = Min(T)
  BY DEF RunEnd
<1> HIDE DEF T
<1>6. Min(T) \in T /\ \A t \in T : Min(T) <= t
  BY <1>2, LeastIsFound
<1>7. Min(T) \in p..(Len(file) + 1)
  BY <1>4, <1>6
<1>8. p \in T => Min(T) = p
  BY <1>1, <1>6, <1>7
<1> QED
  BY <1>3, <1>5, <1>7, <1>8

LEMMA SignTokens ==
    ASSUME NEW x \in DOMAIN Signs
    PROVE  /\ Signs[x] = "plus" => x = "+"
           /\ Signs[x] = "dot" => x = "."
           /\ Signs[x] = "lessthan" => x = "<"
           /\ Signs[x] # "equalto"
BY Zenon DEF Signs

LEMMA SignsApart == \A x \in DOMAIN Signs : x \notin Keywords /\ x # "="
BY Zenon DEF Signs, Keywords

LEMMA ScannedFields ==
    ASSUME NEW token, NEW after
    PROVE  Scanned(token, after).token = token /\ Scanned(token, after).after = after
BY DEF Scanned

LEMMA TokenIsParsed ==
    ASSUME NEW file \in Seq(STRING), NEW p \in 1..Len(file), NEW r, r = ParseToken(file, p)
    PROVE  /\ r.after \in p..(Len(file) + 1)
           /\ r.token = "plus" => r.after = p + 1 /\ file[p] = "+"
           /\ r.token = "dot" => r.after = p + 1 /\ file[p] = "."
           /\ r.token = "lessthan" => r.after = p + 1 /\ file[p] = "<"
           /\ r.token = "equalto" => r.after = p + 2 /\ IsEqualTo(file, p)
           /\ file[p] \in Letters => r.token = "name"
<1>1. Len(file) \in Nat /\ p \in 1..(Len(file) + 1)
  BY LenProperties
<1>2. CASE file[p] \in DOMAIN Signs
  <2>1. r = Scanned(Signs[file[p]], p + 1)
    BY <1>2, SignsApart, PiecesAssumption DEF ParseToken, IsEqualTo
  <2>2. r.token = Signs[file[p]] /\ r.after = p + 1
    BY <2>1, ScannedFields
  <2>3. file[p] \notin Letters
    BY <1>2, PiecesAssumption
  <2> QED
    BY <1>1, <1>2, <2>2, <2>3, SignTokens
<1>3. CASE file[p] \in Digits /\ file[p] \notin DOMAIN Signs
  <2>1. r = Scanned("numr", RunEnd(file, p, Digits))
    BY <1>3, PiecesAssumption DEF ParseToken, ParseNumerical, IsEqualTo
  <2>2. r.token = "numr" /\ r.after = RunEnd(file, p, Digits)
    BY <2>1, ScannedFields
  <2>3. file[p] \notin Letters
    BY <1>3, PiecesAssumption
  <2> QED
    BY <1>1, <2>2, <2>3, RunEnds
<1>4. CASE /\ file[p] \in Keywords \/ IsEqualTo(file, p)
           /\ file[p] \notin DOMAIN Signs /\ file[p] \notin Digits
  <2>0. "=" \notin Keywords
    BY DEF Keywords
  <2>1. r = ParseKeyword(file, p)
    BY <1>4, <2>0, PiecesAssumption DEF ParseToken, IsEqualTo
  <2>2. file[p] \notin Letters
    BY <1>4, PiecesAssumption DEF IsEqualTo
  <2>3. CASE IsEqualTo(file, p)
    <3>1. r.token = "equalto" /\ r.after = p + 2
      BY <2>1, <2>3, ScannedFields DEF ParseKeyword
    <3> QED
      BY <1>1, <2>2, <2>3, <3>1 DEF IsEqualTo
  <2>4. CASE ~IsEqualTo(file, p)
    <3>1. r.token = file[p] /\ r.after = p + 1 /\ file[p] \in Keywords
      BY <1>4, <2>1, <2>4, ScannedFields DEF ParseKeyword
    <3>2. r.token \notin {"plus", "dot", "lessthan", "equalto"}
      BY <3>1 DEF Keywords
    <3> QED
      BY <1>1, <2>2, <3>1, <3>2
  <2> QED
    BY <2>3, <2>4
<1>5. CASE file[p] \in Letters
  <2>1. file[p] \notin Digits /\ file[p] \notin DOMAIN Signs /\ file[p] \notin Keywords /\ file[p] # "="
    BY <1>5, PiecesAssumption
  <2>2. r = ParseName(file, p)
    BY <1>5, <2>1 DEF ParseToken, IsEqualTo
  <2>3. r.token = "name" /\ r.after = RunEnd(file, p, Letters \cup Keywords \cup Digits)
    BY <2>2, ScannedFields DEF ParseName
  <2> QED
    BY <1>1, <2>3, RunEnds
<1>6. CASE /\ file[p] \notin DOMAIN Signs /\ file[p] \notin Digits /\ file[p] \notin Letters
           /\ file[p] \notin Keywords /\ ~IsEqualTo(file, p)
  <2>1. r \in {Scanned("equl", p + 1), Scanned("error", p)}
    BY <1>6 DEF ParseToken
  <2>2. r.token \in {"equl", "error"} /\ r.after \in {p, p + 1}
    BY <2>1, ScannedFields
  <2> QED
    BY <1>1, <1>6, <2>2
<1> QED
  BY <1>2, <1>3, <1>4, <1>5, <1>6

-----------------------------------------------------------------------------
(* What every step of the parser does to the part all parsers have.        *)
Blames == blamed' = blamed \/ blamed = "none" \/ blamed' = "meaning"

Moves == Scanned_' /\ Onward(Now, Now') /\ (Claimed' => Claimed)

LEMMA NowFields ==
    /\ Now.made = made /\ Now.token = token_ /\ Now.go = continue_parsing_
    /\ Now.fatal = num_fatal_errors_ /\ Now.text = text /\ Now.at = current_position_
    /\ Now'.made = made' /\ Now'.token = token_' /\ Now'.go = continue_parsing_'
    /\ Now'.fatal = num_fatal_errors_' /\ Now'.text = text' /\ Now'.at = current_position_'
BY DEF Now

LEMMA BlamesClaim ==
    ASSUME text' = text, Blames
    PROVE  Claimed' => Claimed
BY DEF Claimed, Blames

LEMMA ReportBlames ==
    ASSUME NEW n, NEW kind, NEW goOn \in BOOLEAN, Report(n, kind, goOn), continue_parsing_ \in BOOLEAN
    PROVE  /\ Blames /\ continue_parsing_' \in BOOLEAN
           /\ continue_parsing_ = FALSE => continue_parsing_' = FALSE
<1>1. continue_parsing_' \in BOOLEAN /\ (continue_parsing_ = FALSE => continue_parsing_' = FALSE)
  BY DEF Report
<1>2. Blames
  BY DEF Report, Blames
<1> QED
  BY <1>1, <1>2

(* Nothing is read.                                                        *)
LEMMA StandingMoves ==
    ASSUME Scanned_, UNCHANGED <<text, current_position_, token_>>, Blames,
           continue_parsing_' \in BOOLEAN, continue_parsing_ = FALSE => continue_parsing_' = FALSE,
           num_fatal_errors_' \in {num_fatal_errors_, 1}
    PROVE  Moves
<1>1. Scanned_'
  BY DEF Scanned_
<1>2. current_position_ \in Nat
  BY LenProperties DEF Scanned_
<1>3. Onward(Now, Now')
  BY <1>2, NowFields DEF Onward
<1> QED
  BY <1>1, <1>3, BlamesClaim DEF Moves

LEMMA SameMoves ==
    ASSUME Scanned_, UNCHANGED baseVars
    PROVE  Moves
BY StandingMoves DEF Scanned_, baseVars, scanVars, errorVars, Blames

LEMMA ErrorMoves ==
    ASSUME Scanned_, NEW kind, Error(kind)
    PROVE  Moves
<1>1. /\ Report(1, kind, TRUE) /\ UNCHANGED <<text, current_position_, token_>>
      /\ num_fatal_errors_' = num_fatal_errors_ /\ continue_parsing_ \in BOOLEAN
  BY DEF Error, scanVars, Scanned_
<1>2. /\ Blames /\ continue_parsing_' \in BOOLEAN
      /\ continue_parsing_ = FALSE => continue_parsing_' = FALSE
  BY <1>1, ReportBlames
<1> QED
  BY <1>1, <1>2, StandingMoves

LEMMA FatalErrorMoves ==
    ASSUME Scanned_, FatalError
    PROVE  Moves
<1>1. /\ Report(1, "syntax", TRUE) /\ UNCHANGED <<text, current_position_, token_>>
      /\ num_fatal_errors_' = 1 /\ continue_parsing_ \in BOOLEAN
  BY DEF FatalError, scanVars, Scanned_
<1>2. /\ Blames /\ continue_parsing_' \in BOOLEAN
      /\ continue_parsing_ = FALSE => continue_parsing_' = FALSE
  BY <1>1, ReportBlames
<1> QED
  BY <1>1, <1>2, StandingMoves

(* The next token is read.  Behind the dot of a member's name comes the    *)
(* name or a type, if it is written right behind it.                       *)
LEMMA NextTokenMoves ==
    ASSUME Scanned_, NextToken
    PROVE  /\ Moves
           /\ num_fatal_errors_' = num_fatal_errors_
           /\ token_ = "dot" /\ DotsHaveNames(text) => token_' \in {"name", "ntype"}
<1> DEFINE start == Skip(text, current_position_)
<1>1. /\ text \in Seq(STRING) /\ Len(text) \in Nat /\ current_position_ \in 1..(Len(text) + 1)
      /\ continue_parsing_ \in BOOLEAN
  BY LenProperties DEF Scanned_
<1>2. /\ start \in current_position_..(Len(text) + 1)
      /\ current_position_ <= Len(text) /\ text[current_position_] \notin Blanks => start = current_position_
  BY <1>1, RunEnds DEF Skip
<1> HIDE DEF start
<1>3. /\ text' = text
      /\ IF start > Len(text) THEN ReachEnd(start) ELSE ReadToken(start)
  BY DEF NextToken, start
<1>4. token_ = "dot" /\ DotsHaveNames(text) =>
        /\ start = current_position_ /\ start <= Len(text) /\ text[start] \in Letters
  <2> HAVE token_ = "dot" /\ DotsHaveNames(text)
  <2>1. current_position_ - 1 \in DOMAIN text /\ text[current_position_ - 1] = "."
    BY <1>1, LenProperties DEF Scanned_
  <2>2. current_position_ - 1 < Len(text) /\ text[(current_position_ - 1) + 1] \in Letters
    BY <2>1 DEF DotsHaveNames
  <2>3. (current_position_ - 1) + 1 = current_position_ /\ current_position_ <= Len(text)
    BY <1>1, <2>2
  <2>4. text[current_position_] \in Letters
    BY <2>2, <2>3
  <2>5. text[current_position_] \notin Blanks
    BY <2>4, PiecesAssumption
  <2> QED
    BY <1>2, <2>3, <2>4, <2>5
<1>5. ASSUME ReachEnd(start), start > Len(text)
      PROVE  /\ Scanned_' /\ Onward(Now, Now') /\ Blames
             /\ num_fatal_errors_' = num_fatal_errors_
  <2>1. /\ current_position_' = start /\ token_' = "eof"
        /\ (Report(1, "syntax", FALSE) /\ UNCHANGED num_fatal_errors_) \/ UNCHANGED errorVars
    BY <1>5 DEF ReachEnd
  <2>2. /\ Blames /\ continue_parsing_' \in BOOLEAN /\ num_fatal_errors_' = num_fatal_errors_
        /\ continue_parsing_ = FALSE => continue_parsing_' = FALSE
    BY <1>1, <2>1, ReportBlames DEF errorVars, Blames
  <2>3. Scanned_'
    BY <1>1, <1>2, <1>3, <2>1, <2>2 DEF Scanned_
  <2>4. Onward(Now, Now')
    BY <1>1, <1>2, <1>3, <2>1, <2>2, NowFields DEF Onward
  <2> QED
    BY <2>2, <2>3, <2>4
<1>6. ASSUME ReadToken(start), start <= Len(text)
      PROVE  /\ Scanned_' /\ Onward(Now, Now') /\ Blames
             /\ num_fatal_errors_' = num_fatal_errors_
             /\ text[start] \in Letters => token_' \in {"name", "ntype"}
  <2> DEFINE r == ParseToken(text, start)
  <2>1. start \in 1..Len(text)
    BY <1>1, <1>2, <1>6
  <2>2. /\ r.after \in start..(Len(text) + 1)
        /\ r.token = "plus" => r.after = start + 1 /\ text[start] = "+"
        /\ r.token = "dot" => r.after = start + 1 /\ text[start] = "."
        /\ r.token = "lessthan" => r.after = start + 1 /\ text[start] = "<"
        /\ r.token = "equalto" => r.after = start + 2 /\ IsEqualTo(text, start)
        /\ text[start] \in Letters => r.token = "name"
    <3> HIDE DEF r
    <3>1. r = ParseToken(text, start)
      BY DEF r
    <3> QED
      BY <1>1, <2>1, <3>1, TokenIsParsed
  <2>3. /\ current_position_' = r.after
        /\ token_' \in {r.token, "ntype"} /\ (token_' = "ntype" => r.token \in {"name", "ntype"})
        /\ (Report(1, "syntax", TRUE) /\ UNCHANGED num_fatal_errors_) \/ UNCHANGED errorVars
    BY <1>6 DEF ReadToken
  <2>4. /\ Blames /\ continue_parsing_' \in BOOLEAN /\ num_fatal_errors_' = num_fatal_errors_
        /\ continue_parsing_ = FALSE => continue_parsing_' = FALSE
    BY <1>1, <2>3, ReportBlames DEF errorVars, Blames
  <2> HIDE DEF r
  <2>5. /\ token_' = "plus" => current_position_' > 1 /\ text'[current_position_' - 1] = "+"
        /\ token_' = "dot" => current_position_' > 1 /\ text'[current_position_' - 1] = "."
        /\ token_' = "lessthan" => current_position_' > 1 /\ text'[current_position_' - 1] = "<"
    BY <1>3, <2>1, <2>2, <2>3
  <2>6. token_' = "equalto" => current_position_' > 2 /\ IsEqualTo(text', current_position_' - 2)
    BY <1>3, <2>1, <2>2, <2>3
  <2>7. Scanned_'
    BY <1>1, <1>2, <1>3, <2>1, <2>2, <2>3, <2>4, <2>5, <2>6 DEF Scanned_
  <2>8. Onward(Now, Now')
    BY <1>1, <1>2, <1>3, <2>1, <2>2, <2>3, <2>4, NowFields DEF Onward
  <2> QED
    BY <2>2, <2>3, <2>4, <2>7, <2>8
<1> QED
  BY <1>1, <1>2, <1>3, <1>4, <1>5, <1>6, BlamesClaim DEF Moves

-----------------------------------------------------------------------------
(* The action that goes with the item a frame comes to.                    *)
LEMMA CallGuards ==
    /\ DefList => item.do \in {"Call", "Pass"} /\ item.with = "DefList"
    /\ FuncDef_ => item.do \in {"Call", "Pass"} /\ item.with = "FuncDef_"
    /\ ParseFuncDef => item.do \in {"Call", "Pass"} /\ item.with = "ParseFuncDef"
    /\ ParList => item.do \in {"Call", "Pass"} /\ item.with = "ParList"
    /\ ParListPrime => item.do \in {"Call", "Pass"} /\ item.with = "ParListPrime"
    /\ ClassDef_ => item.do \in {"Call", "Pass"} /\ item.with = "ClassDef_"
    /\ InhtList => item.do \in {"Call", "Pass"} /\ item.with = "InhtList"
    /\ InhtListPrime => item.do \in {"Call", "Pass"} /\ item.with = "InhtListPrime"
    /\ MemberList => item.do \in {"Call", "Pass"} /\ item.with = "MemberList"
    /\ Member => item.do \in {"Call", "Pass"} /\ item.with = "Member"
    /\ BuildNameDecl => item.do \in {"Call", "Pass"} /\ item.with = "BuildNameDecl"
    /\ Type => item.do \in {"Call", "Pass"} /\ item.with = "Type"
    /\ NameDecl => item.do \in {"Call", "Pass"} /\ item.with = "NameDecl"
    /\ NameList => item.do \in {"Call", "Pass"} /\ item.with = "NameList"
    /\ NameListPrime => item.do \in {"Call", "Pass"} /\ item.with = "NameListPrime"
    /\ NameAfterComma => item.do \in {"Call", "Pass"} /\ item.with = "NameAfterComma"
    /\ NameListEnd => item.do \in {"Call", "Pass"} /\ item.with = "NameListEnd"
    /\ Stmts => item.do \in {"Call", "Pass"} /\ item.with = "Stmts"
    /\ IfStmt => item.do \in {"Call", "Pass"} /\ item.with = "Stmt"
    /\ WhileStmt => item.do \in {"Call", "Pass"} /\ item.with = "Stmt"
    /\ DeclStmt => item.do \in {"Call", "Pass"} /\ item.with = "Stmt"
    /\ AssignStmt => item.do \in {"Call", "Pass"} /\ item.with = "Stmt"
    /\ ReturnStmt => item.do \in {"Call", "Pass"} /\ item.with = "Stmt"
    /\ IfElse => item.do \in {"Call", "Pass"} /\ item.with = "IfElse"
    /\ FactorPrime => item.do \in {"Call", "Pass"} /\ item.with = "FactorPrime"
    /\ ArgList => item.do \in {"Call", "Pass"} /\ item.with = "ArgList"
    /\ ArgListPrime => item.do \in {"Call", "Pass"} /\ item.with = "ArgListPrime"
    /\ Argument => item.do \in {"Call", "Pass"} /\ item.with = "Argument"
    /\ Level => item.do = "Call" /\ item.with \in DOMAIN Below
    /\ Factor => item.do \in {"Call", "Pass"} /\ item.with \in {"Term", "Factor"}
    /\ Argm => item.do \in {"Call", "Pass"} /\ item.with \in {"Argm", "ArgmOfMember"}
BY DEF Calling, Doing, DefList, FuncDef_, ParseFuncDef, ParList, ParListPrime, ClassDef_, InhtList, InhtListPrime,
   MemberList, Member, BuildNameDecl, Type,
   NameDecl, NameList, NameListPrime, NameAfterComma, NameListEnd, Stmts, IfStmt, WhileStmt, DeclStmt, AssignStmt,
   ReturnStmt, IfElse, FactorPrime, ArgList, ArgListPrime, Argument, Level, Factor, Argm

LEMMA ItemGuards ==
    /\ ReadFirst => item.do = "Begin"
    /\ AcceptToken => item.do = "Accept"
    /\ NeedToken => item.do = "Need"
    /\ TryToken => item.do = "Try"
    /\ ExpectToken => item.do = "Expect"
    /\ RecoverOrStop => item.do = "Recover"
    /\ ConsumeTokensUntil => item.do = "ConsumeUntil"
    /\ PlainTypeOrPointer => item.do = "PlainType"
    /\ EndOperands => item.do = "Operator"
    /\ ReportError => item.do \in {"Fail", "Missed"}
    /\ ReportNoBody => item.do = "Fatal"
    /\ DeclarationFits => item.do = "Declare"
    /\ DeclarationClashes => item.do = "Declare"
    /\ DeclarationIsInherited => item.do = "Declare"
    /\ NameKnown => item.do = "BuildVar"
    /\ NameUnknown => item.do = "BuildVar"
    /\ BuildFunctionCall => item.do = "BuildCall"
    /\ LeaveUnreported => item.do = "Unreported"
    /\ LeaveWithoutReturn => item.do = "NoReturn"
    /\ GiveNode => item.do = "Give"
    /\ PassNullOn => item.do = "Valid"
    /\ ReturnUnlessNull => item.do = "Unless"
    /\ CollectNode => item.do = "Collect"
    /\ BuildNode => item.do = "Build"
    /\ BuildIfNode => item.do = "BuildIf"
    /\ KeepDefinition => item.do = "KeepFunction"
    /\ KeepClassMember => item.do = "KeepMember"
    /\ EndProg => item.do = "Finish"
    /\ SetDeferred => item.do = "Deferred"
    /\ SetInside => item.do = "Inside"
    /\ AcceptClassName => item.do = "ClassName"
    /\ AddParent => item.do = "Parent"
    /\ FindParents => item.do = "NewClassDecl"
    /\ EndClass => item.do = "NewClass"
    /\ ExprPrime => item.do = "Prime"
BY DEF Doing, ReadFirst, AcceptToken, NeedToken, TryToken, ExpectToken, RecoverOrStop, ConsumeTokensUntil,
   PlainTypeOrPointer, EndOperands, ReportError, ReportNoBody, DeclarationFits, DeclarationClashes,
   DeclarationIsInherited, NameKnown, NameUnknown, BuildFunctionCall, LeaveUnreported, LeaveWithoutReturn,
   GiveNode, PassNullOn, ReturnUnlessNull, CollectNode, BuildNode, BuildIfNode, KeepDefinition, KeepClassMember,
   EndProg, SetDeferred, SetInside, AcceptClassName, AddParent, FindParents, EndClass, ExprPrime

LEMMA ItemsAreDone ==
    ASSUME Next, ~Done, item.do \notin {"Call", "Pass"}
    PROVE  /\ item.do = "Begin" => ReadFirst
           /\ item.do = "Accept" => AcceptToken
           /\ item.do = "Need" => NeedToken
           /\ item.do = "Try" => TryToken
           /\ item.do = "Expect" => ExpectToken
           /\ item.do = "Recover" => RecoverOrStop
           /\ item.do = "ConsumeUntil" => ConsumeTokensUntil
           /\ item.do = "PlainType" => PlainTypeOrPointer
           /\ item.do = "Operator" => EndOperands
           /\ item.do = "Fail" => ReportError
           /\ item.do = "Missed" => ReportError
           /\ item.do = "Fatal" => ReportNoBody
           /\ item.do = "Declare" => DeclarationFits \/ DeclarationClashes \/ DeclarationIsInherited
           /\ item.do = "BuildVar" => NameKnown \/ NameUnknown
           /\ item.do = "BuildCall" => BuildFunctionCall
           /\ item.do = "Unreported" => LeaveUnreported
           /\ item.do = "NoReturn" => LeaveWithoutReturn
           /\ item.do = "Give" => GiveNode
           /\ item.do = "Valid" => PassNullOn
           /\ item.do = "Unless" => ReturnUnlessNull
           /\ item.do = "Collect" => CollectNode
           /\ item.do = "Build" => BuildNode
           /\ item.do = "BuildIf" => BuildIfNode
           /\ item.do = "KeepFunction" => KeepDefinition
           /\ item.do = "KeepMember" => KeepClassMember
           /\ item.do = "Finish" => EndProg
           /\ item.do = "Deferred" => SetDeferred
           /\ item.do = "Inside" => SetInside
           /\ item.do = "ClassName" => AcceptClassName
           /\ item.do = "Parent" => AddParent
           /\ item.do = "NewClassDecl" => FindParents
           /\ item.do = "NewClass" => EndClass
           /\ item.do = "Prime" => ExprPrime
<1>1. \/ ReadFirst \/ AcceptToken \/ NeedToken \/ TryToken \/ ExpectToken
      \/ RecoverOrStop \/ ConsumeTokensUntil \/ PlainTypeOrPointer \/ EndOperands \/ ReportError
      \/ ReportNoBody \/ DeclarationFits \/ DeclarationClashes \/ DeclarationIsInherited \/ NameKnown
      \/ NameUnknown \/ BuildFunctionCall \/ LeaveUnreported \/ LeaveWithoutReturn \/ GiveNode \/ PassNullOn
      \/ ReturnUnlessNull \/ CollectNode \/ BuildNode \/ BuildIfNode \/ KeepDefinition \/ KeepClassMember
      \/ EndProg \/ SetDeferred \/ SetInside \/ AcceptClassName \/ AddParent \/ FindParents \/ EndClass
      \/ ExprPrime \/ item.do = "Died"
  BY CallGuards, Zenon DEF Next, Dead, Doing, Parse, Definitions, Declarations, Statements, Expressions, Tokens, Reports, Nodes, Context
<1> QED
  BY <1>1, ItemGuards

LEMMA CallsAreDone ==
    ASSUME Next, ~Done, item.do \in {"Call", "Pass"}
    PROVE  /\ item.with = "DefList" => DefList
           /\ item.with = "FuncDef_" => FuncDef_
           /\ item.with = "ParseFuncDef" => ParseFuncDef
           /\ item.with = "ParList" => ParList
           /\ item.with = "ParListPrime" => ParListPrime
           /\ item.with = "ClassDef_" => ClassDef_
           /\ item.with = "InhtList" => InhtList
           /\ item.with = "InhtListPrime" => InhtListPrime
           /\ item.with = "MemberList" => MemberList
           /\ item.with = "Member" => Member
           /\ item.with = "BuildNameDecl" => BuildNameDecl
           /\ item.with = "Type" => Type
           /\ item.with = "NameDecl" => NameDecl
           /\ item.with = "NameList" => NameList
           /\ item.with = "NameListPrime" => NameListPrime
           /\ item.with = "NameAfterComma" => NameAfterComma
           /\ item.with = "NameListEnd" => NameListEnd
           /\ item.with = "Stmts" => Stmts
           /\ item.with = "Stmt" => IfStmt \/ WhileStmt \/ DeclStmt \/ AssignStmt \/ ReturnStmt
           /\ item.with = "IfElse" => IfElse
           /\ item.with = "FactorPrime" => FactorPrime
           /\ item.with = "ArgList" => ArgList
           /\ item.with = "ArgListPrime" => ArgListPrime
           /\ item.with = "Argument" => Argument
           /\ item.with \in {"Term", "Factor"} => Factor
           /\ item.with \in {"Argm", "ArgmOfMember"} => Argm
           /\ item.do = "Call" /\ item.with \in DOMAIN Below => Level
<1>1. \/ DefList \/ FuncDef_ \/ ParseFuncDef \/ ParList \/ ParListPrime \/ ClassDef_
      \/ InhtList \/ InhtListPrime \/ MemberList \/ Member \/ BuildNameDecl \/ Type \/ NameDecl
      \/ NameList \/ NameListPrime \/ NameAfterComma \/ NameListEnd \/ Stmts \/ IfStmt
      \/ WhileStmt \/ DeclStmt \/ AssignStmt \/ ReturnStmt \/ IfElse \/ FactorPrime
      \/ ArgList \/ ArgListPrime \/ Argument \/ Level \/ Factor \/ Argm \/ item.do = "Died"
  BY ItemGuards, Zenon DEF Next, Dead, Doing, Parse, Definitions, Declarations, Statements, Expressions, Tokens, Reports, Nodes, Context
<1>2. DOMAIN Below = {"Expr", "AndExpr", "RelExpr", "NumExpr"}
  BY Tables
<1> QED
  BY <1>1, <1>2, CallGuards

-----------------------------------------------------------------------------
(* What each item does.  The running frame is at item x, with r after it.  *)
At(x, r) == Scanned_ /\ Next /\ ~Done /\ Begins(Top.todo, x, r)
GoesOn(r, c) == frames' = Going(r, c, Tail(frames))
Leaves(v) == frames' = Tail(frames) /\ made' = v
Quiet == Moves /\ UNCHANGED treeVars
Dies == frames' = <<Frame(<<Died>>, Nothing)>> /\ made' = made /\ Quiet

(* An error is reported; nothing is read.                                  *)
Complains == Moves /\ token_' = token_ /\ (Claimed' => DotsHaveNames(text) /\ ~ComparesBetweenPluses(text))

LEMMA ItemOfTop ==
    ASSUME NEW x, NEW r, At(x, r)
    PROVE  /\ item = x
           /\ \A c : With(<<>>, c) = Going(r, c, Tail(frames))
           /\ \A its, c : With(its, c) = Going(its \o r, c, Tail(frames))
BY DEF At, Begins, item, With, Going

LEMMA ItemFields ==
    ASSUME NEW a, NEW b
    PROVE  Item(a, b).do = a /\ Item(a, b).with = b
BY DEF Item

LEMMA SyntaxComplains ==
    ASSUME Scanned_, Error("syntax")
    PROVE  Complains
<1>1. Moves
  BY ErrorMoves
<1>2. token_' = token_ /\ text' = text /\ blamed' # "none"
  BY DEF Error, Report, scanVars
<1> QED
  BY <1>1, <1>2 DEF Complains, Claimed

LEMMA MeaningIsNotClaimed ==
    ASSUME Error("meaning")
    PROVE  ~Claimed'
BY DEF Error, Report, Claimed

LEMMA TakeDoes ==
    ASSUME NEW t, NEW r, At(Take(t), r)
    PROVE  /\ GoesOn(r, Top.collected) /\ made' = made /\ Quiet
           /\ num_fatal_errors_' = num_fatal_errors_
           /\ token_ = t \/ token_' = token_
           /\ token_ = "dot" /\ t = "dot" /\ DotsHaveNames(text) => token_' \in {"name", "ntype"}
<1>1. item = Take(t) /\ Take(t).do = "Accept" /\ Take(t).with = t
  BY ItemOfTop, ItemFields DEF Take
<1>2. AcceptToken
  BY <1>1, ItemsAreDone DEF At
<1>3. Accept(t) /\ frames' = With(<<>>, Top.collected) /\ UNCHANGED <<made, treeVars>>
  BY <1>1, <1>2 DEF AcceptToken, Go
<1>4. frames' = Going(r, Top.collected, Tail(frames))
  BY <1>3, ItemOfTop
<1>5. CASE token_ = t
  <2>1. NextToken
    BY <1>3, <1>5 DEF Accept, Check
  <2> QED
    BY <1>3, <1>4, <1>5, <2>1, NextTokenMoves DEF At, GoesOn, Quiet
<1>6. CASE token_ # t
  <2>1. Error("syntax")
    BY <1>3, <1>6 DEF Accept, Check
  <2>2. token_' = token_ /\ num_fatal_errors_' = num_fatal_errors_
    BY <2>1 DEF Error, scanVars
  <2> QED
    BY <1>3, <1>4, <1>6, <2>1, <2>2, ErrorMoves DEF At, GoesOn, Quiet
<1> QED
  BY <1>5, <1>6

LEMMA NeedDoes ==
    ASSUME NEW t, NEW r, At(Need(t), r)
    PROVE  /\ Quiet
           /\ \/ token_ = t /\ GoesOn(r, Top.collected) /\ made' = made
              \/ token_ # t /\ Leaves(Null) /\ Complains
<1>1. item = Need(t) /\ Need(t).do = "Need" /\ Need(t).with = t
  BY ItemOfTop, ItemFields DEF Need
<1>2. NeedToken
  BY <1>1, ItemsAreDone DEF At
<1>3. /\ Accept(t) /\ UNCHANGED treeVars
      /\ IF token_ = t THEN frames' = With(<<>>, Top.collected) /\ UNCHANGED made ELSE Return(Null)
  BY <1>1, <1>2 DEF NeedToken, Go, Check
<1>4. CASE token_ = t
  <2>1. NextToken
    BY <1>3, <1>4 DEF Accept, Check
  <2>2. frames' = Going(r, Top.collected, Tail(frames)) /\ made' = made
    BY <1>3, <1>4, ItemOfTop
  <2> QED
    BY <1>3, <1>4, <2>1, <2>2, NextTokenMoves DEF At, GoesOn, Quiet
<1>5. CASE token_ # t
  <2>1. Error("syntax")
    BY <1>3, <1>5 DEF Accept, Check
  <2>2. Complains /\ Moves
    BY <2>1, SyntaxComplains, ErrorMoves DEF At
  <2> QED
    BY <1>3, <1>5, <2>2 DEF Quiet, Leaves, Return
<1> QED
  BY <1>4, <1>5

LEMMA TryDoes ==
    ASSUME NEW t, NEW r, At(Try(t), r)
    PROVE  GoesOn(r, Top.collected) /\ made' = made /\ Quiet
<1>1. item = Try(t) /\ Try(t).do = "Try" /\ Try(t).with = t
  BY ItemOfTop, ItemFields DEF Try
<1>2. TryToken
  BY <1>1, ItemsAreDone DEF At
<1>3. /\ NextToken \/ UNCHANGED baseVars
      /\ frames' = With(<<>>, Top.collected) /\ UNCHANGED <<made, treeVars>>
  BY <1>2 DEF TryToken, TryAndAccept, Go
<1>4. frames' = Going(r, Top.collected, Tail(frames))
  BY <1>3, ItemOfTop
<1> QED
  BY <1>3, <1>4, NextTokenMoves, SameMoves DEF At, GoesOn, Quiet

LEMMA ExpectDoes ==
    ASSUME NEW ts, NEW r, At(Expect(ts), r)
    PROVE  /\ Quiet
           /\ \/ token_ \in ts /\ GoesOn(r, Top.collected) /\ made' = made /\ UNCHANGED baseVars
              \/ token_ \notin ts /\ Leaves(Null) /\ Complains
<1>1. item = Expect(ts) /\ Expect(ts).do = "Expect" /\ Expect(ts).with = ts
  BY ItemOfTop, ItemFields DEF Expect
<1>2. ExpectToken
  BY <1>1, ItemsAreDone DEF At
<1>3. /\ AcceptEmpty(ts) /\ UNCHANGED treeVars
      /\ IF token_ \in ts THEN frames' = With(<<>>, Top.collected) /\ UNCHANGED made ELSE Return(Null)
  BY <1>1, <1>2 DEF ExpectToken, Go, Check
<1>4. CASE token_ \in ts
  <2>1. UNCHANGED baseVars
    BY <1>3, <1>4 DEF AcceptEmpty, Check
  <2>2. frames' = Going(r, Top.collected, Tail(frames)) /\ made' = made
    BY <1>3, <1>4, ItemOfTop
  <2> QED
    BY <1>3, <1>4, <2>1, <2>2, SameMoves DEF At, GoesOn, Quiet
<1>5. CASE token_ \notin ts
  <2>1. Error("syntax")
    BY <1>3, <1>5 DEF AcceptEmpty, Check
  <2>2. Complains /\ Moves
    BY <2>1, SyntaxComplains, ErrorMoves DEF At
  <2> QED
    BY <1>3, <1>5, <2>2 DEF Quiet, Leaves, Return
<1> QED
  BY <1>4, <1>5

LEMMA RecoverDoes ==
    ASSUME NEW f, NEW r, At(Recover(f), r)
    PROVE  /\ Quiet
           /\ \/ GoesOn(<<Pass(f)>> \o r, Top.collected) /\ made' = made
              \/ continue_parsing_ = FALSE /\ Leaves(Null) /\ UNCHANGED baseVars
<1>1. item = Recover(f) /\ Recover(f).do = "Recover" /\ Recover(f).with = f
  BY ItemOfTop, ItemFields DEF Recover
<1>2. RecoverOrStop
  BY <1>1, ItemsAreDone DEF At
<1>3. /\ UNCHANGED treeVars
      /\ \/ NextToken /\ frames' = With(<<Pass(f)>>, Top.collected) /\ UNCHANGED made
         \/ continue_parsing_ = FALSE /\ Return(Null) /\ UNCHANGED baseVars
  <2>1. continue_parsing_ \in BOOLEAN
    BY DEF At, Scanned_
  <2> QED
    BY <1>1, <1>2, <2>1 DEF RecoverOrStop, Go
<1>4. With(<<Pass(f)>>, Top.collected) = Going(<<Pass(f)>> \o r, Top.collected, Tail(frames))
  BY ItemOfTop
<1>5. Moves
  BY <1>3, NextTokenMoves, SameMoves DEF At
<1> QED
  BY <1>3, <1>4, <1>5 DEF GoesOn, Quiet, Leaves, Return

LEMMA ConsumeUntilDoes ==
    ASSUME NEW t, NEW r, At(ConsumeUntil(t), r)
    PROVE  Quiet /\ made' = made /\ (frames' = frames \/ GoesOn(r, Top.collected))
<1>1. item = ConsumeUntil(t) /\ ConsumeUntil(t).do = "ConsumeUntil"
  BY ItemOfTop, ItemFields DEF ConsumeUntil
<1>2. ConsumeTokensUntil
  BY <1>1, ItemsAreDone DEF At
<1>3. /\ (NextToken /\ frames' = frames) \/ (UNCHANGED baseVars /\ frames' = With(<<>>, Top.collected))
      /\ UNCHANGED <<made, treeVars>>
  BY <1>2 DEF ConsumeTokensUntil, Go
<1>4. With(<<>>, Top.collected) = Going(r, Top.collected, Tail(frames))
  BY ItemOfTop
<1>5. Moves
  BY <1>3, NextTokenMoves, SameMoves DEF At
<1> QED
  BY <1>3, <1>4, <1>5 DEF GoesOn, Quiet

LEMMA PlainTypeDoes ==
    ASSUME NEW r, At(PlainType, r)
    PROVE  Quiet /\ \E v \in {Null, Whole} : Leaves(v)
<1>1. item = PlainType /\ PlainType.do = "PlainType"
  BY ItemOfTop, ItemFields DEF PlainType
<1>2. PlainTypeOrPointer
  BY <1>1, ItemsAreDone DEF At
<1>3. /\ NextToken \/ UNCHANGED baseVars
      /\ Leaves(Null) \/ Leaves(Whole)
      /\ UNCHANGED treeVars
  BY <1>2 DEF PlainTypeOrPointer, TryAndAccept, Return, Leaves
<1> QED
  BY <1>3, NextTokenMoves, SameMoves DEF At, Quiet

LEMMA OperatorDoes ==
    ASSUME NEW f, NEW r, At(Operator(f), r)
    PROVE  /\ Quiet /\ UNCHANGED baseVars
           /\ \/ token_ \in Operators[f] /\ GoesOn(<<Prime(f)>> \o r, Top.collected) /\ made' = made
              \/ token_ \notin Operators[f] /\ Leaves(Top.collected)
<1>1. item = Operator(f) /\ Operator(f).do = "Operator" /\ Operator(f).with = f
  BY ItemOfTop, ItemFields DEF Operator
<1>2. EndOperands
  BY <1>1, ItemsAreDone DEF At
<1>3. /\ UNCHANGED <<baseVars, treeVars>>
      /\ IF token_ \in Operators[f] THEN frames' = With(<<Prime(f)>>, Top.collected) /\ UNCHANGED made
                                    ELSE Return(Top.collected)
  BY <1>1, <1>2 DEF EndOperands, Go, Check
<1>4. With(<<Prime(f)>>, Top.collected) = Going(<<Prime(f)>> \o r, Top.collected, Tail(frames))
  BY ItemOfTop
<1>5. Moves
  BY <1>3, SameMoves DEF At
<1> QED
  BY <1>3, <1>4, <1>5 DEF GoesOn, Quiet, Leaves, Return

LEMMA FailDoes ==
    ASSUME NEW r, At(Fail, r)
    PROVE  GoesOn(r, Top.collected) /\ made' = made /\ Quiet /\ Complains
<1>1. item = Fail /\ Fail.do = "Fail"
  BY ItemOfTop, ItemFields DEF Fail
<1>2. ReportError
  BY <1>1, ItemsAreDone DEF At
<1>3. Error("syntax") /\ frames' = With(<<>>, Top.collected) /\ UNCHANGED <<made, treeVars>>
  BY <1>1, <1>2 DEF ReportError, Go
<1>4. frames' = Going(r, Top.collected, Tail(frames))
  BY <1>3, ItemOfTop
<1> QED
  BY <1>3, <1>4, ErrorMoves, SyntaxComplains DEF At, GoesOn, Quiet

LEMMA MissedDoes ==
    ASSUME NEW r, At(Missed, r)
    PROVE  GoesOn(r, Top.collected) /\ made' = made /\ Quiet /\ token_' = token_
<1>1. item = Missed /\ Missed.do = "Missed"
  BY ItemOfTop, ItemFields DEF Missed
<1>2. ReportError
  BY <1>1, ItemsAreDone DEF At
<1>3. /\ Error("syntax") \/ UNCHANGED baseVars
      /\ frames' = With(<<>>, Top.collected) /\ UNCHANGED <<made, treeVars>>
  BY <1>1, <1>2 DEF ReportError, Go
<1>4. frames' = Going(r, Top.collected, Tail(frames))
  BY <1>3, ItemOfTop
<1>5. Moves /\ token_' = token_
  BY <1>3, ErrorMoves, SameMoves DEF At, Error, baseVars, scanVars
<1> QED
  BY <1>3, <1>4, <1>5 DEF GoesOn, Quiet

LEMMA FatalDoes ==
    ASSUME NEW r, At(Fatal, r)
    PROVE  GoesOn(r, Top.collected) /\ made' = made /\ Quiet /\ (made = Null => num_fatal_errors_' = 1)
<1>1. item = Fatal /\ Fatal.do = "Fatal"
  BY ItemOfTop, ItemFields DEF Fatal
<1>2. ReportNoBody
  BY <1>1, ItemsAreDone DEF At
<1>3. /\ IF made = Null THEN FatalError ELSE UNCHANGED baseVars
      /\ frames' = With(<<>>, Top.collected) /\ UNCHANGED <<made, treeVars>>
  BY <1>1, <1>2 DEF ReportNoBody, Go
<1>4. frames' = Going(r, Top.collected, Tail(frames))
  BY <1>3, ItemOfTop
<1>5. Moves /\ (made = Null => num_fatal_errors_' = 1)
  BY <1>3, FatalErrorMoves, SameMoves DEF At, FatalError
<1> QED
  BY <1>3, <1>4, <1>5 DEF GoesOn, Quiet

LEMMA DeclareDoes ==
    ASSUME NEW what, NEW r, At(Declare(what), r)
    PROVE  Moves /\ (Claimed' => Dies \/ (GoesOn(r, Top.collected) /\ made' = made /\ Quiet))
<1>1. item = Declare(what) /\ Declare(what).do = "Declare"
  BY ItemOfTop, ItemFields DEF Declare
<1>2. DeclarationFits \/ DeclarationClashes \/ DeclarationIsInherited
  BY <1>1, ItemsAreDone DEF At
<1>3. CASE DeclarationFits
  <2>1. frames' = With(<<>>, Top.collected) /\ UNCHANGED <<baseVars, made, treeVars>>
    BY <1>3 DEF DeclarationFits, Go
  <2>2. frames' = Going(r, Top.collected, Tail(frames))
    BY <2>1, ItemOfTop
  <2> QED
    BY <2>1, <2>2, SameMoves DEF At, GoesOn, Quiet
<1>4. CASE DeclarationClashes
  <2>1. Error("meaning")
    BY <1>4 DEF DeclarationClashes
  <2> QED
    BY <2>1, ErrorMoves, MeaningIsNotClaimed DEF At
<1>5. CASE DeclarationIsInherited
  <2>1. Die /\ UNCHANGED <<baseVars, treeVars>>
    BY <1>5 DEF DeclarationIsInherited
  <2> QED
    BY <2>1, SameMoves DEF At, Die, Dies, Quiet
<1> QED
  BY <1>2, <1>3, <1>4, <1>5

LEMMA BuildVarDoes ==
    ASSUME NEW r, At(BuildVar, r)
    PROVE  GoesOn(r, Top.collected) /\ made' = made /\ Quiet
<1>1. item = BuildVar /\ BuildVar.do = "BuildVar"
  BY ItemOfTop, ItemFields DEF BuildVar
<1>2. NameKnown \/ NameUnknown
  BY <1>1, ItemsAreDone DEF At
<1>3. /\ Error("meaning") \/ UNCHANGED baseVars
      /\ frames' = With(<<>>, Top.collected) /\ UNCHANGED <<made, treeVars>>
  BY <1>2 DEF NameKnown, NameUnknown, Go
<1>4. frames' = Going(r, Top.collected, Tail(frames))
  BY <1>3, ItemOfTop
<1>5. Moves
  BY <1>3, ErrorMoves, SameMoves DEF At
<1> QED
  BY <1>3, <1>4, <1>5 DEF GoesOn, Quiet

LEMMA BuildCallDoes ==
    ASSUME NEW q, NEW r, At(BuildCall(q), r)
    PROVE  GoesOn(r, Top.collected) /\ Quiet /\ (Claimed' => made' = Whole)
<1>1. item = BuildCall(q) /\ BuildCall(q).do = "BuildCall" /\ BuildCall(q).with = q
  BY ItemOfTop, ItemFields DEF BuildCall
<1>2. BuildFunctionCall
  BY <1>1, ItemsAreDone DEF At
<1>3. /\ Error("meaning") \/ (UNCHANGED baseVars /\ made' = Whole)
      /\ frames' = With(<<>>, Top.collected) /\ UNCHANGED treeVars
  BY <1>2 DEF BuildFunctionCall, Go
<1>4. frames' = Going(r, Top.collected, Tail(frames))
  BY <1>3, ItemOfTop
<1>5. Moves /\ (Claimed' => made' = Whole)
  BY <1>3, ErrorMoves, SameMoves, MeaningIsNotClaimed DEF At
<1> QED
  BY <1>3, <1>4, <1>5 DEF GoesOn, Quiet

LEMMA UnreportedDoes ==
    ASSUME NEW kind, NEW r, At(Unreported(kind), r)
    PROVE  GoesOn(r, Top.collected) /\ made' = made /\ Quiet
<1>1. item = Unreported(kind) /\ Unreported(kind).do = "Unreported" /\ Unreported(kind).with = kind
  BY ItemOfTop, ItemFields DEF Unreported
<1>2. LeaveUnreported
  BY <1>1, ItemsAreDone DEF At
<1>3. /\ blamed' = IF blamed = "none" THEN kind ELSE blamed
      /\ frames' = With(<<>>, Top.collected)
      /\ UNCHANGED <<text, current_position_, token_, num_fatal_errors_, continue_parsing_, made, treeVars>>
  BY <1>1, <1>2 DEF LeaveUnreported, Go, scanVars
<1>4. frames' = Going(r, Top.collected, Tail(frames))
  BY <1>3, ItemOfTop
<1>5. Scanned_ /\ continue_parsing_ \in BOOLEAN
  BY DEF At, Scanned_
<1>6. Moves
  BY <1>3, <1>5, StandingMoves DEF Blames
<1> QED
  BY <1>3, <1>4, <1>6 DEF GoesOn, Quiet

LEMMA NoReturnDoes ==
    ASSUME NEW r, At(NoReturn, r)
    PROVE  Quiet /\ \E v \in {Null, Whole} : Leaves(v)
<1>1. item = NoReturn /\ NoReturn.do = "NoReturn"
  BY ItemOfTop, ItemFields DEF NoReturn
<1>2. LeaveWithoutReturn
  BY <1>1, ItemsAreDone DEF At
<1>3. (Leaves(Null) \/ Leaves(Whole)) /\ UNCHANGED <<baseVars, treeVars>>
  BY <1>2 DEF LeaveWithoutReturn, Return, Leaves
<1> QED
  BY <1>3, SameMoves DEF At, Quiet

LEMMA GiveDoes ==
    ASSUME NEW v, NEW r, At(Give(v), r)
    PROVE  Quiet /\ Leaves(v) /\ UNCHANGED baseVars
<1>1. item = Give(v) /\ Give(v).do = "Give" /\ Give(v).with = v
  BY ItemOfTop, ItemFields DEF Give
<1>2. GiveNode
  BY <1>1, ItemsAreDone DEF At
<1>3. Leaves(v) /\ UNCHANGED <<baseVars, treeVars>>
  BY <1>1, <1>2 DEF GiveNode, Return, Leaves
<1> QED
  BY <1>3, SameMoves DEF At, Quiet

LEMMA ValidDoes ==
    ASSUME NEW r, At(Valid, r)
    PROVE  /\ Quiet /\ UNCHANGED baseVars
           /\ \/ made = Null /\ Leaves(Null)
              \/ made # Null /\ GoesOn(r, Top.collected) /\ made' = made
<1>1. item = Valid /\ Valid.do = "Valid"
  BY ItemOfTop, ItemFields DEF Valid
<1>2. PassNullOn
  BY <1>1, ItemsAreDone DEF At
<1>3. /\ UNCHANGED <<baseVars, treeVars>>
      /\ IF made = Null THEN Return(Null) ELSE frames' = With(<<>>, Top.collected) /\ UNCHANGED made
  BY <1>2 DEF PassNullOn, Go
<1>4. With(<<>>, Top.collected) = Going(r, Top.collected, Tail(frames))
  BY ItemOfTop
<1>5. Moves
  BY <1>3, SameMoves DEF At
<1> QED
  BY <1>3, <1>4, <1>5 DEF GoesOn, Quiet, Leaves, Return

LEMMA UnlessDoes ==
    ASSUME NEW r, At(Unless, r)
    PROVE  Quiet /\ (Leaves(made) \/ (GoesOn(r, Top.collected) /\ made' = made))
<1>1. item = Unless /\ Unless.do = "Unless"
  BY ItemOfTop, ItemFields DEF Unless
<1>2. ReturnUnlessNull
  BY <1>1, ItemsAreDone DEF At
<1>3. /\ UNCHANGED <<baseVars, treeVars>>
      /\ Return(made) \/ (frames' = With(<<>>, Top.collected) /\ UNCHANGED made)
  BY <1>2 DEF ReturnUnlessNull, Go
<1>4. With(<<>>, Top.collected) = Going(r, Top.collected, Tail(frames))
  BY ItemOfTop
<1>5. Moves
  BY <1>3, SameMoves DEF At
<1> QED
  BY <1>3, <1>4, <1>5 DEF GoesOn, Quiet, Leaves, Return

LEMMA CollectDoes ==
    ASSUME NEW r, At(Collect, r)
    PROVE  GoesOn(r, Lower(Top.collected, made)) /\ made' = made /\ Quiet /\ UNCHANGED baseVars
<1>1. item = Collect /\ Collect.do = "Collect"
  BY ItemOfTop, ItemFields DEF Collect
<1>2. CollectNode
  BY <1>1, ItemsAreDone DEF At
<1>3. frames' = With(<<>>, Lower(Top.collected, made)) /\ UNCHANGED <<baseVars, made, treeVars>>
  BY <1>2 DEF CollectNode
<1>4. frames' = Going(r, Lower(Top.collected, made), Tail(frames))
  BY <1>3, ItemOfTop
<1> QED
  BY <1>3, <1>4, SameMoves DEF At, GoesOn, Quiet

LEMMA BuildDoes ==
    ASSUME NEW r, At(Build, r)
    PROVE  Leaves(NewNode(Top.collected)) /\ Quiet /\ UNCHANGED baseVars
<1>1. item = Build /\ Build.do = "Build"
  BY ItemOfTop, ItemFields DEF Build
<1>2. BuildNode
  BY <1>1, ItemsAreDone DEF At
<1>3. Leaves(NewNode(Top.collected)) /\ UNCHANGED <<baseVars, treeVars>>
  BY <1>2 DEF BuildNode, Return, Leaves
<1> QED
  BY <1>3, SameMoves DEF At, Quiet

LEMMA BuildIfDoes ==
    ASSUME NEW r, At(BuildIf, r)
    PROVE  Leaves(NewIfStmt(Top.collected, made)) /\ Quiet /\ UNCHANGED baseVars
<1>1. item = BuildIf /\ BuildIf.do = "BuildIf"
  BY ItemOfTop, ItemFields DEF BuildIf
<1>2. BuildIfNode
  BY <1>1, ItemsAreDone DEF At
<1>3. Leaves(NewIfStmt(Top.collected, made)) /\ UNCHANGED <<baseVars, treeVars>>
  BY <1>2 DEF BuildIfNode, Return, Leaves
<1> QED
  BY <1>3, SameMoves DEF At, Quiet

LEMMA KeepFunctionDoes ==
    ASSUME NEW r, At(KeepFunction, r)
    PROVE  /\ GoesOn(r, Top.collected) /\ made' = made /\ ast' = ast /\ Moves
           /\ \/ UNCHANGED <<tree, func_defs>>
              \/ made # Null /\ tree' = Lower(tree, made) /\ func_defs' = 1
<1>1. item = KeepFunction /\ KeepFunction.do = "KeepFunction"
  BY ItemOfTop, ItemFields DEF KeepFunction
<1>2. KeepDefinition
  BY <1>1, ItemsAreDone DEF At
<1>3. /\ frames' = With(<<>>, Top.collected) /\ UNCHANGED <<baseVars, made, ast>>
      /\ \/ UNCHANGED <<tree, func_defs>>
         \/ made # Null /\ tree' = Lower(tree, made) /\ func_defs' = 1
  BY <1>1, <1>2 DEF KeepDefinition, Go
<1>4. frames' = Going(r, Top.collected, Tail(frames))
  BY <1>3, ItemOfTop
<1> QED
  BY <1>3, <1>4, SameMoves DEF At, GoesOn

LEMMA KeepMemberDoes ==
    ASSUME NEW kind, NEW r, At(KeepMember(kind), r)
    PROVE  /\ GoesOn(r, Top.collected) /\ made' = made /\ ast' = ast /\ Moves
           /\ func_defs' = func_defs
           /\ tree' = tree \/ (made # Null /\ tree' = Lower(tree, made))
<1>1. item = KeepMember(kind) /\ KeepMember(kind).do = "KeepMember"
  BY ItemOfTop, ItemFields DEF KeepMember
<1>2. KeepClassMember
  BY <1>1, ItemsAreDone DEF At
<1>3. /\ frames' = With(<<>>, Top.collected) /\ UNCHANGED <<baseVars, made, ast, func_defs>>
      /\ tree' = tree \/ (made # Null /\ tree' = Lower(tree, made))
  BY <1>2 DEF KeepClassMember, Go
<1>4. frames' = Going(r, Top.collected, Tail(frames))
  BY <1>3, ItemOfTop
<1> QED
  BY <1>3, <1>4, SameMoves DEF At, GoesOn

LEMMA DeferredDoes ==
    ASSUME NEW q, NEW r, At(Deferred(q), r)
    PROVE  GoesOn(r, Top.collected) /\ made' = made /\ Quiet
<1>1. item = Deferred(q) /\ Deferred(q).do = "Deferred" /\ Deferred(q).with = q
  BY ItemOfTop, ItemFields DEF Deferred
<1>2. SetDeferred
  BY <1>1, ItemsAreDone DEF At
<1>3. frames' = With(<<>>, Top.collected) /\ UNCHANGED <<baseVars, made, treeVars>>
  BY <1>2 DEF SetDeferred, Go
<1>4. frames' = Going(r, Top.collected, Tail(frames))
  BY <1>3, ItemOfTop
<1> QED
  BY <1>3, <1>4, SameMoves DEF At, GoesOn, Quiet

LEMMA InsideDoes ==
    ASSUME NEW q, NEW r, At(Inside(q), r)
    PROVE  GoesOn(r, Top.collected) /\ made' = made /\ Quiet
<1>1. item = Inside(q) /\ Inside(q).do = "Inside" /\ Inside(q).with = q
  BY ItemOfTop, ItemFields DEF Inside
<1>2. SetInside
  BY <1>1, ItemsAreDone DEF At
<1>3. frames' = With(<<>>, Top.collected) /\ UNCHANGED <<baseVars, made, treeVars>>
  BY <1>2 DEF SetInside, Go
<1>4. frames' = Going(r, Top.collected, Tail(frames))
  BY <1>3, ItemOfTop
<1> QED
  BY <1>3, <1>4, SameMoves DEF At, GoesOn, Quiet

LEMMA ClassNameDoes ==
    ASSUME NEW r, At(ClassName, r)
    PROVE  GoesOn(r, Top.collected) /\ made' = made /\ Quiet
<1>1. item = ClassName /\ ClassName.do = "ClassName"
  BY ItemOfTop, ItemFields DEF ClassName
<1>2. AcceptClassName
  BY <1>1, ItemsAreDone DEF At
<1>3. /\ NextToken \/ Error("syntax")
      /\ frames' = With(<<>>, Top.collected) /\ UNCHANGED <<made, treeVars>>
  BY <1>2 DEF AcceptClassName, Accept, Go
<1>4. frames' = Going(r, Top.collected, Tail(frames))
  BY <1>3, ItemOfTop
<1> QED
  BY <1>3, <1>4, NextTokenMoves, ErrorMoves DEF At, GoesOn, Quiet

LEMMA ParentDoes ==
    ASSUME NEW r, At(Parent, r)
    PROVE  GoesOn(r, Top.collected) /\ made' = made /\ Quiet
<1>1. item = Parent /\ Parent.do = "Parent"
  BY ItemOfTop, ItemFields DEF Parent
<1>2. AddParent
  BY <1>1, ItemsAreDone DEF At
<1>3. /\ Error("syntax") \/ UNCHANGED baseVars
      /\ frames' = With(<<>>, Top.collected) /\ UNCHANGED <<made, treeVars>>
  BY <1>2 DEF AddParent, Go
<1>4. frames' = Going(r, Top.collected, Tail(frames))
  BY <1>3, ItemOfTop
<1> QED
  BY <1>3, <1>4, ErrorMoves, SameMoves DEF At, GoesOn, Quiet

LEMMA NewClassDeclDoes ==
    ASSUME NEW r, At(NewClassDecl, r)
    PROVE  Dies \/ (GoesOn(r, Top.collected) /\ made' = made /\ Quiet)
<1>1. item = NewClassDecl /\ NewClassDecl.do = "NewClassDecl"
  BY ItemOfTop, ItemFields DEF NewClassDecl
<1>2. FindParents
  BY <1>1, ItemsAreDone DEF At
<1>3. /\ Die \/ (frames' = With(<<>>, Top.collected) /\ made' = made)
      /\ UNCHANGED <<baseVars, treeVars>>
  BY <1>2 DEF FindParents, Go
<1>4. Quiet
  BY <1>3, SameMoves DEF At, Quiet
<1>5. CASE Die
  BY <1>4, <1>5 DEF Die, Dies
<1>6. CASE frames' = With(<<>>, Top.collected) /\ made' = made
  BY <1>4, <1>6, ItemOfTop DEF GoesOn
<1> QED
  BY <1>3, <1>5, <1>6

(* A class with a null member that is handed on has a function without a   *)
(* body in front of its end.                                               *)
LEMMA NewClassDoes ==
    ASSUME NEW r, At(NewClass, r)
    PROVE  \/ Dies
           \/ /\ GoesOn(r, Top.collected) /\ made' = made /\ ast' = ast /\ Moves
              /\ func_defs' = func_defs
              /\ tree' = tree \/ (num_fatal_errors_ = 1 /\ tree' = Lower(tree, Holed))
<1>1. item = NewClass /\ NewClass.do = "NewClass"
  BY ItemOfTop, ItemFields DEF NewClass
<1>2. EndClass
  BY <1>1, ItemsAreDone DEF At
<1>3. Scanned_ /\ continue_parsing_ \in BOOLEAN /\ num_fatal_errors_ \in {0, 1}
  BY DEF At, Scanned_
<1>4. UNCHANGED <<text, current_position_, token_, errorVars, func_defs, ast>>
  BY <1>2 DEF EndClass, RegNameType, scanVars
<1>5. Moves
  BY <1>3, <1>4, StandingMoves DEF Blames, errorVars
<1>6. CASE \A kind \in null_members : IsFound(kind)
  <2>1. /\ tree' = IF null_members = {} THEN tree ELSE Lower(tree, Holed)
        /\ frames' = With(<<>>, Top.collected) /\ made' = made
    BY <1>2, <1>6 DEF EndClass, Go
  <2>2. null_members # {} => num_fatal_errors_ = 1
    BY <1>3, <1>6 DEF IsFound
  <2> QED
    BY <1>4, <1>5, <2>1, <2>2, ItemOfTop DEF GoesOn
<1>7. CASE ~\A kind \in null_members : IsFound(kind)
  <2>1. Die /\ tree' = tree
    BY <1>2, <1>7 DEF EndClass
  <2> QED
    BY <1>4, <1>5, <2>1 DEF Die, Dies, Quiet, treeVars
<1> QED
  BY <1>6, <1>7

LEMMA BeginDoes ==
    ASSUME NEW r, At(Begin, r)
    PROVE  GoesOn(r, Top.collected) /\ made' = made /\ Quiet
<1>1. item = Begin /\ Begin.do = "Begin"
  BY ItemOfTop, ItemFields DEF Begin
<1>2. ReadFirst
  BY <1>1, ItemsAreDone DEF At
<1>3. NextToken /\ frames' = With(<<>>, Top.collected) /\ UNCHANGED <<made, treeVars>>
  BY <1>2 DEF ReadFirst, Go
<1>4. frames' = Going(r, Top.collected, Tail(frames))
  BY <1>3, ItemOfTop
<1> QED
  BY <1>3, <1>4, NextTokenMoves DEF At, GoesOn, Quiet

LEMMA EnterDoes ==
    ASSUME NEW x, NEW r, At(x, r), NEW todo, Enter(todo)
    PROVE  /\ Quiet /\ UNCHANGED baseVars /\ made' = made
           /\ frames' = IF todo = <<>> THEN Going(r, Top.collected, Tail(frames))
                        ELSE <<Frame(todo, IF x.do = "Call" THEN Nothing ELSE Top.collected)>>
                               \o Going(r, Top.collected, Tail(frames))
<1>1. item = x /\ With(<<>>, Top.collected) = Going(r, Top.collected, Tail(frames))
  BY ItemOfTop
<1>2. /\ UNCHANGED <<baseVars, made, treeVars>>
      /\ frames' = IF todo = <<>> THEN With(<<>>, Top.collected)
                   ELSE <<Frame(todo, IF item.do = "Call" THEN Nothing ELSE Top.collected)>>
                          \o With(<<>>, Top.collected)
  BY DEF Enter
<1>3. Moves
  BY <1>2, SameMoves DEF At
<1> QED
  BY <1>1, <1>2, <1>3 DEF Quiet

-----------------------------------------------------------------------------
(* What a step has to show of the frame it is a step of.                   *)
Within(k, ks) ==
    /\ Scanned_ /\ Trees /\ Next /\ ~Done /\ IsSeq(frames)
    /\ k \in Kinds /\ k # Main /\ ks \in Seq(Kinds)
    /\ Pending(Tail(frames), ks, k, Now)

Steps == Trees' /\ Running(frames', Now')

LEMMA TreesStay ==
    ASSUME Trees, UNCHANGED treeVars, Moves, made' \in {Null, Whole}, frames' # <<>>
    PROVE  Trees'
<1>1. num_fatal_errors_ = 1 => num_fatal_errors_' = 1
  BY NowFields DEF Moves, Onward
<1>2. ~Done'
  BY DEF Done
<1> QED
  BY <1>1, <1>2 DEF Trees, treeVars

LEMMA PendingMoves ==
    ASSUME NEW k, NEW ks, Within(k, ks), Moves
    PROVE  Pending(Tail(frames), ks, k, Now')
BY PendingStays DEF Within, Moves

LEMMA GoingSteps ==
    ASSUME NEW k, NEW ks, Within(k, ks), NEW r, NEW c, GoesOn(r, c), Quiet, made' \in {Null, Whole},
           OnWith(r, c, k, Now')
    PROVE  Steps
<1>1. /\ Pending(Tail(frames), ks, k, Now') /\ k \in Kinds /\ k # Main /\ ks \in Seq(Kinds)
      /\ Moves
  BY PendingMoves DEF Quiet, Within
<1> DEFINE rest == Tail(frames)
           s == Now'
<1>2. Pending(rest, ks, k, s) /\ OnWith(r, c, k, s)
  BY <1>1
<1>3. frames' = Going(r, c, rest)
  BY DEF GoesOn
<1> HIDE DEF rest, s
<1>4. Running(Going(r, c, rest), s) /\ Going(r, c, rest) # <<>>
  BY <1>1, <1>2, FrameGoesOn
<1>5. Trees'
  BY <1>1, <1>3, <1>4, TreesStay DEF Within, Quiet
<1> QED
  BY <1>3, <1>4, <1>5 DEF Steps, s

LEMMA LeavingSteps ==
    ASSUME NEW k, NEW ks, Within(k, ks), NEW v, Leaves(v), Quiet, Promise(k, Now')
    PROVE  Steps
<1>1. GoesOn(<<>>, Nothing)
  BY DEF Leaves, GoesOn, Going
<1>2. made' \in {Null, Whole}
  BY NowFields DEF Promise
<1>3. OnWith(<<>>, Nothing, k, Now')
  BY DEF OnWith
<1> QED
  BY <1>1, <1>2, <1>3, GoingSteps

LEMMA CallingSteps ==
    ASSUME NEW k, NEW ks, Within(k, ks), NEW todo, NEW c0, NEW r, todo # <<>>,
           frames' = <<Frame(todo, c0)>> \o Going(r, Top.collected, Tail(frames)),
           NEW j \in Kinds, j # Main, Ready(todo, c0, j, Now'),
           Keeps(r, Top.collected, k, j, Now'), Quiet, made' = made
    PROVE  Steps
<1>1. /\ Pending(Tail(frames), ks, k, Now') /\ k \in Kinds /\ k # Main /\ ks \in Seq(Kinds)
      /\ Moves
  BY PendingMoves DEF Quiet, Within
<1> DEFINE rest == Tail(frames)
           s == Now'
           c == Top.collected
<1>2. Pending(rest, ks, k, s) /\ Ready(todo, c0, j, s) /\ Keeps(r, c, k, j, s)
  BY <1>1
<1>3. frames' = <<Frame(todo, c0)>> \o Going(r, c, rest)
  OBVIOUS
<1> HIDE DEF rest, s, c
<1>4. /\ Running(<<Frame(todo, c0)>> \o Going(r, c, rest), s)
      /\ <<Frame(todo, c0)>> \o Going(r, c, rest) # <<>>
  BY <1>1, <1>2, EntersFunction
<1>5. Trees'
  BY <1>1, <1>3, <1>4, TreesStay DEF Within, Quiet, Trees
<1> QED
  BY <1>3, <1>4, <1>5 DEF Steps, s

LEMMA WithinItem ==
    ASSUME NEW k, NEW ks, Within(k, ks), NEW x, NEW r, Begins(Top.todo, x, r)
    PROVE  At(x, r) /\ made \in {Null, Whole} /\ k \in Kinds
BY DEF Within, At, Trees

LEMMA KeepingSteps ==
    ASSUME NEW k, NEW ks, Within(k, ks), NEW r, NEW c, GoesOn(r, c), Moves,
           OnWith(r, c, k, Now'), frames' # <<>> => Trees'
    PROVE  Steps
<1>1. /\ Pending(Tail(frames), ks, k, Now') /\ k \in Kinds /\ k # Main /\ ks \in Seq(Kinds)
  BY PendingMoves DEF Within
<1> DEFINE rest == Tail(frames)
           s == Now'
<1>2. Pending(rest, ks, k, s) /\ OnWith(r, c, k, s)
  BY <1>1
<1>3. frames' = Going(r, c, rest)
  BY DEF GoesOn
<1> HIDE DEF rest, s
<1>4. Running(Going(r, c, rest), s) /\ Going(r, c, rest) # <<>>
  BY <1>1, <1>2, FrameGoesOn
<1> QED
  BY <1>3, <1>4 DEF Steps, s

LEMMA ReadyGoes ==
    ASSUME NEW k, NEW ks, Within(k, ks), NEW r, NEW c, r # <<>>, GoesOn(r, c), Quiet,
           made' \in {Null, Whole}, Ready(r, c, k, Now')
    PROVE  Steps
BY GoingSteps DEF OnWith

LEMMA SteadyGoes ==
    ASSUME NEW k, NEW ks, Within(k, ks), NEW r, NEW c, r # <<>>, GoesOn(r, c), Quiet,
           made' = made, Steady(r, c, k, Now)
    PROVE  Steps
<1>1. Steady(r, c, k, Now')
  BY SteadyStays DEF Quiet, Moves
<1>2. Ready(r, c, k, Now') /\ made' \in {Null, Whole}
  BY <1>1 DEF Ready, Within, Trees
<1> QED
  BY <1>2, ReadyGoes

LEMMA SameNow ==
    ASSUME UNCHANGED baseVars, made' = made
    PROVE  Now' = Now
BY DEF Now, baseVars, scanVars, errorVars

(* A function is called: what is promised to it, or that it returns.       *)
LEMMA EnterSteps ==
    ASSUME NEW k, NEW ks, Within(k, ks), NEW x, NEW r, Begins(Top.todo, x, r),
           NEW todo, Enter(todo), NEW c0, c0 = IF x.do = "Call" THEN Nothing ELSE Top.collected,
           NEW j \in Kinds, j # Main,
           todo = <<>> => OnWith(r, Top.collected, k, Now),
           todo # <<>> => Ready(todo, c0, j, Now) /\ Keeps(r, Top.collected, k, j, Now)
    PROVE  Steps
<1>1. At(x, r) /\ made \in {Null, Whole}
  BY WithinItem
<1>2. /\ Quiet /\ UNCHANGED baseVars /\ made' = made
      /\ frames' = IF todo = <<>> THEN Going(r, Top.collected, Tail(frames))
                   ELSE <<Frame(todo, c0)>> \o Going(r, Top.collected, Tail(frames))
  BY <1>1, EnterDoes
<1>3. Now' = Now
  BY <1>2, SameNow
<1>4. CASE todo = <<>>
  BY <1>1, <1>2, <1>3, <1>4, GoingSteps DEF GoesOn
<1>5. CASE todo # <<>>
  <2>1. frames' = <<Frame(todo, c0)>> \o Going(r, Top.collected, Tail(frames))
    BY <1>2, <1>5
  <2>2. Ready(todo, c0, j, Now') /\ Keeps(r, Top.collected, k, j, Now')
    BY <1>3, <1>5
  <2> QED
    BY <1>2, <1>5, <2>1, <2>2, CallingSteps
<1> QED
  BY <1>4, <1>5

-----------------------------------------------------------------------------
(* The functions of which nothing is asked but a node or null.             *)
LEMMA PlainTokenItems ==
    /\ \A t \in PlainTokens : Take(t) \in PlainItems /\ Need(t) \in PlainItems /\ Try(t) \in PlainItems
    /\ Expect({"rcbr"}) \in PlainItems /\ Expect(set_ifelse_) \in PlainItems
    /\ Expect({"semi", "lpar"}) \in PlainItems
    /\ Unreported("undefined") \in PlainItems /\ Unreported("skipped") \in PlainItems
BY DEF PlainItems

LEMMA PlainNodeItems ==
    /\ Fail \in PlainItems /\ Missed \in PlainItems /\ Valid \in PlainItems /\ Unless \in PlainItems
    /\ Collect \in PlainItems /\ Build \in PlainItems /\ NoReturn \in PlainItems
    /\ PlainType \in PlainItems /\ Fatal \in PlainItems /\ ClassName \in PlainItems
    /\ Parent \in PlainItems /\ NewClassDecl \in PlainItems /\ NewClass \in PlainItems
    /\ Declare("class") \in PlainItems /\ Declare("function") \in PlainItems
    /\ Declare("variable") \in PlainItems /\ Declare("member") \in PlainItems
    /\ KeepMember("function") \in PlainItems /\ KeepMember("variable") \in PlainItems
    /\ Inside(TRUE) \in PlainItems /\ Inside(FALSE) \in PlainItems /\ KeepFunction \in PlainItems
    /\ ConsumeUntil("rpar") \in PlainItems /\ Give(Null) \in PlainItems /\ Give(Whole) \in PlainItems
BY DEF PlainItems

LEMMA PlainCallItems ==
    /\ \A f \in PlainFunctions \cup {"Expr"} : Call(f) \in PlainItems
    /\ \A f \in HandedFunctions : Pass(f) \in PlainItems
    /\ \A f \in {"NameList", "NameListPrime"} : Recover(f) \in PlainItems
BY DEF PlainItems

LEMMA PlainSeq ==
    ASSUME NEW d \in Seq(PlainItems), d # <<>>
    PROVE  Head(d) \in PlainItems /\ Tail(d) \in Seq(PlainItems) /\ Begins(d, Head(d), Tail(d))
<1>1. Head(d) \in PlainItems /\ Tail(d) \in Seq(PlainItems)
  BY HeadTailProperties
<1>2. <<>> \o Tail(d) = Tail(d)
  BY <1>1, ConcatEmptySeq
<1> QED
  BY <1>1, <1>2, SeqIsSeq DEF Begins

LEMMA PlainGoesOn ==
    ASSUME NEW r \in Seq(PlainItems), NEW c \in {Nothing, Null, Whole}, NEW s, s.made \in {Null, Whole}
    PROVE  /\ OnWith(r, c, AnyNode, s)
           /\ r # <<>> => Steady(r, c, AnyNode, s)
           /\ \A j : Keeps(r, c, AnyNode, j, s)
<1>1. r # <<>> => Steady(r, c, AnyNode, s)
  BY DEF Steady, AnySteady
<1>2. Promise(AnyNode, s)
  BY KindsDiffer DEF Promise
<1> QED
  BY <1>1, <1>2 DEF OnWith, Keeps, Waits, Ready

(* The bodies of those functions.                                          *)
PlainBody == \E todo \in Seq(PlainItems) : Enter(todo)

LEMMA DefinitionsArePlain ==
    /\ DefList => PlainBody
    /\ ParList => PlainBody
    /\ ParListPrime => PlainBody
    /\ ClassDef_ => PlainBody
    /\ InhtList => PlainBody
    /\ InhtListPrime => PlainBody
    /\ FuncDef_ => PlainBody
    /\ ParseFuncDef => PlainBody
    /\ MemberList => PlainBody
    /\ Member => PlainBody
    /\ BuildNameDecl => PlainBody
<1>1. /\ Call("DefList") \in PlainItems /\ Call("FuncDef_") \in PlainItems /\ Call("ClassDef_") \in PlainItems
      /\ Call("Type") \in PlainItems /\ Call("NameDecl") \in PlainItems
      /\ Call("ParList") \in PlainItems /\ Call("ParListPrime") \in PlainItems
      /\ Call("InhtList") \in PlainItems /\ Call("InhtListPrime") \in PlainItems
      /\ Call("MemberList") \in PlainItems /\ Call("Member") \in PlainItems
      /\ Call("BuildNameDecl") \in PlainItems /\ Call("ParseFuncDef") \in PlainItems
      /\ Call("Stmts") \in PlainItems
  BY PlainCallItems DEF PlainFunctions
<1>2. /\ Take("comma") \in PlainItems /\ Need("class") \in PlainItems /\ Take("lcbr") \in PlainItems
      /\ Take("rcbr") \in PlainItems /\ Take("colon") \in PlainItems /\ Need("comma") \in PlainItems
      /\ Take("name") \in PlainItems /\ Take("lpar") \in PlainItems /\ Take("rpar") \in PlainItems
      /\ Take("semi") \in PlainItems /\ Expect({"semi", "lpar"}) \in PlainItems
  BY PlainTokenItems DEF PlainTokens
<1>3. ASSUME DefList PROVE PlainBody
  <2>1. /\ <<Call("FuncDef_"), KeepFunction, Call("DefList")>> \in Seq(PlainItems)
        /\ <<Call("ClassDef_"), Call("DefList")>> \in Seq(PlainItems)
        /\ <<>> \in Seq(PlainItems) /\ <<Fail>> \in Seq(PlainItems)
    BY <1>1, PlainNodeItems
  <2>2. \/ Enter(<<Call("FuncDef_"), KeepFunction, Call("DefList")>>)
        \/ Enter(<<Call("ClassDef_"), Call("DefList")>>)
        \/ Enter(<<>>) \/ Enter(<<Fail>>)
    BY <1>3 DEF DefList
  <2> QED
    BY <2>1, <2>2 DEF PlainBody
<1>4. ASSUME ParList PROVE PlainBody
  <2>1. /\ <<Call("Type"), Call("NameDecl"), Valid, Call("ParListPrime")>> \in Seq(PlainItems)
        /\ <<>> \in Seq(PlainItems)
    BY <1>1, PlainNodeItems
  <2>2. Enter(<<Call("Type"), Call("NameDecl"), Valid, Call("ParListPrime")>>) \/ Enter(<<>>)
    BY <1>4 DEF ParList
  <2> QED
    BY <2>1, <2>2 DEF PlainBody
<1>5. ASSUME ParListPrime PROVE PlainBody
  <2>1. <<Take("comma"), Call("ParList")>> \in Seq(PlainItems) /\ <<>> \in Seq(PlainItems)
    BY <1>1, <1>2
  <2>2. Enter(<<>>) \/ Enter(<<Take("comma"), Call("ParList")>>)
    BY <1>5 DEF ParListPrime
  <2> QED
    BY <2>1, <2>2 DEF PlainBody
<1>6. ASSUME ClassDef_ PROVE PlainBody
  <2>1. <<Need("class"), ClassName, Declare("class"), Call("InhtList"), NewClassDecl, Take("lcbr"),
          Call("MemberList"), Take("rcbr"), NewClass>> \in Seq(PlainItems)
    BY <1>1, <1>2, PlainNodeItems
  <2> QED
    BY <1>6, <2>1 DEF ClassDef_, PlainBody
<1>7. ASSUME InhtList PROVE PlainBody
  <2>1. /\ <<Take("colon"), Call("Type"), Parent, Call("InhtListPrime")>> \in Seq(PlainItems)
        /\ <<>> \in Seq(PlainItems)
    BY <1>1, <1>2, PlainNodeItems
  <2>2. Enter(<<Take("colon"), Call("Type"), Parent, Call("InhtListPrime")>>) \/ Enter(<<>>)
    BY <1>7 DEF InhtList
  <2> QED
    BY <2>1, <2>2 DEF PlainBody
<1>8. ASSUME InhtListPrime PROVE PlainBody
  <2>1. /\ <<Need("comma"), Call("Type"), Parent, Call("InhtListPrime")>> \in Seq(PlainItems)
        /\ <<>> \in Seq(PlainItems)
    BY <1>1, <1>2, PlainNodeItems
  <2>2. Enter(<<Need("comma"), Call("Type"), Parent, Call("InhtListPrime")>>) \/ Enter(<<>>)
    BY <1>8 DEF InhtListPrime
  <2> QED
    BY <2>1, <2>2 DEF PlainBody
<1>9. ASSUME FuncDef_ PROVE PlainBody
  <2>1. <<Call("Type"), Take("name"), Take("lpar"), Call("ParseFuncDef")>> \in Seq(PlainItems)
    BY <1>1, <1>2
  <2> QED
    BY <1>9, <2>1 DEF FuncDef_, PlainBody
<1>10. ASSUME ParseFuncDef PROVE PlainBody
  <2>1. <<Call("ParList"), Take("rpar"), Declare("function"), Take("lcbr"), Call("Stmts"), Fatal,
          Collect, Take("rcbr"), Build>> \in Seq(PlainItems)
    BY <1>1, <1>2, PlainNodeItems
  <2> QED
    BY <1>10, <2>1 DEF ParseFuncDef, PlainBody
<1>11. ASSUME MemberList PROVE PlainBody
  <2>1. /\ <<Call("Type"), Take("name"), Expect({"semi", "lpar"}), Call("Member"),
             Call("MemberList")>> \in Seq(PlainItems)
        /\ <<>> \in Seq(PlainItems) /\ <<Fail>> \in Seq(PlainItems)
    BY <1>1, <1>2, PlainNodeItems
  <2>2. \/ Enter(<<Call("Type"), Take("name"), Expect({"semi", "lpar"}), Call("Member"), Call("MemberList")>>)
        \/ Enter(<<>>) \/ Enter(<<Fail>>)
    BY <1>11 DEF MemberList
  <2> QED
    BY <2>1, <2>2 DEF PlainBody
<1>12. ASSUME Member PROVE PlainBody
  <2>1. <<Take("semi"), Call("BuildNameDecl"), KeepMember("variable")>> \in Seq(PlainItems)
    BY <1>1, <1>2, PlainNodeItems
  <2>2. \A on, off \in PlainItems : <<Take("lpar"), on, Call("ParseFuncDef"), off,
                                     KeepMember("function")>> \in Seq(PlainItems)
    BY <1>1, <1>2, PlainNodeItems
  <2>3. Inside(TRUE) \in PlainItems /\ Inside(FALSE) \in PlainItems
    BY PlainNodeItems, Zenon
  <2>4. \/ Enter(<<Take("semi"), Call("BuildNameDecl"), KeepMember("variable")>>)
        \/ Enter(<<Take("lpar"), Inside(TRUE), Call("ParseFuncDef"), Inside(FALSE), KeepMember("function")>>)
    BY <1>12 DEF Member
  <2> QED
    BY <2>1, <2>2, <2>3, <2>4 DEF PlainBody
<1>13. ASSUME BuildNameDecl PROVE PlainBody
  <2>1. <<Declare("member"), Give(Whole)>> \in Seq(PlainItems)
    BY PlainNodeItems
  <2> QED
    BY <1>13, <2>1 DEF BuildNameDecl, PlainBody
<1> QED
  BY <1>3, <1>4, <1>5, <1>6, <1>7, <1>8, <1>9, <1>10, <1>11, <1>12, <1>13

LEMMA DeclarationsArePlain ==
    /\ Type => PlainBody
    /\ NameDecl => PlainBody
    /\ NameList => PlainBody
    /\ NameListPrime => PlainBody
    /\ NameAfterComma => PlainBody
    /\ NameListEnd => PlainBody
<1>1. /\ Call("NameDecl") \in PlainItems /\ Pass("NameListPrime") \in PlainItems
      /\ Pass("NameAfterComma") \in PlainItems /\ Pass("NameListEnd") \in PlainItems
      /\ Recover("NameList") \in PlainItems /\ Recover("NameListPrime") \in PlainItems
  BY PlainCallItems DEF PlainFunctions, HandedFunctions
<1>2. /\ Take("void") \in PlainItems /\ Take("int") \in PlainItems /\ Take("bool") \in PlainItems
      /\ Take("ntype") \in PlainItems /\ Try("astk") \in PlainItems /\ Take("name") \in PlainItems
      /\ Take("comma") \in PlainItems
  BY PlainTokenItems DEF PlainTokens
<1>3. ASSUME Type PROVE PlainBody
  <2>1. /\ <<Take("void"), Give(Null)>> \in Seq(PlainItems)
        /\ <<Take("int"), Try("astk"), Give(Null)>> \in Seq(PlainItems)
        /\ <<Take("bool"), Try("astk"), Give(Null)>> \in Seq(PlainItems)
        /\ <<Take("ntype"), PlainType>> \in Seq(PlainItems)
        /\ <<Fail, Give(Null)>> \in Seq(PlainItems)
    BY <1>2, PlainNodeItems
  <2>2. \/ Enter(<<Take("void"), Give(Null)>>)
        \/ token_ \in {"int", "bool"} /\ Enter(<<Take(token_), Try("astk"), Give(Null)>>)
        \/ Enter(<<Take("ntype"), PlainType>>)
        \/ Enter(<<Fail, Give(Null)>>)
    BY <1>3 DEF Type, Check
  <2>3. token_ \in {"int", "bool"} => Take(token_) \in {Take("int"), Take("bool")}
    OBVIOUS
  <2>4. token_ \in {"int", "bool"} => <<Take(token_), Try("astk"), Give(Null)>> \in Seq(PlainItems)
    BY <1>2, <2>3, PlainNodeItems
  <2> QED
    BY <2>1, <2>2, <2>4 DEF PlainBody
<1>4. ASSUME NameDecl PROVE PlainBody
  <2>1. /\ <<Take("name"), Declare("variable"), Give(Whole)>> \in Seq(PlainItems)
        /\ <<Unreported("undefined"), NoReturn>> \in Seq(PlainItems)
    BY <1>2, PlainTokenItems, PlainNodeItems
  <2>2. Enter(<<Take("name"), Declare("variable"), Give(Whole)>>) \/ Enter(<<Unreported("undefined"), NoReturn>>)
    BY <1>4 DEF NameDecl
  <2> QED
    BY <2>1, <2>2 DEF PlainBody
<1>5. ASSUME NameList PROVE PlainBody
  <2>1. /\ <<Call("NameDecl"), Valid, Collect, Pass("NameListPrime"), Unless, Recover("NameList")>>
             \in Seq(PlainItems)
        /\ <<Unreported("skipped"), Recover("NameList")>> \in Seq(PlainItems)
    BY <1>1, PlainTokenItems, PlainNodeItems
  <2>2. \/ Enter(<<Call("NameDecl"), Valid, Collect, Pass("NameListPrime"), Unless, Recover("NameList")>>)
        \/ Enter(<<Unreported("skipped"), Recover("NameList")>>)
    BY <1>5 DEF NameList
  <2> QED
    BY <2>1, <2>2 DEF PlainBody
<1>6. ASSUME NameListPrime PROVE PlainBody
  <2>1. /\ <<Take("comma"), Pass("NameAfterComma")>> \in Seq(PlainItems)
        /\ <<Fail, Pass("NameAfterComma")>> \in Seq(PlainItems)
        /\ <<Pass("NameListEnd")>> \in Seq(PlainItems)
    BY <1>1, <1>2, PlainNodeItems
  <2>2. \/ Enter(<<Take("comma"), Pass("NameAfterComma")>>)
        \/ Enter(<<Fail, Pass("NameAfterComma")>>)
        \/ Enter(<<Pass("NameListEnd")>>)
    BY <1>6 DEF NameListPrime
  <2> QED
    BY <2>1, <2>2 DEF PlainBody
<1>7. ASSUME NameAfterComma PROVE PlainBody
  <2>1. /\ <<Call("NameDecl"), Valid, Collect, Pass("NameListPrime"), Unless, Pass("NameListEnd")>>
             \in Seq(PlainItems)
        /\ <<Pass("NameListEnd")>> \in Seq(PlainItems)
    BY <1>1, PlainNodeItems
  <2>2. \/ Enter(<<Call("NameDecl"), Valid, Collect, Pass("NameListPrime"), Unless, Pass("NameListEnd")>>)
        \/ Enter(<<Pass("NameListEnd")>>)
    BY <1>7 DEF NameAfterComma
  <2> QED
    BY <2>1, <2>2 DEF PlainBody
<1>8. ASSUME NameListEnd PROVE PlainBody
  <2>1. <<Build>> \in Seq(PlainItems) /\ <<Fail, Recover("NameListPrime")>> \in Seq(PlainItems)
    BY <1>1, PlainNodeItems
  <2>2. Enter(<<Build>>) \/ Enter(<<Fail, Recover("NameListPrime")>>)
    BY <1>8 DEF NameListEnd
  <2> QED
    BY <2>1, <2>2 DEF PlainBody
<1> QED
  BY <1>3, <1>4, <1>5, <1>6, <1>7, <1>8

LEMMA StatementsArePlain ==
    /\ Stmts => PlainBody
    /\ WhileStmt => PlainBody
    /\ DeclStmt => PlainBody
    /\ AssignStmt => PlainBody
    /\ ReturnStmt => PlainBody
<1>1. /\ Call("Stmt") \in PlainItems /\ Pass("Stmts") \in PlainItems /\ Call("Expr") \in PlainItems
      /\ Call("Stmts") \in PlainItems /\ Call("Type") \in PlainItems /\ Call("NameList") \in PlainItems
  BY PlainCallItems DEF PlainFunctions, HandedFunctions
<1>2. /\ Take("while") \in PlainItems /\ Need("lpar") \in PlainItems /\ Need("rpar") \in PlainItems
      /\ Need("lcbr") \in PlainItems /\ Need("rcbr") \in PlainItems /\ Take("semi") \in PlainItems
      /\ Need("equl") \in PlainItems /\ Take("return") \in PlainItems
  BY PlainTokenItems DEF PlainTokens
<1>3. ASSUME Stmts PROVE PlainBody
  <2>1. /\ <<Call("Stmt"), Collect, Pass("Stmts")>> \in Seq(PlainItems)
        /\ <<Expect({"rcbr"}), Build>> \in Seq(PlainItems)
    BY <1>1, PlainTokenItems, PlainNodeItems
  <2>2. Enter(<<Call("Stmt"), Collect, Pass("Stmts")>>) \/ Enter(<<Expect({"rcbr"}), Build>>)
    BY <1>3 DEF Stmts
  <2> QED
    BY <2>1, <2>2 DEF PlainBody
<1>4. ASSUME WhileStmt PROVE PlainBody
  <2> DEFINE todo == <<Take("while"), Need("lpar"), Call("Expr"), Missed, Collect, Need("rpar"), Need("lcbr"),
                       Call("Stmts"), Missed, Valid, Collect, Need("rcbr"), Build>>
  <2>1. todo \in Seq(PlainItems)
    BY <1>1, <1>2, PlainNodeItems
  <2>2. Enter(todo)
    BY <1>4 DEF WhileStmt
  <2> QED
    BY <2>1, <2>2 DEF PlainBody
<1>5. ASSUME DeclStmt PROVE PlainBody
  <2>1. <<Call("Type"), Call("NameList"), Collect, Take("semi"), Build>> \in Seq(PlainItems)
    BY <1>1, <1>2, PlainNodeItems
  <2> QED
    BY <1>5, <2>1 DEF DeclStmt, PlainBody
<1>6. ASSUME AssignStmt PROVE PlainBody
  <2>1. <<Call("Expr"), Collect, Need("equl"), Call("Expr"), Collect, Take("semi"), Build>> \in Seq(PlainItems)
    BY <1>1, <1>2, PlainNodeItems
  <2> QED
    BY <1>6, <2>1 DEF AssignStmt, PlainBody
<1>7. ASSUME ReturnStmt PROVE PlainBody
  <2>1. <<Take("return"), Call("Expr"), Collect, Take("semi"), Build>> \in Seq(PlainItems)
    BY <1>1, <1>2, PlainNodeItems
  <2> QED
    BY <1>7, <2>1 DEF ReturnStmt, PlainBody
<1> QED
  BY <1>3, <1>4, <1>5, <1>6, <1>7

LEMMA ArgumentsArePlain ==
    /\ ArgList => PlainBody
    /\ ArgListPrime => PlainBody
    /\ Argument => PlainBody
<1>1. /\ Call("Argument") \in PlainItems /\ Call("ArgListPrime") \in PlainItems /\ Call("Expr") \in PlainItems
      /\ Take("comma") \in PlainItems
  BY PlainCallItems, PlainTokenItems DEF PlainFunctions, PlainTokens
<1>2. /\ <<>> \in Seq(PlainItems) /\ <<Call("Argument")>> \in Seq(PlainItems)
      /\ <<Take("comma"), Call("Argument")>> \in Seq(PlainItems)
      /\ <<Fail, ConsumeUntil("rpar")>> \in Seq(PlainItems)
      /\ <<Call("Expr"), Call("ArgListPrime")>> \in Seq(PlainItems)
  BY <1>1, PlainNodeItems
<1>3. ArgList => Enter(<<>>) \/ Enter(<<Call("Argument")>>)
  BY DEF ArgList
<1>4. ArgListPrime => \/ Enter(<<>>) \/ Enter(<<Take("comma"), Call("Argument")>>)
                      \/ Enter(<<Fail, ConsumeUntil("rpar")>>)
  BY DEF ArgListPrime
<1>5. Argument => Enter(<<Call("Expr"), Call("ArgListPrime")>>) \/ Enter(<<Fail, ConsumeUntil("rpar")>>)
  BY DEF Argument
<1> QED
  BY <1>2, <1>3, <1>4, <1>5 DEF PlainBody

-----------------------------------------------------------------------------
(* Calls.                                                                  *)
LEMMA CallFields ==
    ASSUME NEW f
    PROVE  /\ Call(f).do = "Call" /\ Call(f).with = f
           /\ Pass(f).do = "Pass" /\ Pass(f).with = f
           /\ Prime(f).do = "Prime" /\ Prime(f).with = f
BY ItemFields DEF Call, Pass, Prime

LEMMA BodyBegun ==
    /\ \A s : Steady(IfTodo, Nothing, AnyNode, s)
    /\ IfTodo # <<>>
<1>1. IfTodo = From(IfTodo, 1)
  BY IfItems
<1>2. IfTodo # <<>>
  BY <1>1, IfItems DEF Begins
<1>3. \A s : AnySteady(IfTodo, Nothing, s)
  <2>1. \E n \in 1..3 : IfTodo = From(IfTodo, n)
    BY <1>1
  <2> QED
    BY <2>1 DEF AnySteady
<1> QED
  BY <1>2, <1>3 DEF Steady

LEMMA PlainCallSteps ==
    ASSUME NEW k, NEW ks, Within(k, ks), NEW x, NEW r, Begins(Top.todo, x, r),
           \/ x \in {Call(f) : f \in PlainFunctions}
           \/ x \in {Pass(f) : f \in HandedFunctions} /\ Top.collected \in {Nothing, Null, Whole},
           OnWith(r, Top.collected, k, Now), \A j : Keeps(r, Top.collected, k, j, Now)
    PROVE  Steps
<1> DEFINE c0 == IF x.do = "Call" THEN Nothing ELSE Top.collected
<1>1. At(x, r) /\ made \in {Null, Whole} /\ item = x /\ Next /\ ~Done
  BY WithinItem, ItemOfTop DEF At
<1>2. PICK f \in PlainFunctions \cup HandedFunctions :
        \/ x = Call(f) /\ f \in PlainFunctions
        \/ x = Pass(f) /\ f \in HandedFunctions /\ Top.collected \in {Nothing, Null, Whole}
  OBVIOUS
<1>3. x.do \in {"Call", "Pass"} /\ x.with = f /\ (f \notin HandedFunctions => x.do = "Call")
  BY <1>2, CallFields
<1>4. c0 \in {Nothing, Null, Whole} /\ (f \notin HandedFunctions => c0 = Nothing)
  BY <1>2, <1>3, CallFields
<1>5. \/ PlainBody
      \/ f = "Stmt" /\ Enter(IfTodo)
  <2>1. CASE f \in {"DefList", "FuncDef_", "ParseFuncDef", "ParList", "ParListPrime", "ClassDef_", "InhtList",
                    "InhtListPrime", "MemberList", "Member", "BuildNameDecl"}
    BY <1>1, <1>3, <2>1, CallsAreDone, DefinitionsArePlain
  <2>2. CASE f \in {"Type", "NameDecl", "NameList", "NameListPrime", "NameAfterComma", "NameListEnd"}
    BY <1>1, <1>3, <2>2, CallsAreDone, DeclarationsArePlain
  <2>3. CASE f = "Stmts"
    BY <1>1, <1>3, <2>3, CallsAreDone, StatementsArePlain
  <2>4. CASE f \in {"ArgList", "ArgListPrime", "Argument"}
    BY <1>1, <1>3, <2>4, CallsAreDone, ArgumentsArePlain
  <2>5. CASE f = "Stmt"
    <3>1. IfStmt \/ WhileStmt \/ DeclStmt \/ AssignStmt \/ ReturnStmt
      BY <1>1, <1>3, <2>5, CallsAreDone
    <3>2. IfStmt => Enter(IfTodo)
      BY DEF IfStmt, IfTodo
    <3> QED
      BY <2>5, <3>1, <3>2, StatementsArePlain
  <2> QED
    BY <2>1, <2>2, <2>3, <2>4, <2>5 DEF PlainFunctions, HandedFunctions
<1> HIDE DEF c0
<1>6. c0 = IF x.do = "Call" THEN Nothing ELSE Top.collected
  BY DEF c0
<1>7. Now.made \in {Null, Whole}
  BY <1>1, NowFields
<1>8. AnyNode \in Kinds /\ AnyNode # Main
  BY KindsDiffer
<1>9. CASE PlainBody
  <2> PICK todo \in Seq(PlainItems) : Enter(todo)
    BY <1>9 DEF PlainBody
  <2>1. todo # <<>> => Ready(todo, c0, AnyNode, Now)
    BY <1>4, <1>7, PlainGoesOn DEF Ready
  <2> QED
    BY <1>6, <1>8, <2>1, EnterSteps
<1>10. CASE f = "Stmt" /\ Enter(IfTodo)
  <2>1. c0 = Nothing
    BY <1>4, <1>10 DEF HandedFunctions
  <2>2. Ready(IfTodo, c0, AnyNode, Now) /\ IfTodo # <<>>
    BY <2>1, BodyBegun DEF Ready
  <2> QED
    BY <1>6, <1>8, <1>10, <2>2, EnterSteps
<1> QED
  BY <1>5, <1>9, <1>10

LEMMA LevelCallSteps ==
    ASSUME NEW k, NEW ks, Within(k, ks), NEW g \in DOMAIN Below, NEW r, Begins(Top.todo, Call(g), r),
           NEW b \in BOOLEAN, b => Added(Now), Keeps(r, Top.collected, k, Of(g, b), Now)
    PROVE  Steps
<1>1. At(Call(g), r) /\ item = Call(g) /\ Next /\ ~Done
  BY WithinItem, ItemOfTop DEF At
<1>2. Level
  BY <1>1, CallFields, CallsAreDone
<1>3. Enter(LevelTodo(g))
  BY <1>1, <1>2, CallFields DEF Level, LevelTodo
<1>4. LevelTodo(g) = From(LevelTodo(g), 1) /\ LevelTodo(g) # <<>>
  BY LevelItems DEF Begins
<1>5. LevelSteady(LevelTodo(g), Nothing, g, b, Now)
  BY <1>4 DEF LevelSteady
<1>6. Ready(LevelTodo(g), Nothing, Of(g, b), Now)
  BY <1>5 DEF Ready, Steady
<1>7. Of(g, b) \in Kinds /\ Of(g, b) # Main
  BY KindsDiffer, LevelsBelow
<1> QED
  BY <1>3, <1>4, <1>6, <1>7, CallFields, EnterSteps

-----------------------------------------------------------------------------
(* The steps of the functions of which nothing is asked.                   *)
(* A frame alone, as the first one and the one of a parser that has died.  *)
LEMMA AloneRuns ==
    ASSUME NEW d, NEW s, Steady(d, Nothing, Main, s)
    PROVE  Running(<<Frame(d, Nothing)>>, s) /\ <<Frame(d, Nothing)>> # <<>>
<1> DEFINE fs == <<Frame(d, Nothing)>>
<1>1. IsSeq(<<>>) /\ Len(<<>>) = 0
  BY EmptySeq, SeqIsSeq
<1>2. /\ IsSeq(fs \o <<>>) /\ fs \o <<>> # <<>>
      /\ Head(fs \o <<>>) = Frame(d, Nothing) /\ Tail(fs \o <<>>) = <<>>
  BY <1>1, PushIsSeq
<1>3. fs \o <<>> = fs
  OBVIOUS
<1>4. IsSeq(fs) /\ fs # <<>> /\ Head(fs) = Frame(d, Nothing) /\ Tail(fs) = <<>>
  BY <1>2, <1>3
<1>5. Pending(<<>>, <<>>, Main, s)
  BY <1>1 DEF Pending
<1>6. Ready(Head(fs).todo, Head(fs).collected, Main, s)
  BY <1>4 DEF Ready, Frame
<1>7. Main \in Kinds /\ <<>> \in Seq(Kinds)
  BY KindsDiffer, EmptySeq
<1> QED
  BY <1>4, <1>5, <1>6, <1>7 DEF Running

LEMMA DyingSteps ==
    ASSUME Trees, Dies
    PROVE  Steps
<1>1. Steady(<<Died>>, Nothing, Main, Now')
  BY DEF Steady
<1>2. Running(frames', Now') /\ frames' # <<>>
  BY <1>1, AloneRuns DEF Dies
<1>3. Trees'
  BY <1>2, TreesStay DEF Dies, Quiet, Trees
<1> QED
  BY <1>2, <1>3 DEF Steps

LEMMA PlainSettles ==
    ASSUME NEW ks, Within(AnyNode, ks), NEW r \in Seq(PlainItems), Quiet, made' \in {Null, Whole},
           \/ frames' = Tail(frames)
           \/ \E c \in {Nothing, Null, Whole} : GoesOn(r, c)
    PROVE  Steps
<1>1. CASE frames' = Tail(frames)
  <2>1. Leaves(made')
    BY <1>1 DEF Leaves
  <2>2. Promise(AnyNode, Now')
    BY KindsDiffer, NowFields DEF Promise
  <2>3. GoesOn(<<>>, Nothing)
    BY <1>1 DEF GoesOn, Going
  <2>4. OnWith(<<>>, Nothing, AnyNode, Now')
    BY <2>2 DEF OnWith
  <2> QED
    BY <2>3, <2>4, GoingSteps
<1>2. ASSUME NEW c \in {Nothing, Null, Whole}, GoesOn(r, c) PROVE Steps
  <2>1. OnWith(r, c, AnyNode, Now')
    BY NowFields, PlainGoesOn
  <2> QED
    BY <1>2, <2>1, GoingSteps
<1> QED
  BY <1>1, <1>2

LEMMA PlainKeeps ==
    ASSUME NEW ks, Within(AnyNode, ks), NEW r \in Seq(PlainItems), NEW c \in {Nothing, Null, Whole},
           GoesOn(r, c), made' = made, ast' = ast, Moves, func_defs' \in {1, func_defs},
           \/ UNCHANGED <<tree, func_defs>>
           \/ made # Null /\ tree' = Lower(tree, made)
           \/ num_fatal_errors_ = 1 /\ tree' = Lower(tree, Holed)
    PROVE  Steps
<1>1. Trees
  BY DEF Within
<1>2. num_fatal_errors_ = 1 => num_fatal_errors_' = 1
  BY NowFields DEF Moves, Onward
<1>3. ASSUME frames' # <<>> PROVE Trees'
  <2>1. ~Done' /\ func_defs' \in {0, 1}
    BY <1>1, <1>3 DEF Done, Trees
  <2>2. CASE UNCHANGED <<tree, func_defs>>
    BY <1>1, <1>2, <2>1, <2>2 DEF Trees
  <2>3. CASE made # Null /\ tree' = Lower(tree, made)
    <3>1. made = Whole
      BY <1>1, <2>3 DEF Trees
    <3>2. tree' = (IF tree < 2 THEN tree ELSE 2) /\ tree \in {3, 1, 2}
      BY <1>1, <2>3, <3>1 DEF Trees, Lower, Whole, Nothing, Holed
    <3>3. (tree' = 1 /\ tree = 1) \/ tree' = 2
      BY <3>2
    <3>4. tree' # Nothing /\ tree' \in {Nothing, Holed, Whole} /\ (tree' = Holed => tree = Holed)
      BY <3>3 DEF Nothing, Holed, Whole
    <3> QED
      BY <1>1, <1>2, <2>1, <3>4 DEF Trees
  <2>4. CASE num_fatal_errors_ = 1 /\ tree' = Lower(tree, Holed)
    <3>1. tree' = (IF tree < 1 THEN tree ELSE 1) /\ tree \in {3, 1, 2}
      BY <1>1, <2>4 DEF Trees, Lower, Whole, Nothing, Holed
    <3>2. tree' = 1
      BY <3>1
    <3>3. tree' # Nothing /\ tree' \in {Nothing, Holed, Whole}
      BY <3>2 DEF Nothing, Holed, Whole
    <3> QED
      BY <1>1, <1>2, <2>1, <2>4, <3>3 DEF Trees
  <2> QED
    BY <2>2, <2>3, <2>4
<1>4. OnWith(r, c, AnyNode, Now')
  <2>1. made' \in {Null, Whole}
    BY <1>1 DEF Trees
  <2> QED
    BY <2>1, NowFields, PlainGoesOn
<1> QED
  BY <1>3, <1>4, KeepingSteps

LEMMA PlainSteps ==
    ASSUME NEW ks, Within(AnyNode, ks), Claimed', Top.todo \in Seq(PlainItems), Top.todo # <<>>,
           Top.collected \in {Nothing, Null, Whole}
    PROVE  Steps
<1> DEFINE x == Head(Top.todo)
           r == Tail(Top.todo)
           c == Top.collected
<1>1. x \in PlainItems /\ r \in Seq(PlainItems) /\ Begins(Top.todo, x, r)
  BY PlainSeq
<1>2. At(x, r) /\ made \in {Null, Whole} /\ c \in {Nothing, Null, Whole} /\ c = Top.collected
  BY <1>1, WithinItem
<1> HIDE DEF x, r, c
<1>3. CASE x \in {Take(t) : t \in PlainTokens} \cup {Need(t) : t \in PlainTokens} \cup {Try(t) : t \in PlainTokens}
  <2>1. PICK t \in PlainTokens : x = Take(t) \/ x = Need(t) \/ x = Try(t)
    BY <1>3
  <2>2. Quiet /\ made' \in {Null, Whole} /\ (frames' = Tail(frames) \/ GoesOn(r, c))
    BY <1>2, <2>1, TakeDoes, NeedDoes, TryDoes DEF Leaves
  <2> QED
    BY <1>1, <1>2, <2>2, PlainSettles
<1>4. CASE x \in {Expect({"rcbr"}), Expect(set_ifelse_), Expect({"semi", "lpar"})}
  <2>1. Quiet /\ made' \in {Null, Whole} /\ (frames' = Tail(frames) \/ GoesOn(r, c))
    BY <1>2, <1>4, ExpectDoes DEF Leaves
  <2> QED
    BY <1>1, <1>2, <2>1, PlainSettles
<1>5. CASE x \in {Unreported(kind) : kind \in {"undefined", "skipped"}}
  <2>1. Quiet /\ made' \in {Null, Whole} /\ GoesOn(r, c)
    BY <1>2, <1>5, UnreportedDoes
  <2> QED
    BY <1>1, <1>2, <2>1, PlainSettles
<1>6. ASSUME \/ x \in {Call(f) : f \in PlainFunctions}
             \/ x \in {Pass(f) : f \in HandedFunctions}
      PROVE  Steps
  <2>1. Now.made \in {Null, Whole}
    BY <1>2, NowFields
  <2>2. OnWith(r, c, AnyNode, Now) /\ \A j : Keeps(r, c, AnyNode, j, Now)
    BY <1>1, <1>2, <2>1, PlainGoesOn
  <2> QED
    BY <1>1, <1>2, <1>6, <2>2, PlainCallSteps
<1>7. CASE x = Call("Expr")
  <2>1. Now.made \in {Null, Whole}
    BY <1>2, NowFields
  <2>2. \A j : Keeps(r, c, AnyNode, j, Now)
    BY <1>1, <1>2, <2>1, PlainGoesOn
  <2>3. "Expr" \in DOMAIN Below
    BY Tables
  <2>4. PICK b \in BOOLEAN : b = FALSE
    OBVIOUS
  <2>5. Keeps(r, c, AnyNode, Of("Expr", b), Now)
    BY <2>2
  <2> QED
    BY <1>1, <1>2, <1>7, <2>3, <2>4, <2>5, LevelCallSteps
<1>8. CASE x \in {Recover(f) : f \in {"NameList", "NameListPrime"}}
  <2> PICK f \in {"NameList", "NameListPrime"} : x = Recover(f)
    BY <1>8
  <2>1. /\ Quiet
        /\ (GoesOn(<<Pass(f)>> \o r, c) /\ made' = made) \/ Leaves(Null)
    BY <1>2, RecoverDoes
  <2>2. <<Pass(f)>> \o r \in Seq(PlainItems)
    <3>1. Pass(f) \in PlainItems
      BY PlainCallItems DEF HandedFunctions
    <3>2. <<Pass(f)>> \in Seq(PlainItems)
      BY <3>1
    <3> QED
      BY <1>1, <3>2, ConcatProperties
  <2>3. made' \in {Null, Whole}
    BY <1>2, <2>1 DEF Leaves
  <2>4. CASE Leaves(Null)
    BY <1>1, <2>1, <2>3, <2>4, PlainSettles DEF Leaves
  <2>5. CASE GoesOn(<<Pass(f)>> \o r, c)
    BY <1>2, <2>1, <2>2, <2>3, <2>5, PlainSettles
  <2> QED
    BY <2>1, <2>4, <2>5
<1>9. CASE x \in {Fail, Missed, Fatal, ClassName, Parent} \cup {Inside(b) : b \in BOOLEAN}
  <2>1. Quiet /\ made' \in {Null, Whole} /\ GoesOn(r, c)
    BY <1>2, <1>9, FailDoes, MissedDoes, FatalDoes, ClassNameDoes, ParentDoes, InsideDoes
  <2> QED
    BY <1>1, <1>2, <2>1, PlainSettles
<1>10. CASE x \in {Valid, Unless}
  <2>1. Quiet /\ made' \in {Null, Whole} /\ (frames' = Tail(frames) \/ GoesOn(r, c))
    BY <1>2, <1>10, ValidDoes, UnlessDoes DEF Leaves
  <2> QED
    BY <1>1, <1>2, <2>1, PlainSettles
<1>11. CASE x \in {NoReturn, PlainType}
  <2>1. Quiet /\ made' \in {Null, Whole} /\ frames' = Tail(frames)
    BY <1>2, <1>11, NoReturnDoes, PlainTypeDoes DEF Leaves
  <2> QED
    BY <1>1, <2>1, PlainSettles
<1>12. CASE x = Collect
  <2>1. Quiet /\ made' \in {Null, Whole} /\ GoesOn(r, Lower(c, made))
    BY <1>2, <1>12, CollectDoes
  <2>2. Lower(c, made) \in {Nothing, Null, Whole}
    BY <1>2 DEF Lower
  <2> QED
    BY <1>1, <2>1, <2>2, PlainSettles
<1>13. CASE x = Build
  <2>1. Quiet /\ Leaves(NewNode(c))
    BY <1>2, <1>13, BuildDoes
  <2>2. NewNode(c) \in {Null, Whole}
    BY <1>2 DEF NewNode
  <2> QED
    BY <1>1, <2>1, <2>2, PlainSettles DEF Leaves
<1>14. CASE x \in {Give(Null), Give(Whole)}
  <2>1. Quiet /\ made' \in {Null, Whole} /\ frames' = Tail(frames)
    BY <1>2, <1>14, GiveDoes DEF Leaves
  <2> QED
    BY <1>1, <2>1, PlainSettles
<1>15. CASE x = KeepFunction
  <2>1. /\ GoesOn(r, c) /\ made' = made /\ ast' = ast /\ Moves
        /\ \/ UNCHANGED <<tree, func_defs>>
           \/ made # Null /\ tree' = Lower(tree, made) /\ func_defs' = 1
    BY <1>2, <1>15, KeepFunctionDoes
  <2> QED
    BY <1>1, <1>2, <2>1, PlainKeeps
<1>16. CASE x = ConsumeUntil("rpar")
  <2>1. Quiet /\ made' = made /\ (frames' = frames \/ GoesOn(r, c))
    BY <1>2, <1>16, ConsumeUntilDoes
  <2>2. CASE GoesOn(r, c)
    BY <1>1, <1>2, <2>1, <2>2, PlainSettles
  <2>3. CASE frames' = frames
    <3>1. IsSeq(frames) /\ frames # <<>> /\ Trees /\ AnyNode \in Kinds /\ ks \in Seq(Kinds) /\ Moves
      BY <2>1 DEF Within, Quiet, Done
    <3>2. Pending(Tail(frames), ks, AnyNode, Now')
      BY <3>1, PendingMoves
    <3>3. Ready(Head(frames).todo, Head(frames).collected, AnyNode, Now')
      BY <1>2 DEF Top, c, Ready, Steady, AnySteady
    <3>4. Running(frames', Now')
      BY <2>3, <3>1, <3>2, <3>3 DEF Running
    <3>5. Trees'
      BY <1>2, <2>1, <2>3, <3>1, TreesStay DEF Quiet
    <3> QED
      BY <3>4, <3>5 DEF Steps
  <2> QED
    BY <2>1, <2>2, <2>3
<1>17. CASE x \in {KeepMember(kind) : kind \in {"function", "variable"}}
  <2>1. /\ GoesOn(r, c) /\ made' = made /\ ast' = ast /\ Moves /\ func_defs' = func_defs
        /\ tree' = tree \/ (made # Null /\ tree' = Lower(tree, made))
    BY <1>2, <1>17, KeepMemberDoes
  <2> QED
    BY <1>1, <1>2, <2>1, PlainKeeps
<1>18. CASE x \in {Declare(what) : what \in {"class", "function", "variable", "member"}} \cup {NewClassDecl}
  <2>1. Dies \/ (GoesOn(r, c) /\ made' = made /\ Quiet)
    BY <1>2, <1>18, DeclareDoes, NewClassDeclDoes
  <2>2. Dies => Steps
    BY DyingSteps DEF Within
  <2> QED
    BY <1>1, <1>2, <2>1, <2>2, PlainSettles
<1>19. CASE x = NewClass
  <2>1. \/ Dies
        \/ /\ GoesOn(r, c) /\ made' = made /\ ast' = ast /\ Moves /\ func_defs' = func_defs
           /\ tree' = tree \/ (num_fatal_errors_ = 1 /\ tree' = Lower(tree, Holed))
    BY <1>2, <1>19, NewClassDoes
  <2>2. Dies => Steps
    BY DyingSteps DEF Within
  <2> QED
    BY <1>1, <1>2, <2>1, <2>2, PlainKeeps
<1> QED
  BY <1>1, <1>3, <1>4, <1>5, <1>6, <1>7, <1>8, <1>9, <1>10, <1>11, <1>12, <1>13, <1>14, <1>15, <1>16,
     <1>17, <1>18, <1>19
  DEF PlainItems

-----------------------------------------------------------------------------
(* What the steps of the other functions keep showing.                     *)
LEMMA AnyLeaves ==
    ASSUME NEW ks, Within(AnyNode, ks), NEW v \in {Null, Whole}, Leaves(v), Quiet
    PROVE  Steps
<1>1. Promise(AnyNode, Now')
  BY KindsDiffer, NowFields DEF Promise, Leaves
<1> QED
  BY <1>1, LeavingSteps

LEMMA SteadyKeeps ==
    ASSUME NEW r, NEW c, NEW k, NEW s, r # <<>>, Steady(r, c, k, s)
    PROVE  OnWith(r, c, k, s) /\ \A j : Keeps(r, c, k, j, s)
BY DEF OnWith, Keeps, Waits, Ready

LEMMA ReturnsStay ==
    ASSUME NEW s, NEW t, Onward(s, t), t.token = s.token
    PROVE  \A f, b, v : Returns(f, b, v, s) => Returns(f, b, v, t)
<1>1. Stopped(s) => Stopped(t)
  BY SeenStays
<1> QED
  BY <1>1 DEF Returns, Refused

LEMMA ReturnedRefuses ==
    ASSUME NEW f, NEW b, NEW v \in {Null, Whole}, NEW s, Returns(f, b, v, s)
    PROVE  NullRefuses(v, b, s)
BY DEF Returns, NullRefuses

LEMMA RefusedStops ==
    ASSUME NEW b, NEW c, NEW s, NullRefuses(c, b, s), s.token = "rpar"
    PROVE  NullStops(c, s)
<1>1. ~Refused(b, s)
  BY DEF Refused, set_argm_
<1> QED
  BY <1>1 DEF NullRefuses, NullStops

LEMMA IfFrames ==
    ASSUME NEW s
    PROVE  /\ \A n \in 1..3 : Steady(From(IfTodo, n), Nothing, AnyNode, s)
           /\ \A n \in {7, 8, 9, 10, 12, 13} : \A c : NullStops(c, s) => Steady(From(IfTodo, n), c, AnyNode, s)
           /\ Steady(From(IfTodo, 14), Whole, AnyNode, s)
<1>1. \A n \in 1..3 : AnySteady(From(IfTodo, n), Nothing, s)
  BY DEF AnySteady
<1>2. \A n \in {7, 8, 9, 10, 12, 13} : \A c : NullStops(c, s) => AnySteady(From(IfTodo, n), c, s)
  BY DEF AnySteady
<1>3. AnySteady(From(IfTodo, 14), Whole, s)
  BY DEF AnySteady
<1> QED
  BY <1>1, <1>2, <1>3 DEF Steady

(* What is left of a body is not nothing.                                  *)
LEMMA NotAtTheEnd ==
    ASSUME NEW d, NEW x, NEW r, Begins(d, x, r)
    PROVE  d # <<>>
BY DEF Begins

-----------------------------------------------------------------------------
(* The steps of an if.                                                     *)
LEMMA IfCondition ==
    ASSUME NEW ks, Within(AnyNode, ks),
           \/ \E n \in 1..3 : Top.todo = From(IfTodo, n) /\ Top.collected = Nothing
           \/ /\ \E n \in {4, 5} : Top.todo = From(IfTodo, n)
              /\ Top.collected = Nothing /\ Returns("Expr", FALSE, made, Now)
           \/ Top.todo = From(IfTodo, 6) /\ NullRefuses(Top.collected, FALSE, Now)
    PROVE  Steps
<1> DEFINE c == Top.collected
<1>1. CASE Top.todo = From(IfTodo, 1) /\ c = Nothing
  <2>1. GoesOn(From(IfTodo, 2), c) /\ made' = made /\ Quiet
    BY <1>1, IfItems, WithinItem, TakeDoes
  <2> QED
    BY <1>1, <2>1, IfItems, NotAtTheEnd, IfFrames, SteadyGoes
<1>2. CASE Top.todo = From(IfTodo, 2) /\ c = Nothing
  <2>1. /\ Quiet
        /\ (GoesOn(From(IfTodo, 3), c) /\ made' = made) \/ Leaves(Null)
    BY <1>2, IfItems, WithinItem, NeedDoes
  <2>2. CASE Leaves(Null)
    BY <2>1, <2>2, AnyLeaves
  <2>3. CASE GoesOn(From(IfTodo, 3), c) /\ made' = made
    BY <1>2, <2>1, <2>3, IfItems, NotAtTheEnd, IfFrames, SteadyGoes
  <2> QED
    BY <2>1, <2>2, <2>3
<1>3. CASE Top.todo = From(IfTodo, 3) /\ c = Nothing
  <2>1. PICK b \in BOOLEAN : b = FALSE
    OBVIOUS
  <2>2. AnyAwaits(From(IfTodo, 4), c, Of("Expr", b), Now)
    BY <1>3, <2>1 DEF AnyAwaits
  <2>3. Keeps(From(IfTodo, 4), c, AnyNode, Of("Expr", b), Now)
    BY <2>2, IfItems, NotAtTheEnd DEF Keeps, Waits, Awaits
  <2>4. Begins(Top.todo, Call("Expr"), From(IfTodo, 4)) /\ "Expr" \in DOMAIN Below
    BY <1>3, IfItems, Tables
  <2> QED
    BY <2>1, <2>3, <2>4, LevelCallSteps
<1>4. CASE Top.todo = From(IfTodo, 4) /\ c = Nothing /\ Returns("Expr", FALSE, made, Now)
  <2>1. GoesOn(From(IfTodo, 5), c) /\ made' = made /\ Quiet /\ token_' = token_
    BY <1>4, IfItems, WithinItem, MissedDoes
  <2>2. Returns("Expr", FALSE, made, Now')
    <3>1. Onward(Now, Now') /\ Now'.token = Now.token
      BY <2>1, NowFields DEF Quiet, Moves
    <3> QED
      BY <1>4, <3>1, ReturnsStay
  <2>3. AnyReady(From(IfTodo, 5), c, Now')
    BY <1>4, <2>1, <2>2, NowFields DEF AnyReady
  <2>4. made' \in {Null, Whole}
    BY <1>4, <2>1, IfItems, WithinItem
  <2> QED
    BY <2>1, <2>3, <2>4, IfItems, NotAtTheEnd, ReadyGoes DEF Ready
<1>5. CASE Top.todo = From(IfTodo, 5) /\ c = Nothing /\ Returns("Expr", FALSE, made, Now)
  <2>1. /\ GoesOn(From(IfTodo, 6), Lower(c, made)) /\ made' = made /\ Quiet /\ UNCHANGED baseVars
        /\ made \in {Null, Whole}
    BY <1>5, IfItems, WithinItem, CollectDoes
  <2>2. Lower(c, made) = made
    BY <1>5, <2>1 DEF Lower, Nothing, Null, Whole
  <2>3. NullRefuses(made, FALSE, Now')
    BY <1>5, <2>1, SameNow, ReturnedRefuses
  <2>4. AnyReady(From(IfTodo, 6), made, Now')
    BY <2>3 DEF AnyReady
  <2> QED
    BY <2>1, <2>2, <2>4, IfItems, NotAtTheEnd, ReadyGoes DEF Ready
<1>6. CASE Top.todo = From(IfTodo, 6) /\ NullRefuses(c, FALSE, Now)
  <2>1. /\ Quiet
        /\ (token_ = "rpar" /\ GoesOn(From(IfTodo, 7), c) /\ made' = made) \/ Leaves(Null)
    BY <1>6, IfItems, WithinItem, NeedDoes
  <2>2. CASE Leaves(Null)
    BY <2>1, <2>2, AnyLeaves
  <2>3. CASE token_ = "rpar" /\ GoesOn(From(IfTodo, 7), c) /\ made' = made
    <3>1. NullStops(c, Now)
      BY <1>6, <2>3, NowFields, RefusedStops
    <3>2. Steady(From(IfTodo, 7), c, AnyNode, Now)
      BY <3>1, IfFrames
    <3> QED
      BY <2>1, <2>3, <3>2, IfItems, NotAtTheEnd, SteadyGoes
  <2> QED
    BY <2>1, <2>2, <2>3
<1>7. \A n \in 1..3 : n = 1 \/ n = 2 \/ n = 3
  OBVIOUS
<1> QED
  BY <1>1, <1>2, <1>3, <1>4, <1>5, <1>6, <1>7, Zenon

LEMMA IfBranches ==
    ASSUME NEW ks, Within(AnyNode, ks),
           \/ /\ \E n \in {7, 8, 9, 10, 12} : Top.todo = From(IfTodo, n)
              /\ NullStops(Top.collected, Now)
           \/ Top.todo = From(IfTodo, 11) /\ NullStops(Top.collected, Now) /\ made = Whole
    PROVE  Steps
<1> DEFINE c == Top.collected
<1>0. NullStops(c, Now)
  OBVIOUS
<1>1. CASE Top.todo = From(IfTodo, 7)
  <2>1. /\ Quiet
        /\ (GoesOn(From(IfTodo, 8), c) /\ made' = made) \/ Leaves(Null)
    BY <1>1, IfItems, WithinItem, NeedDoes
  <2>2. CASE Leaves(Null)
    BY <2>1, <2>2, AnyLeaves
  <2>3. CASE GoesOn(From(IfTodo, 8), c) /\ made' = made
    BY <1>0, <2>1, <2>3, IfItems, NotAtTheEnd, IfFrames, SteadyGoes
  <2> QED
    BY <2>1, <2>2, <2>3
<1>2. CASE Top.todo = From(IfTodo, 8)
  <2>1. Begins(Top.todo, Call("Stmts"), From(IfTodo, 9)) /\ "Stmts" \in PlainFunctions
    BY <1>2, IfItems DEF PlainFunctions
  <2>2. OnWith(From(IfTodo, 9), c, AnyNode, Now) /\ \A j : Keeps(From(IfTodo, 9), c, AnyNode, j, Now)
    BY <1>0, IfItems, NotAtTheEnd, IfFrames, SteadyKeeps
  <2> QED
    BY <2>1, <2>2, PlainCallSteps
<1>3. CASE Top.todo = From(IfTodo, 9)
  <2>1. GoesOn(From(IfTodo, 10), c) /\ made' = made /\ Quiet
    BY <1>3, IfItems, WithinItem, MissedDoes
  <2> QED
    BY <1>0, <2>1, IfItems, NotAtTheEnd, IfFrames, SteadyGoes
<1>4. CASE Top.todo = From(IfTodo, 10)
  <2>1. /\ Quiet /\ UNCHANGED baseVars
        /\ (GoesOn(From(IfTodo, 11), c) /\ made' = made /\ made # Null) \/ Leaves(Null)
        /\ made \in {Null, Whole}
    BY <1>4, IfItems, WithinItem, ValidDoes
  <2>2. CASE Leaves(Null)
    BY <2>1, <2>2, AnyLeaves
  <2>3. CASE GoesOn(From(IfTodo, 11), c) /\ made' = made /\ made # Null
    <3>1. NullStops(c, Now') /\ Now'.made = Whole
      BY <1>0, <2>1, <2>3, SameNow, NowFields
    <3>2. AnyReady(From(IfTodo, 11), c, Now')
      BY <3>1 DEF AnyReady
    <3> QED
      BY <2>1, <2>3, <3>2, IfItems, NotAtTheEnd, ReadyGoes DEF Ready
  <2> QED
    BY <2>1, <2>2, <2>3
<1>5. CASE Top.todo = From(IfTodo, 11) /\ made = Whole
  <2>1. GoesOn(From(IfTodo, 12), Lower(c, made)) /\ made' = made /\ Quiet
    BY <1>5, IfItems, WithinItem, CollectDoes
  <2>2. Lower(c, made) = c
    BY <1>0, <1>5 DEF Lower, NullStops, Null, Whole
  <2> QED
    BY <1>0, <2>1, <2>2, IfItems, NotAtTheEnd, IfFrames, SteadyGoes
<1>6. CASE Top.todo = From(IfTodo, 12)
  <2>1. /\ Quiet
        /\ (GoesOn(From(IfTodo, 13), c) /\ made' = made) \/ Leaves(Null)
    BY <1>6, IfItems, WithinItem, NeedDoes
  <2>2. CASE Leaves(Null)
    BY <2>1, <2>2, AnyLeaves
  <2>3. CASE GoesOn(From(IfTodo, 13), c) /\ made' = made
    BY <1>0, <2>1, <2>3, IfItems, NotAtTheEnd, IfFrames, SteadyGoes
  <2> QED
    BY <2>1, <2>2, <2>3
<1> QED
  BY <1>1, <1>2, <1>3, <1>4, <1>5, <1>6

(* An else is only looked for where the parser goes on, and then the parts *)
(* before it are whole.                                                    *)
LEMMA IfElses ==
    ASSUME NEW ks, Within(AnyNode, ks),
           \/ Top.todo = From(IfTodo, 13) /\ NullStops(Top.collected, Now)
           \/ Top.todo = From(IfTodo, 14) /\ Top.collected = Whole
           \/ Top.todo = From(IfTodo, 14) /\ NullStops(Top.collected, Now) /\ made = Null
    PROVE  Steps
<1> DEFINE c == Top.collected
<1>1. CASE Top.todo = From(IfTodo, 13) /\ NullStops(c, Now)
  <2>1. /\ Begins(Top.todo, Call("IfElse"), From(IfTodo, 14)) /\ From(IfTodo, 14) # <<>>
        /\ Call("IfElse").do = "Call" /\ Call("IfElse").with = "IfElse"
    BY <1>1, IfItems, NotAtTheEnd, CallFields
  <2>2. At(Call("IfElse"), From(IfTodo, 14)) /\ made \in {Null, Whole}
    BY <2>1, WithinItem
  <2>3. IfElse
    BY <2>1, <2>2, ItemOfTop, CallsAreDone DEF At
  <2>4. CASE continue_parsing_ = FALSE
    <3>1. Enter(NoElseTodo)
      BY <2>3, <2>4 DEF IfElse, NoElseTodo
    <3>2. Ready(NoElseTodo, Nothing, NoElse, Now) /\ NoElseTodo # <<>>
      BY NoElseItems, NotAtTheEnd DEF Ready, Steady
    <3>3. AnyAwaits(From(IfTodo, 14), c, NoElse, Now)
      BY <1>1 DEF AnyAwaits
    <3>4. Keeps(From(IfTodo, 14), c, AnyNode, NoElse, Now)
      BY <2>1, <3>3 DEF Keeps, Waits, Awaits
    <3> QED
      BY <2>1, <3>1, <3>2, <3>4, KindsDiffer, EnterSteps
  <2>5. CASE continue_parsing_ # FALSE
    <3>1. continue_parsing_ \in BOOLEAN
      BY DEF Within, Scanned_
    <3>2. \/ Enter(<<Take("else"), Take("lcbr"), Call("Stmts"), Missed, Collect, Take("rcbr"), Build>>)
          \/ Enter(<<Expect(set_ifelse_), Give(Null)>>)
      BY <2>3, <2>5, <3>1 DEF IfElse
    <3>3. /\ <<Take("else"), Take("lcbr"), Call("Stmts"), Missed, Collect, Take("rcbr"), Build>>
               \in Seq(PlainItems)
          /\ <<Expect(set_ifelse_), Give(Null)>> \in Seq(PlainItems)
      <4>1. /\ Take("else") \in PlainItems /\ Take("lcbr") \in PlainItems /\ Take("rcbr") \in PlainItems
            /\ Call("Stmts") \in PlainItems /\ Expect(set_ifelse_) \in PlainItems
        BY PlainTokenItems, PlainCallItems DEF PlainTokens, PlainFunctions
      <4> QED
        BY <4>1, PlainNodeItems
    <3> PICK todo \in Seq(PlainItems) : Enter(todo)
      BY <3>2, <3>3
    <3>4. c = Whole
      BY <1>1, <2>5, NowFields DEF NullStops, Stopped
    <3>5. /\ OnWith(From(IfTodo, 14), c, AnyNode, Now)
          /\ Keeps(From(IfTodo, 14), c, AnyNode, AnyNode, Now)
      BY <2>1, <3>4, IfFrames, SteadyKeeps
    <3>6. todo # <<>> => Ready(todo, Nothing, AnyNode, Now)
      BY <2>2, NowFields, PlainGoesOn DEF Ready
    <3> QED
      BY <2>1, <3>5, <3>6, KindsDiffer, EnterSteps
  <2> QED
    BY <2>4, <2>5
<1>2. CASE /\ Top.todo = From(IfTodo, 14)
           /\ c = Whole \/ (NullStops(c, Now) /\ made = Null)
  <2>1. Leaves(NewIfStmt(c, made)) /\ Quiet /\ made \in {Null, Whole}
    BY <1>2, IfItems, WithinItem, BuildIfDoes
  <2>2. NewIfStmt(c, made) \in {Null, Whole}
    BY <1>2, <2>1 DEF NewIfStmt, NullStops, Lower, Null, Whole
  <2> QED
    BY <2>1, <2>2, AnyLeaves
<1> QED
  BY <1>1, <1>2

-----------------------------------------------------------------------------
(* The step of an if without an else.                                      *)
LEMMA NoElseSteps ==
    ASSUME NEW ks, Within(NoElse, ks), Top.todo = NoElseTodo
    PROVE  Steps
<1>1. Leaves(Null) /\ Quiet
  BY NoElseItems, WithinItem, GiveDoes
<1>2. Promise(NoElse, Now')
  BY <1>1, KindsDiffer, NowFields DEF Promise, Leaves
<1> QED
  BY <1>1, <1>2, LeavingSteps

-----------------------------------------------------------------------------
(* The levels of expressions.                                              *)
LEMMA LevelFrames ==
    ASSUME NEW f \in DOMAIN Below, NEW b \in BOOLEAN, NEW s, b => Added(s)
    PROVE  /\ \A t \in Operators[f], n \in {1, 2} : \A c :
                 NullStops(c, s) /\ Operated(f, b, s) => Steady(From(PrimeTodo(f, t), n), c, Of(f, b), s)
           /\ \A d, c : LevelReady(d, c, f, b, s) => Ready(d, c, Of(f, b), s)
           /\ \A d, c, j : LevelAwaits(d, c, f, b, j, s) => Waits(d, c, Of(f, b), j, s)
<1>1. \A t \in Operators[f], n \in {1, 2} : \A c :
         NullStops(c, s) /\ Operated(f, b, s) => LevelSteady(From(PrimeTodo(f, t), n), c, f, b, s)
  BY DEF LevelSteady
<1> QED
  BY <1>1 DEF Steady, Ready, Waits, Awaits

LEMMA LevelTables ==
    ASSUME NEW f \in DOMAIN Below
    PROVE  /\ UpTo(f) = UpTo(Below[f]) \cup Operators[f]
           /\ \A t \in Delimiters[f] : t \in set_argm_ /\ t # "plus" /\ t \notin UpTo(f)
           /\ f = "NumExpr" => set_argm_ \subseteq Delimiters[f] \cup Operators[f]
           /\ f = "RelExpr" => set_argm_ \subseteq Delimiters[f] \cup Operators[f] \cup {"plus"}
           /\ f \in {"Expr", "AndExpr"} =>
                set_argm_ \subseteq Delimiters[f] \cup Operators[f] \cup UpTo(Operand[f])
<1>1. CASE f = "Expr"
  BY <1>1, Tables DEF UpTo, set_argm_
<1>2. CASE f = "AndExpr"
  BY <1>2, Tables DEF UpTo, set_argm_
<1>3. CASE f = "RelExpr"
  BY <1>3, Tables DEF UpTo, set_argm_
<1>4. CASE f = "NumExpr"
  BY <1>4, Tables DEF UpTo, set_argm_
<1> QED
  BY <1>1, <1>2, <1>3, <1>4, Tables

(* What was read when a level comes to one of its operators.               *)
LEMMA ReadOperator ==
    ASSUME Scanned_, NEW f \in DOMAIN Below, NEW b \in BOOLEAN, b => Added(Now), token_ \in Operators[f]
    PROVE  Operated(f, b, Now)
<1>1. /\ text \in Seq(STRING) /\ Len(text) \in Nat /\ current_position_ \in 1..(Len(text) + 1)
      /\ Now.text = text /\ Now.at = current_position_
  BY LenProperties, NowFields DEF Scanned_
<1>2. f = "NumExpr" => Added(Now)
  <2> HAVE f = "NumExpr"
  <2>1. token_ = "plus"
    BY Tables
  <2>2. current_position_ - 1 \in 1..(current_position_ - 1) /\ text[current_position_ - 1] = "+"
    BY <1>1, <2>1 DEF Scanned_
  <2> QED
    BY <1>1, <2>2 DEF Added
<1>3. f = "RelExpr" /\ b => Compared(Now)
  <2> HAVE f = "RelExpr" /\ b
  <2>1. token_ \in {"lessthan", "equalto"}
    BY Tables
  <2>2. PICK i \in 1..(current_position_ - 1) : text[i] = "+"
    BY <1>1 DEF Added
  <2>3. CASE token_ = "lessthan"
    <3>1. current_position_ > 1 /\ text[current_position_ - 1] = "<"
      BY <2>3 DEF Scanned_
    <3>2. i # current_position_ - 1
      BY <2>2, <3>1
    <3>3. /\ current_position_ - 1 \in 1..(current_position_ - 1)
          /\ i \in 1..((current_position_ - 1) - 1)
      BY <1>1, <3>1, <3>2
    <3>4. Compares(text, current_position_ - 1)
      BY <3>1 DEF Compares
    <3> QED
      BY <1>1, <2>2, <3>3, <3>4 DEF Compared
  <2>4. CASE token_ = "equalto"
    <3>1. current_position_ > 2 /\ IsEqualTo(text, current_position_ - 2)
      BY <2>4 DEF Scanned_
    <3>2. text[current_position_ - 2] = "=" /\ text[(current_position_ - 2) + 1] = "="
      BY <3>1 DEF IsEqualTo
    <3>3. (current_position_ - 2) + 1 = current_position_ - 1
      BY <1>1
    <3>4. i # current_position_ - 1 /\ i # current_position_ - 2
      BY <2>2, <3>2, <3>3
    <3>5. /\ current_position_ - 2 \in 1..(current_position_ - 1)
          /\ i \in 1..((current_position_ - 2) - 1)
      BY <1>1, <3>1, <3>4
    <3>6. Compares(text, current_position_ - 2)
      BY <3>1 DEF Compares
    <3> QED
      BY <1>1, <2>2, <3>5, <3>6 DEF Compared
  <2> QED
    BY <2>1, <2>3, <2>4
<1> QED
  BY <1>2, <1>3 DEF Operated

(* A comparison behind a plus, and then another plus.                      *)
LEMMA PlusBehindComparison ==
    ASSUME Scanned_, Compared(Now), token_ = "plus"
    PROVE  ComparesBetweenPluses(text)
<1>1. /\ text \in Seq(STRING) /\ Len(text) \in Nat /\ current_position_ \in 1..(Len(text) + 1)
      /\ DOMAIN text = 1..Len(text) /\ Now.text = text /\ Now.at = current_position_
  BY LenProperties, NowFields DEF Scanned_
<1>2. current_position_ > 1 /\ text[current_position_ - 1] = "+"
  BY DEF Scanned_
<1>3. PICK q \in 1..(current_position_ - 1) :
         Compares(text, q) /\ \E i \in 1..(q - 1) : text[i] = "+"
  BY <1>1 DEF Compared
<1>4. q # current_position_ - 1
  BY <1>2, <1>3 DEF Compares, IsEqualTo
<1>5. q \in DOMAIN text /\ current_position_ - 1 \in (q + 1)..Len(text)
  BY <1>1, <1>3, <1>4
<1> QED
  BY <1>2, <1>3, <1>5 DEF ComparesBetweenPluses

(* At the end of a level.                                                  *)
LEMMA EndReturns ==
    ASSUME NEW f \in DOMAIN Below, NEW b \in BOOLEAN, NEW c, NEW s, Operands(f, b, c, s),
           s.token \in Delimiters[f]
    PROVE  Returns(f, b, c, s)
<1>1. s.token \in set_argm_ /\ s.token # "plus" /\ s.token \notin UpTo(f)
  BY LevelTables
<1>2. ~Refused(Strict(f, b), s)
  BY <1>1 DEF Refused
<1> QED
  BY <1>1, <1>2 DEF Operands, Returns

LEMMA EndRefuses ==
    ASSUME NEW f \in DOMAIN Below, NEW b \in BOOLEAN, NEW c, NEW s, Operands(f, b, c, s),
           s.token \notin Delimiters[f], s.token \notin Operators[f]
    PROVE  \/ Returns(f, b, Null, s)
           \/ f = "RelExpr" /\ b /\ s.token = "plus"
<1>1. CASE Stopped(s) \/ s.token \notin set_argm_ \/ Refused(b, s)
  BY <1>1 DEF Returns, Refused
<1>2. CASE ~Stopped(s) /\ s.token \in set_argm_ /\ ~Refused(b, s)
  <2>1. CASE f = "NumExpr"
    BY <1>2, <2>1, LevelTables
  <2>2. CASE f = "RelExpr"
    <3>1. s.token = "plus"
      BY <1>2, <2>2, LevelTables
    <3> QED
      BY <1>2, <2>2, <3>1 DEF Refused
  <2>3. CASE f \in {"Expr", "AndExpr"}
    <3>1. s.token \in UpTo(Operand[f]) /\ Strict(f, b) = b
      BY <1>2, <2>3, LevelTables DEF Strict
    <3>2. Returns(Operand[f], b, c, s)
      BY <3>1 DEF Operands
    <3> QED
      BY <1>2, <3>1, <3>2 DEF Returns
  <2> QED
    BY <2>1, <2>2, <2>3, Tables
<1> QED
  BY <1>1, <1>2

LEMMA OperandsStop ==
    ASSUME NEW f \in DOMAIN Below, NEW b \in BOOLEAN, NEW c, NEW s, Operands(f, b, c, s),
           s.token \in Operators[f]
    PROVE  NullStops(c, s)
<1>1. s.token \in {"or", "and", "lessthan", "equalto", "plus"}
  BY Tables
<1>2. s.token = "plus" => f = "NumExpr"
  BY Tables
<1>3. ~Refused(Strict(f, b), s)
  BY <1>1, <1>2 DEF Refused, Strict, set_argm_
<1> QED
  BY <1>3 DEF Operands, Returns, NullStops

LEMMA MovesOn ==
    ASSUME Quiet
    PROVE  /\ Onward(Now, Now')
           /\ Added(Now) => Added(Now')
           /\ Now'.made = made' /\ Now'.token = token_' /\ Now.made = made /\ Now.token = token_
BY SeenStays, NowFields DEF Quiet, Moves

LEMMA ExpressionLeaves ==
    ASSUME NEW f \in Levels, NEW b \in BOOLEAN, NEW ks, Within(Of(f, b), ks), Quiet,
           frames' = Tail(frames), made' \in {Null, Whole}, Returns(f, b, made', Now')
    PROVE  Steps
<1>1. \A g, e : Of(f, b) = Of(g, e) => f = g /\ b = e
  BY KindsDiffer
<1>2. Of(f, b) # NoElse
  BY KindsDiffer
<1>3. Promise(Of(f, b), Now')
  BY <1>1, <1>2, NowFields DEF Promise
<1>4. Leaves(made')
  BY DEF Leaves
<1>5. GoesOn(<<>>, Nothing)
  BY DEF GoesOn, Going
<1>6. OnWith(<<>>, Nothing, Of(f, b), Now')
  BY <1>3 DEF OnWith
<1> QED
  BY <1>5, <1>6, GoingSteps

LEMMA OneItem ==
    ASSUME NEW d, NEW x, Begins(d, x, <<>>)
    PROVE  d = <<x>>
<1> DEFINE S == Elements(d)
<1>1. d \in Seq(S) /\ d # <<>> /\ Head(d) = x /\ Tail(d) = <<>> /\ IsSeq(d)
  BY DEF Begins, IsSeq
<1>2. d[1] = x
  BY <1>1, TailIsSeq
<1> HIDE DEF S
<1>3. Len(d) \in Nat /\ Len(d) = 1
  <2>1. Len(Tail(d)) = Len(d) - 1 /\ Len(d) \in Nat
    BY <1>1, HeadTailProperties, LenProperties
  <2>2. Tail(d) = <<>> /\ Tail(d) \in Seq(S)
    BY <1>1, HeadTailProperties
  <2>3. Len(Tail(d)) = 0
    BY <2>2, EmptySeq
  <2> QED
    BY <2>1, <2>3
<1>4. <<x>> \in Seq({x}) /\ Len(<<x>>) = 1 /\ <<x>>[1] = x
  OBVIOUS
<1>5. d \in Seq(S \cup {x}) /\ <<x>> \in Seq(S \cup {x})
  BY <1>1, <1>4
<1> QED
  BY <1>2, <1>3, <1>4, <1>5, SeqEqual

LEMMA TermFrames ==
    ASSUME NEW b \in BOOLEAN, NEW s, b => Added(s)
    PROVE  /\ \A d, c : TermSteady(d, c) => Steady(d, c, Of("Term", b), s)
           /\ \A d, c : TermReady(d, c, b, s) => Ready(d, c, Of("Term", b), s)
           /\ \A d, c, j : TermAwaits(d, c, b, j) => Waits(d, c, Of("Term", b), j, s)
BY DEF Steady, Ready, Waits, Awaits

LEMMA TermCallSteps ==
    ASSUME NEW k, NEW ks, Within(k, ks), NEW x, NEW r, Begins(Top.todo, x, r),
           x = Call("Term") \/ (x = Pass("Factor") /\ Top.collected = Nothing),
           NEW b \in BOOLEAN, b => Added(Now), Keeps(r, Top.collected, k, Of("Term", b), Now)
    PROVE  Steps
<1> DEFINE c0 == IF x.do = "Call" THEN Nothing ELSE Top.collected
<1>1. At(x, r) /\ x.do \in {"Call", "Pass"} /\ x.with \in {"Term", "Factor"} /\ c0 = Nothing
  BY WithinItem, CallFields
<1>2. Factor
  BY <1>1, ItemOfTop, CallsAreDone DEF At
<1>3. \/ token_ \in {"astk", "amps"} /\ Enter(PointerTodo(token_))
      \/ Enter(<<Call("FactorPrime")>>)
  BY <1>2 DEF Factor, Check, PointerTodo
<1>4. <<Call("FactorPrime")>> = From(PointerTodo("astk"), 2)
  BY PointerItems, OneItem
<1>5. PICK todo : /\ Enter(todo)
                  /\ \E n \in {1, 2}, t \in {"astk", "amps"} : todo = From(PointerTodo(t), n)
  BY <1>3, <1>4, PointerItems
<1>6. TermSteady(todo, Nothing)
  BY <1>5 DEF TermSteady
<1>7. Ready(todo, Nothing, Of("Term", b), Now)
  BY <1>6, TermFrames DEF Ready
<1>8. todo # <<>>
  BY <1>5, PointerItems, NotAtTheEnd
<1>9. Of("Term", b) \in Kinds /\ Of("Term", b) # Main
  BY KindsDiffer DEF Levels
<1> HIDE DEF c0
<1>10. c0 = IF x.do = "Call" THEN Nothing ELSE Top.collected
  BY DEF c0
<1> QED
  BY <1>1, <1>5, <1>7, <1>8, <1>9, <1>10, EnterSteps

LEMMA OperandCallSteps ==
    ASSUME NEW k, NEW ks, Within(k, ks), NEW g \in Levels, NEW r, Begins(Top.todo, Call(g), r),
           NEW b \in BOOLEAN, b => Added(Now), Keeps(r, Top.collected, k, Of(g, b), Now)
    PROVE  Steps
<1>1. CASE g = "Term"
  BY <1>1, TermCallSteps
<1>2. CASE g # "Term"
  <2>1. g \in DOMAIN Below
    BY <1>2, Tables DEF Levels
  <2> QED
    BY <2>1, LevelCallSteps
<1> QED
  BY <1>1, <1>2

-----------------------------------------------------------------------------
(* The steps of a level.                                                   *)
LEMMA LevelSteps ==
    ASSUME NEW f \in DOMAIN Below, NEW b \in BOOLEAN, NEW ks, Within(Of(f, b), ks), b => Added(Now),
           \/ Top.todo = From(LevelTodo(f), 1) /\ Top.collected = Nothing
           \/ /\ Top.todo = From(LevelTodo(f), 2) /\ Top.collected = Nothing
              /\ Returns(Below[f], b, made, Now)
           \/ /\ Top.todo = From(LevelTodo(f), 3) /\ Top.collected = made
              /\ Returns(Below[f], b, made, Now)
           \/ Top.todo = From(LevelTodo(f), 4) /\ Top.collected = Whole /\ Returns(Below[f], b, Whole, Now)
    PROVE  Steps
<1> DEFINE c == Top.collected
           k == Of(f, b)
<1>0. f \in Levels /\ Below[f] \in Levels
  BY LevelsBelow
<1>1. CASE Top.todo = From(LevelTodo(f), 1) /\ c = Nothing
  <2>1. Begins(Top.todo, Call(Below[f]), From(LevelTodo(f), 2)) /\ From(LevelTodo(f), 2) # <<>>
    BY <1>1, LevelItems, NotAtTheEnd
  <2>2. LevelAwaits(From(LevelTodo(f), 2), c, f, b, Of(Below[f], b), Now)
    BY <1>1 DEF LevelAwaits
  <2>3. Keeps(From(LevelTodo(f), 2), c, k, Of(Below[f], b), Now)
    BY <2>1, <2>2, LevelFrames DEF Keeps
  <2> QED
    BY <1>0, <2>1, <2>3, OperandCallSteps
<1>2. CASE Top.todo = From(LevelTodo(f), 2) /\ c = Nothing /\ Returns(Below[f], b, made, Now)
  <2>1. Begins(Top.todo, Collect, From(LevelTodo(f), 3)) /\ From(LevelTodo(f), 3) # <<>>
    BY <1>2, LevelItems, NotAtTheEnd
  <2>2. /\ GoesOn(From(LevelTodo(f), 3), Lower(c, made)) /\ made' = made /\ Quiet /\ UNCHANGED baseVars
        /\ made \in {Null, Whole}
    BY <2>1, WithinItem, CollectDoes
  <2>3. Lower(c, made) = made /\ Now' = Now
    BY <1>2, <2>2, SameNow DEF Lower, Nothing, Null, Whole
  <2>4. LevelReady(From(LevelTodo(f), 3), made, f, b, Now)
    BY <1>2, NowFields DEF LevelReady
  <2>5. Ready(From(LevelTodo(f), 3), made, k, Now')
    BY <2>3, <2>4, LevelFrames
  <2> QED
    BY <2>1, <2>2, <2>3, <2>5, ReadyGoes
<1>3. CASE Top.todo = From(LevelTodo(f), 3) /\ c = made /\ Returns(Below[f], b, made, Now)
  <2>1. Begins(Top.todo, Valid, From(LevelTodo(f), 4)) /\ From(LevelTodo(f), 4) # <<>>
    BY <1>3, LevelItems, NotAtTheEnd
  <2>2. /\ Quiet /\ UNCHANGED baseVars /\ made \in {Null, Whole}
        /\ \/ made = Null /\ Leaves(Null)
           \/ made # Null /\ GoesOn(From(LevelTodo(f), 4), c) /\ made' = made
    BY <2>1, WithinItem, ValidDoes
  <2>3. CASE made = Null /\ Leaves(Null)
    <3>1. Now' = Now /\ made' = Null /\ frames' = Tail(frames)
      BY <2>2, <2>3, SameNow DEF Leaves
    <3>2. Returns(f, b, made', Now')
      BY <1>3, <2>3, <3>1 DEF Returns, Null, Whole
    <3> QED
      BY <1>0, <2>2, <3>1, <3>2, ExpressionLeaves
  <2>4. CASE made # Null /\ GoesOn(From(LevelTodo(f), 4), c) /\ made' = made
    <3>1. Now' = Now /\ made = Whole /\ c = Whole
      BY <1>3, <2>2, <2>4, SameNow
    <3>2. LevelReady(From(LevelTodo(f), 4), c, f, b, Now)
      BY <1>3, <3>1 DEF LevelReady
    <3>3. Ready(From(LevelTodo(f), 4), c, k, Now')
      BY <3>1, <3>2, LevelFrames
    <3> QED
      BY <2>1, <2>2, <2>4, <3>3, ReadyGoes
  <2> QED
    BY <2>2, <2>3, <2>4
<1>4. CASE Top.todo = From(LevelTodo(f), 4) /\ c = Whole /\ Returns(Below[f], b, Whole, Now)
  <2>1. Begins(Top.todo, Operator(f), <<>>)
    BY <1>4, LevelItems
  <2>2. /\ Quiet /\ UNCHANGED baseVars /\ made \in {Null, Whole}
        /\ \/ token_ \in Operators[f] /\ GoesOn(<<Prime(f)>> \o <<>>, c) /\ made' = made
           \/ token_ \notin Operators[f] /\ Leaves(c)
    BY <2>1, WithinItem, OperatorDoes
  <2>3. CASE token_ \in Operators[f] /\ GoesOn(<<Prime(f)>> \o <<>>, c) /\ made' = made
    <3>1. <<Prime(f)>> \o <<>> = AgainTodo(f) /\ AgainTodo(f) # <<>>
      BY DEF AgainTodo
    <3>2. LevelReady(AgainTodo(f), c, f, b, Now)
      BY <1>4, <2>3, NowFields DEF LevelReady
    <3>3. Ready(AgainTodo(f), c, k, Now')
      BY <2>2, <2>3, <3>2, SameNow, LevelFrames
    <3> QED
      BY <2>2, <2>3, <3>1, <3>3, ReadyGoes
  <2>4. CASE token_ \notin Operators[f] /\ Leaves(c)
    <3>1. made' = Whole /\ frames' = Tail(frames) /\ token_' = token_
      BY <1>4, <2>2, <2>4 DEF Leaves, baseVars, scanVars
    <3>2. Returns(f, b, Whole, Now)
      BY <1>4, <2>4, LevelTables, NowFields DEF Returns, Null, Whole
    <3>3. Returns(f, b, Whole, Now')
      BY <2>2, <3>1, <3>2, MovesOn, ReturnsStay
    <3> QED
      BY <1>0, <2>2, <3>1, <3>3, ExpressionLeaves
  <2> QED
    BY <2>2, <2>3, <2>4
<1> QED
  BY <1>1, <1>2, <1>3, <1>4

(* A level goes on with an operator, or ends.                              *)
LEMMA PrimeCallSteps ==
    ASSUME NEW f \in DOMAIN Below, NEW b \in BOOLEAN, NEW ks, Within(Of(f, b), ks), b => Added(Now),
           NEW r, Begins(Top.todo, Prime(f), r), Keeps(r, Top.collected, Of(f, b), Of(f, b), Now),
           \/ Top.collected = Whole /\ token_ \in Operators[f]
           \/ Operands(f, b, Top.collected, Now)
    PROVE  Steps
<1> DEFINE c == Top.collected
           k == Of(f, b)
<1>1. /\ At(Prime(f), r) /\ Prime(f).do = "Prime" /\ Prime(f).with = f /\ Scanned_
      /\ Now.token = token_
  BY WithinItem, CallFields, NowFields DEF Within
<1>2. ExprPrime
  BY <1>1, ItemOfTop, ItemsAreDone DEF At
<1>3. \/ token_ \in Operators[f] /\ Enter(PrimeTodo(f, token_))
      \/ token_ \notin Operators[f] /\ Enter(EndTodo(f))
  BY <1>1, <1>2, ItemOfTop DEF ExprPrime, Check, PrimeTodo, EndTodo
<1>4. k \in Kinds /\ k # Main
  BY KindsDiffer, LevelsBelow
<1>5. CASE token_ \in Operators[f] /\ Enter(PrimeTodo(f, token_))
  <2>1. Operated(f, b, Now)
    BY <1>1, <1>5, ReadOperator
  <2>2. NullStops(c, Now)
    <3>1. CASE c = Whole
      BY <3>1 DEF NullStops
    <3>2. CASE Operands(f, b, c, Now)
      BY <1>1, <1>5, <3>2, OperandsStop
    <3> QED
      BY <3>1, <3>2
  <2>3. From(PrimeTodo(f, token_), 1) = PrimeTodo(f, token_) /\ PrimeTodo(f, token_) # <<>>
    BY PrimeItems, NotAtTheEnd
  <2>4. Steady(From(PrimeTodo(f, token_), 1), c, k, Now)
    BY <1>5, <2>1, <2>2, LevelFrames
  <2> QED
    BY <1>1, <1>4, <1>5, <2>3, <2>4, EnterSteps DEF Ready
<1>6. CASE token_ \notin Operators[f] /\ Enter(EndTodo(f))
  <2>1. From(EndTodo(f), 1) = EndTodo(f) /\ EndTodo(f) # <<>>
    BY EndItems, NotAtTheEnd
  <2>2. LevelReady(EndTodo(f), c, f, b, Now)
    BY <1>1, <1>6, <2>1 DEF LevelReady
  <2>3. Ready(EndTodo(f), c, k, Now)
    BY <2>2, LevelFrames
  <2> QED
    BY <1>1, <1>4, <1>6, <2>1, <2>3, EnterSteps
<1> QED
  BY <1>3, <1>5, <1>6

LEMMA AgainSteps ==
    ASSUME NEW f \in DOMAIN Below, NEW b \in BOOLEAN, NEW ks, Within(Of(f, b), ks), b => Added(Now),
           Top.todo = AgainTodo(f), Top.collected = Whole, token_ \in Operators[f]
    PROVE  Steps
<1>1. Begins(Top.todo, Prime(f), <<>>)
  BY AgainItems
<1>2. Keeps(<<>>, Top.collected, Of(f, b), Of(f, b), Now)
  BY DEF Keeps
<1> QED
  BY <1>1, <1>2, PrimeCallSteps

(* The right side of an operator.                                          *)
LEMMA OperandSteps ==
    ASSUME NEW f \in DOMAIN Below, NEW b \in BOOLEAN, NEW ks, Within(Of(f, b), ks), b => Added(Now),
           NEW t \in Operators[f],
           \/ /\ \E n \in {1, 2} : Top.todo = From(PrimeTodo(f, t), n)
              /\ NullStops(Top.collected, Now) /\ Operated(f, b, Now)
           \/ /\ Top.todo = From(PrimeTodo(f, t), 3) /\ NullStops(Top.collected, Now)
              /\ Operated(f, b, Now) /\ Returns(Operand[f], Strict(f, b), made, Now)
           \/ Top.todo = From(PrimeTodo(f, t), 4) /\ Operands(f, b, Top.collected, Now)
           \/ /\ Top.todo = From(PrimeTodo(f, t), 5) /\ Top.collected \in {Null, Whole}
              /\ Returns(f, b, made, Now)
    PROVE  Steps
<1> DEFINE c == Top.collected
           k == Of(f, b)
           body == PrimeTodo(f, t)
<1>0. f \in Levels /\ Operand[f] \in Levels
  BY LevelsBelow
<1>1. CASE Top.todo = From(body, 1) /\ NullStops(c, Now) /\ Operated(f, b, Now)
  <2>1. Begins(Top.todo, Take(t), From(body, 2)) /\ From(body, 2) # <<>>
    BY <1>1, PrimeItems, NotAtTheEnd
  <2>2. GoesOn(From(body, 2), c) /\ made' = made /\ Quiet
    BY <2>1, WithinItem, TakeDoes
  <2>3. Steady(From(body, 2), c, k, Now)
    BY <1>1, LevelFrames
  <2> QED
    BY <2>1, <2>2, <2>3, SteadyGoes
<1>2. CASE Top.todo = From(body, 2) /\ NullStops(c, Now) /\ Operated(f, b, Now)
  <2>1. Begins(Top.todo, Call(Operand[f]), From(body, 3)) /\ From(body, 3) # <<>>
    BY <1>2, PrimeItems, NotAtTheEnd
  <2>2. Strict(f, b) \in BOOLEAN /\ (Strict(f, b) => Added(Now))
    BY <1>2 DEF Strict, Operated
  <2>3. LevelAwaits(From(body, 3), c, f, b, Of(Operand[f], Strict(f, b)), Now)
    BY <1>2 DEF LevelAwaits
  <2>4. Keeps(From(body, 3), c, k, Of(Operand[f], Strict(f, b)), Now)
    BY <2>1, <2>3, LevelFrames DEF Keeps
  <2> QED
    BY <1>0, <2>1, <2>2, <2>4, OperandCallSteps
<1>3. CASE /\ Top.todo = From(body, 3) /\ NullStops(c, Now) /\ Operated(f, b, Now)
           /\ Returns(Operand[f], Strict(f, b), made, Now)
  <2>1. Begins(Top.todo, Collect, From(body, 4)) /\ From(body, 4) # <<>>
    BY <1>3, PrimeItems, NotAtTheEnd
  <2>2. /\ GoesOn(From(body, 4), Lower(c, made)) /\ made' = made /\ Quiet /\ UNCHANGED baseVars
        /\ made \in {Null, Whole}
    BY <2>1, WithinItem, CollectDoes
  <2>3. /\ Now' = Now /\ Lower(c, made) \in {Null, Whole}
        /\ Lower(c, made) = made \/ (Lower(c, made) = Null /\ Stopped(Now))
    BY <1>3, <2>2, SameNow DEF NullStops, Lower, Null, Whole
  <2>4. Operands(f, b, Lower(c, made), Now)
    <3>1. Returns(Operand[f], Strict(f, b), Lower(c, made), Now)
      BY <1>3, <2>3 DEF Returns
    <3> QED
      BY <1>3, <2>3, <3>1 DEF Operands
  <2>5. LevelReady(From(body, 4), Lower(c, made), f, b, Now)
    BY <2>4 DEF LevelReady
  <2>6. Ready(From(body, 4), Lower(c, made), k, Now')
    BY <2>3, <2>5, LevelFrames
  <2> QED
    BY <2>1, <2>2, <2>6, ReadyGoes
<1>4. CASE Top.todo = From(body, 4) /\ Operands(f, b, c, Now)
  <2>1. Begins(Top.todo, Prime(f), From(body, 5)) /\ From(body, 5) # <<>>
    BY <1>4, PrimeItems, NotAtTheEnd
  <2>2. LevelAwaits(From(body, 5), c, f, b, k, Now)
    BY <1>4 DEF LevelAwaits, Operands
  <2>3. Keeps(From(body, 5), c, k, k, Now)
    BY <2>1, <2>2, LevelFrames DEF Keeps
  <2> QED
    BY <1>4, <2>1, <2>3, PrimeCallSteps
<1>5. CASE Top.todo = From(body, 5) /\ c \in {Null, Whole} /\ Returns(f, b, made, Now)
  <2>1. Begins(Top.todo, Missed, <<>>)
    BY <1>5, PrimeItems
  <2>2. /\ GoesOn(<<>>, c) /\ made' = made /\ Quiet /\ token_' = token_ /\ made \in {Null, Whole}
    BY <2>1, WithinItem, MissedDoes
  <2>3. frames' = Tail(frames)
    BY <2>2 DEF GoesOn, Going
  <2>4. Returns(f, b, made', Now')
    BY <1>5, <2>2, MovesOn, ReturnsStay
  <2> QED
    BY <1>0, <2>2, <2>3, <2>4, ExpressionLeaves
<1> QED
  BY <1>1, <1>2, <1>3, <1>4, <1>5

(* Where a level ends.                                                     *)
LEMMA EndSteps ==
    ASSUME NEW f \in DOMAIN Below, NEW b \in BOOLEAN, NEW ks, Within(Of(f, b), ks), b => Added(Now), Claimed',
           \/ /\ Top.todo = From(EndTodo(f), 1) /\ Operands(f, b, Top.collected, Now)
              /\ token_ \notin Operators[f]
           \/ /\ Top.todo = From(EndTodo(f), 2) /\ Top.collected \in {Null, Whole}
              /\ Returns(f, b, Top.collected, Now)
    PROVE  Steps
<1> DEFINE c == Top.collected
           k == Of(f, b)
<1>0. f \in Levels /\ Scanned_ /\ Now.token = token_
  BY LevelsBelow, NowFields DEF Within
<1>1. CASE Top.todo = From(EndTodo(f), 1) /\ Operands(f, b, c, Now) /\ token_ \notin Operators[f]
  <2>1. Begins(Top.todo, Expect(Delimiters[f]), From(EndTodo(f), 2)) /\ From(EndTodo(f), 2) # <<>>
    BY <1>1, EndItems, NotAtTheEnd
  <2>2. /\ Quiet /\ made \in {Null, Whole}
        /\ \/ /\ token_ \in Delimiters[f] /\ GoesOn(From(EndTodo(f), 2), c)
              /\ made' = made /\ UNCHANGED baseVars
           \/ token_ \notin Delimiters[f] /\ Leaves(Null) /\ Complains
    BY <2>1, WithinItem, ExpectDoes
  <2>3. CASE /\ token_ \in Delimiters[f] /\ GoesOn(From(EndTodo(f), 2), c)
             /\ made' = made /\ UNCHANGED baseVars
    <3>1. Returns(f, b, c, Now)
      BY <1>0, <1>1, <2>3, EndReturns
    <3>2. LevelReady(From(EndTodo(f), 2), c, f, b, Now)
      BY <1>1, <3>1 DEF LevelReady, Operands
    <3>3. Ready(From(EndTodo(f), 2), c, k, Now')
      BY <2>3, <3>2, SameNow, LevelFrames
    <3> QED
      BY <2>1, <2>2, <2>3, <3>3, ReadyGoes
  <2>4. CASE token_ \notin Delimiters[f] /\ Leaves(Null) /\ Complains
    <3>1. token_' = token_ /\ ~ComparesBetweenPluses(text) /\ made' = Null /\ frames' = Tail(frames)
      BY <2>4 DEF Complains, Leaves
    <3>2. ~(f = "RelExpr" /\ b /\ token_ = "plus")
      <4>1. SUFFICES ASSUME f = "RelExpr", b, token_ = "plus"
                     PROVE  FALSE
        OBVIOUS
      <4>2. Compared(Now)
        BY <1>1, <4>1 DEF Operands, Operated
      <4> QED
        BY <1>0, <3>1, <4>1, <4>2, PlusBehindComparison
    <3>3. Returns(f, b, Null, Now)
      BY <1>0, <1>1, <2>4, <3>2, EndRefuses
    <3>4. Returns(f, b, Null, Now')
      BY <2>2, <3>1, <3>3, MovesOn, ReturnsStay
    <3> QED
      BY <1>0, <2>2, <3>1, <3>4, ExpressionLeaves
  <2> QED
    BY <2>2, <2>3, <2>4
<1>2. CASE Top.todo = From(EndTodo(f), 2) /\ c \in {Null, Whole} /\ Returns(f, b, c, Now)
  <2>1. Begins(Top.todo, Build, <<>>)
    BY <1>2, EndItems
  <2>2. Leaves(NewNode(c)) /\ Quiet /\ UNCHANGED baseVars
    BY <2>1, WithinItem, BuildDoes
  <2>3. NewNode(c) = c
    BY <1>2 DEF NewNode, Null, Nothing, Whole
  <2>4. made' = c /\ frames' = Tail(frames) /\ token_' = token_
    BY <2>2, <2>3 DEF Leaves, baseVars, scanVars
  <2>5. Returns(f, b, c, Now')
    BY <1>2, <2>2, <2>4, MovesOn, ReturnsStay
  <2> QED
    BY <1>0, <1>2, <2>2, <2>4, <2>5, ExpressionLeaves
<1> QED
  BY <1>1, <1>2

-----------------------------------------------------------------------------
(* The steps of a term.                                                    *)
LEMMA TermGoes ==
    ASSUME NEW b \in BOOLEAN, NEW ks, Within(Of("Term", b), ks), b => Added(Now),
           NEW r, NEW c, r # <<>>, GoesOn(r, c), Quiet, made' = made, TermSteady(r, c)
    PROVE  Steps
<1>1. Steady(r, c, Of("Term", b), Now)
  BY TermFrames
<1> QED
  BY <1>1, SteadyGoes

LEMMA TermLeaves ==
    ASSUME NEW b \in BOOLEAN, NEW ks, Within(Of("Term", b), ks), Quiet, Leaves(Whole)
    PROVE  Steps
<1>1. "Term" \in Levels /\ UpTo("Term") = {}
  BY DEF Levels, UpTo
<1>2. made' = Whole /\ frames' = Tail(frames) /\ made' \in {Null, Whole}
  BY DEF Leaves
<1>3. Returns("Term", b, made', Now')
  BY <1>1, <1>2 DEF Returns
<1> QED
  BY <1>1, <1>2, <1>3, ExpressionLeaves

LEMMA TermGivesUp ==
    ASSUME NEW b \in BOOLEAN, NEW ks, Within(Of("Term", b), ks), Quiet, Leaves(Null),
           Stopped(Now') \/ Refused(b, Now')
    PROVE  Steps
<1>1. "Term" \in Levels
  BY DEF Levels
<1>2. made' = Null /\ frames' = Tail(frames) /\ made' \in {Null, Whole}
  BY DEF Leaves
<1>3. Returns("Term", b, made', Now')
  BY <1>2 DEF Returns
<1> QED
  BY <1>1, <1>2, <1>3, ExpressionLeaves

LEMMA TermEnters ==
    ASSUME NEW b \in BOOLEAN, NEW ks, Within(Of("Term", b), ks), NEW g, Begins(Top.todo, Call(g), <<>>),
           NEW todo, todo # <<>>, Enter(todo), Ready(todo, Nothing, Of("Term", b), Now)
    PROVE  Steps
<1>1. Of("Term", b) \in Kinds /\ Of("Term", b) # Main
  BY KindsDiffer DEF Levels
<1>2. Nothing = IF Call(g).do = "Call" THEN Nothing ELSE Top.collected
  BY CallFields
<1>3. Keeps(<<>>, Top.collected, Of("Term", b), Of("Term", b), Now)
  BY DEF Keeps
<1> QED
  BY <1>1, <1>2, <1>3, EnterSteps

LEMMA FactorPrimeSteps ==
    ASSUME NEW b \in BOOLEAN, NEW ks, Within(Of("Term", b), ks), b => Added(Now),
           Begins(Top.todo, Call("FactorPrime"), <<>>)
    PROVE  Steps
<1>1. At(Call("FactorPrime"), <<>>)
  BY WithinItem
<1>2. FactorPrime
  BY <1>1, ItemOfTop, CallFields, CallsAreDone DEF At
<1>3. \/ token_ \in {"numr", "true", "false"} /\ Enter(ValueTodo(token_))
      \/ Enter(NameTodo) \/ Enter(ParenTodo) \/ Enter(SkipTodo)
  BY <1>2 DEF FactorPrime, Check, ValueTodo, NameTodo, ParenTodo, SkipTodo
<1>4. /\ TermSteady(From(NameTodo, 1), Nothing) /\ TermSteady(From(ParenTodo, 1), Nothing)
      /\ TermSteady(From(SkipTodo, 1), Nothing)
      /\ token_ \in {"numr", "true", "false"} => TermSteady(From(ValueTodo(token_), 1), Nothing)
  BY DEF TermSteady
<1>5. /\ TermSteady(NameTodo, Nothing) /\ NameTodo # <<>>
      /\ TermSteady(ParenTodo, Nothing) /\ ParenTodo # <<>>
      /\ TermSteady(SkipTodo, Nothing) /\ SkipTodo # <<>>
      /\ token_ \in {"numr", "true", "false"} =>
           TermSteady(ValueTodo(token_), Nothing) /\ ValueTodo(token_) # <<>>
  BY <1>4, NameItems, ParenItems, SkipItems, ValueItems, NotAtTheEnd
<1>6. PICK todo : Enter(todo) /\ TermSteady(todo, Nothing) /\ todo # <<>>
  BY <1>3, <1>5
<1>7. Ready(todo, Nothing, Of("Term", b), Now)
  BY <1>6, TermFrames DEF Ready
<1> QED
  BY <1>6, <1>7, TermEnters

LEMMA PointerSteps ==
    ASSUME NEW b \in BOOLEAN, NEW ks, Within(Of("Term", b), ks), b => Added(Now), Top.collected = Nothing,
           NEW t \in {"astk", "amps"}, NEW n \in {1, 2}, Top.todo = From(PointerTodo(t), n)
    PROVE  Steps
<1>1. CASE n = 1
  <2>1. Begins(Top.todo, Take(t), From(PointerTodo(t), 2)) /\ From(PointerTodo(t), 2) # <<>>
    BY <1>1, PointerItems, NotAtTheEnd
  <2>2. TermSteady(From(PointerTodo(t), 2), Top.collected)
    BY DEF TermSteady
  <2> QED
    BY <2>1, <2>2, WithinItem, TakeDoes, TermGoes
<1>2. CASE n = 2
  BY <1>2, PointerItems, FactorPrimeSteps
<1> QED
  BY <1>1, <1>2

LEMMA ValueSteps ==
    ASSUME NEW b \in BOOLEAN, NEW ks, Within(Of("Term", b), ks), b => Added(Now), Top.collected = Nothing,
           NEW t \in {"numr", "true", "false"}, NEW n \in {1, 2}, Top.todo = From(ValueTodo(t), n)
    PROVE  Steps
<1>1. CASE n = 1
  <2>1. Begins(Top.todo, Take(t), From(ValueTodo(t), 2)) /\ From(ValueTodo(t), 2) # <<>>
    BY <1>1, ValueItems, NotAtTheEnd
  <2>2. TermSteady(From(ValueTodo(t), 2), Top.collected)
    BY DEF TermSteady
  <2> QED
    BY <2>1, <2>2, WithinItem, TakeDoes, TermGoes
<1>2. CASE n = 2
  <2>1. Begins(Top.todo, Give(Whole), <<>>)
    BY <1>2, ValueItems
  <2> QED
    BY <2>1, WithinItem, GiveDoes, TermLeaves
<1> QED
  BY <1>1, <1>2

(* A factor that does not begin like one is tried again behind the token.  *)
LEMMA SkipSteps ==
    ASSUME NEW b \in BOOLEAN, NEW ks, Within(Of("Term", b), ks), b => Added(Now), Top.collected = Nothing,
           \/ \E n \in {1, 2} : Top.todo = From(SkipTodo, n)
           \/ Top.todo = RetryTodo
    PROVE  Steps
<1>1. CASE Top.todo = From(SkipTodo, 1)
  <2>1. Begins(Top.todo, Fail, From(SkipTodo, 2)) /\ From(SkipTodo, 2) # <<>>
    BY <1>1, SkipItems, NotAtTheEnd
  <2>2. TermSteady(From(SkipTodo, 2), Top.collected)
    BY DEF TermSteady
  <2> QED
    BY <2>1, <2>2, WithinItem, FailDoes, TermGoes
<1>2. CASE Top.todo = From(SkipTodo, 2)
  <2>1. Begins(Top.todo, Recover("Factor"), <<>>)
    BY <1>2, SkipItems
  <2>2. /\ Quiet
        /\ \/ GoesOn(<<Pass("Factor")>> \o <<>>, Top.collected) /\ made' = made
           \/ continue_parsing_ = FALSE /\ Leaves(Null) /\ UNCHANGED baseVars
    BY <2>1, WithinItem, RecoverDoes
  <2>3. CASE GoesOn(<<Pass("Factor")>> \o <<>>, Top.collected) /\ made' = made
    <3>1. <<Pass("Factor")>> \o <<>> = RetryTodo /\ RetryTodo # <<>>
      BY DEF RetryTodo
    <3>2. TermSteady(RetryTodo, Top.collected)
      BY DEF TermSteady
    <3> QED
      BY <2>2, <2>3, <3>1, <3>2, TermGoes
  <2>4. CASE continue_parsing_ = FALSE /\ Leaves(Null) /\ UNCHANGED baseVars
    <3>1. Stopped(Now')
      BY <2>4, NowFields DEF Stopped, baseVars, errorVars
    <3> QED
      BY <2>2, <2>4, <3>1, TermGivesUp
  <2> QED
    BY <2>2, <2>3, <2>4
<1>3. CASE Top.todo = RetryTodo
  <2>1. Begins(Top.todo, Pass("Factor"), <<>>)
    BY <1>3, RetryItems
  <2>2. Keeps(<<>>, Top.collected, Of("Term", b), Of("Term", b), Now)
    BY DEF Keeps
  <2> QED
    BY <2>1, <2>2, TermCallSteps
<1> QED
  BY <1>1, <1>2, <1>3

LEMMA ArgmCallSteps ==
    ASSUME NEW b \in BOOLEAN, NEW ks, Within(Of("Term", b), ks), b => Added(Now),
           NEW g \in {"Argm", "ArgmOfMember"}, Begins(Top.todo, Call(g), <<>>)
    PROVE  Steps
<1>1. At(Call(g), <<>>) /\ Now.token = token_
  BY WithinItem, NowFields
<1>2. Argm /\ item.with = g
  BY <1>1, ItemOfTop, CallFields, CallsAreDone DEF At
<1>3. PICK q \in BOOLEAN : q = (g = "ArgmOfMember")
  OBVIOUS
<1>4. \/ Enter(<<Give(Whole)>>)
      \/ Enter(ArgsTodo(q))
      \/ token_ = "dot" /\ Enter(DotTodo)
      \/ token_ \notin set_argm_ /\ Enter(FailTodo)
  BY <1>2, <1>3 DEF Argm, Check, ArgsTodo, DotTodo, FailTodo
<1>5. CASE Enter(<<Give(Whole)>>)
  <2>1. <<Give(Whole)>> = From(ValueTodo("numr"), 2)
    BY ValueItems, OneItem
  <2>2. TermSteady(From(ValueTodo("numr"), 2), Nothing)
    BY DEF TermSteady
  <2>3. Ready(<<Give(Whole)>>, Nothing, Of("Term", b), Now)
    BY <2>1, <2>2, TermFrames DEF Ready
  <2>4. <<Give(Whole)>> # <<>>
    BY <2>1, ValueItems, NotAtTheEnd
  <2> QED
    BY <1>5, <2>3, <2>4, TermEnters
<1>6. CASE Enter(ArgsTodo(q))
  <2>1. TermSteady(From(ArgsTodo(q), 1), Nothing)
    BY DEF TermSteady
  <2>2. From(ArgsTodo(q), 1) = ArgsTodo(q) /\ ArgsTodo(q) # <<>>
    BY ArgsItems, NotAtTheEnd
  <2>3. Ready(ArgsTodo(q), Nothing, Of("Term", b), Now)
    BY <2>1, <2>2, TermFrames DEF Ready
  <2> QED
    BY <1>6, <2>2, <2>3, TermEnters
<1>7. CASE token_ = "dot" /\ Enter(DotTodo)
  <2>1. TermReady(From(DotTodo, 1), Nothing, b, Now)
    BY <1>1, <1>7 DEF TermReady
  <2>2. From(DotTodo, 1) = DotTodo /\ DotTodo # <<>>
    BY DotItems, NotAtTheEnd
  <2>3. Ready(DotTodo, Nothing, Of("Term", b), Now)
    BY <2>1, <2>2, TermFrames
  <2> QED
    BY <1>7, <2>2, <2>3, TermEnters
<1>8. CASE token_ \notin set_argm_ /\ Enter(FailTodo)
  <2>1. Refused(b, Now)
    BY <1>1, <1>8 DEF Refused
  <2>2. TermReady(From(FailTodo, 1), Nothing, b, Now)
    BY <2>1 DEF TermReady
  <2>3. From(FailTodo, 1) = FailTodo /\ FailTodo # <<>>
    BY FailItems, NotAtTheEnd
  <2>4. Ready(FailTodo, Nothing, Of("Term", b), Now)
    BY <2>2, <2>3, TermFrames
  <2> QED
    BY <1>8, <2>3, <2>4, TermEnters
<1> QED
  BY <1>4, <1>5, <1>6, <1>7, <1>8

LEMMA NameSteps ==
    ASSUME NEW b \in BOOLEAN, NEW ks, Within(Of("Term", b), ks), b => Added(Now), Top.collected = Nothing,
           NEW n \in 1..3, Top.todo = From(NameTodo, n)
    PROVE  Steps
<1>1. CASE n = 1
  <2>1. Begins(Top.todo, Take("name"), From(NameTodo, 2)) /\ From(NameTodo, 2) # <<>>
    BY <1>1, NameItems, NotAtTheEnd
  <2>2. TermSteady(From(NameTodo, 2), Top.collected)
    BY DEF TermSteady
  <2> QED
    BY <2>1, <2>2, WithinItem, TakeDoes, TermGoes
<1>2. CASE n = 2
  <2>1. Begins(Top.todo, BuildVar, From(NameTodo, 3)) /\ From(NameTodo, 3) # <<>>
    BY <1>2, NameItems, NotAtTheEnd
  <2>2. TermSteady(From(NameTodo, 3), Top.collected)
    BY DEF TermSteady
  <2> QED
    BY <2>1, <2>2, WithinItem, BuildVarDoes, TermGoes
<1>3. CASE n = 3
  BY <1>3, NameItems, ArgmCallSteps
<1> QED
  BY <1>1, <1>2, <1>3

LEMMA TermGetsReady ==
    ASSUME NEW b \in BOOLEAN, NEW ks, Within(Of("Term", b), ks), b => Added(Now),
           NEW r, NEW c, r # <<>>, GoesOn(r, c), Quiet, made' = made, made \in {Null, Whole},
           TermReady(r, c, b, Now')
    PROVE  Steps
<1>1. b => Added(Now')
  BY MovesOn
<1>2. Ready(r, c, Of("Term", b), Now')
  BY <1>1, TermFrames
<1> QED
  BY <1>2, ReadyGoes

(* An expression in parentheses.                                           *)
LEMMA ParenSteps ==
    ASSUME NEW b \in BOOLEAN, NEW ks, Within(Of("Term", b), ks), b => Added(Now),
           \/ (\E n \in {1, 2} : Top.todo = From(ParenTodo, n)) /\ Top.collected = Nothing
           \/ Top.todo = From(ParenTodo, 3) /\ Top.collected = Nothing /\ Returns("Expr", b, made, Now)
           \/ (\E n \in {4, 5} : Top.todo = From(ParenTodo, n)) /\ NullRefuses(Top.collected, b, Now)
    PROVE  Steps
<1> DEFINE c == Top.collected
<1>1. CASE Top.todo = From(ParenTodo, 1) /\ c = Nothing
  <2>1. Begins(Top.todo, Take("lpar"), From(ParenTodo, 2)) /\ From(ParenTodo, 2) # <<>>
    BY <1>1, ParenItems, NotAtTheEnd
  <2>2. TermSteady(From(ParenTodo, 2), c)
    BY <1>1 DEF TermSteady
  <2> QED
    BY <2>1, <2>2, WithinItem, TakeDoes, TermGoes
<1>2. CASE Top.todo = From(ParenTodo, 2) /\ c = Nothing
  <2>1. Begins(Top.todo, Call("Expr"), From(ParenTodo, 3)) /\ From(ParenTodo, 3) # <<>>
    BY <1>2, ParenItems, NotAtTheEnd
  <2>2. TermAwaits(From(ParenTodo, 3), c, b, Of("Expr", b))
    BY <1>2 DEF TermAwaits
  <2>3. Keeps(From(ParenTodo, 3), c, Of("Term", b), Of("Expr", b), Now)
    BY <2>1, <2>2, TermFrames DEF Keeps
  <2>4. "Expr" \in DOMAIN Below
    BY Tables
  <2> QED
    BY <2>1, <2>3, <2>4, LevelCallSteps
<1>3. CASE Top.todo = From(ParenTodo, 3) /\ c = Nothing /\ Returns("Expr", b, made, Now)
  <2>1. Begins(Top.todo, Collect, From(ParenTodo, 4)) /\ From(ParenTodo, 4) # <<>>
    BY <1>3, ParenItems, NotAtTheEnd
  <2>2. /\ GoesOn(From(ParenTodo, 4), Lower(c, made)) /\ made' = made /\ Quiet /\ UNCHANGED baseVars
        /\ made \in {Null, Whole}
    BY <2>1, WithinItem, CollectDoes
  <2>3. Lower(c, made) = made /\ Now' = Now
    BY <1>3, <2>2, SameNow DEF Lower, Nothing, Null, Whole
  <2>4. NullRefuses(made, b, Now)
    BY <1>3, <2>2, ReturnedRefuses
  <2>5. TermReady(From(ParenTodo, 4), made, b, Now')
    BY <2>3, <2>4 DEF TermReady
  <2> QED
    BY <2>1, <2>2, <2>3, <2>5, TermGetsReady
<1>4. CASE Top.todo = From(ParenTodo, 4) /\ NullRefuses(c, b, Now)
  <2>1. Begins(Top.todo, Take("rpar"), From(ParenTodo, 5)) /\ From(ParenTodo, 5) # <<>>
    BY <1>4, ParenItems, NotAtTheEnd
  <2>2. /\ GoesOn(From(ParenTodo, 5), c) /\ made' = made /\ Quiet /\ made \in {Null, Whole}
        /\ token_ = "rpar" \/ token_' = token_
    BY <2>1, WithinItem, TakeDoes
  <2>3. Onward(Now, Now') /\ Now'.token = token_' /\ Now.token = token_
    BY <2>2, MovesOn
  <2>4. NullRefuses(c, b, Now')
    <3>1. CASE token_ = "rpar"
      <4>1. NullStops(c, Now)
        BY <1>4, <2>3, <3>1, RefusedStops
      <4>2. NullStops(c, Now')
        BY <2>3, <4>1, NullStays
      <4> QED
        BY <4>2 DEF NullStops, NullRefuses
    <3>2. CASE token_' = token_
      <4>1. Stopped(Now) => Stopped(Now')
        BY <2>3, SeenStays
      <4>2. Refused(b, Now) => Refused(b, Now')
        BY <2>3, <3>2 DEF Refused
      <4> QED
        BY <1>4, <4>1, <4>2 DEF NullRefuses
    <3> QED
      BY <2>2, <3>1, <3>2
  <2>5. TermReady(From(ParenTodo, 5), c, b, Now')
    BY <2>4 DEF TermReady
  <2> QED
    BY <2>1, <2>2, <2>5, TermGetsReady
<1>5. CASE Top.todo = From(ParenTodo, 5) /\ NullRefuses(c, b, Now)
  <2>1. Begins(Top.todo, Build, <<>>)
    BY <1>5, ParenItems
  <2>2. Leaves(NewNode(c)) /\ Quiet /\ UNCHANGED baseVars
    BY <2>1, WithinItem, BuildDoes
  <2>3. NewNode(c) = c /\ (c = Whole \/ (c = Null /\ (Stopped(Now) \/ Refused(b, Now))))
    BY <1>5 DEF NewNode, NullRefuses, Null, Nothing, Whole
  <2>4. Onward(Now, Now') /\ Now'.token = Now.token
    BY <2>2, MovesOn DEF baseVars, scanVars
  <2>5. (Stopped(Now) \/ Refused(b, Now)) => (Stopped(Now') \/ Refused(b, Now'))
    BY <2>4, SeenStays DEF Refused
  <2>6. CASE c = Whole
    BY <2>2, <2>3, <2>6, TermLeaves
  <2>7. CASE c = Null /\ (Stopped(Now) \/ Refused(b, Now))
    BY <2>2, <2>3, <2>5, <2>7, TermGivesUp
  <2> QED
    BY <2>3, <2>6, <2>7
<1> QED
  BY <1>1, <1>2, <1>3, <1>4, <1>5

(* The arguments of a call.                                                *)
LEMMA ArgsSteps ==
    ASSUME NEW b \in BOOLEAN, NEW ks, Within(Of("Term", b), ks), b => Added(Now), Claimed', NEW q \in BOOLEAN,
           \/ (\E n \in 1..4 : Top.todo = From(ArgsTodo(q), n)) /\ Top.collected = Nothing
           \/ Top.todo = From(ArgsTodo(q), 5) /\ Top.collected = Nothing /\ made = Whole
           \/ (\E n \in 6..8 : Top.todo = From(ArgsTodo(q), n)) /\ Top.collected = Whole
    PROVE  Steps
<1> DEFINE c == Top.collected
           left(n) == From(ArgsTodo(q), n)
<1>1. CASE Top.todo = left(1) /\ c = Nothing
  <2>1. Begins(Top.todo, Take("lpar"), left(2)) /\ left(2) # <<>>
    BY <1>1, ArgsItems, NotAtTheEnd
  <2>2. TermSteady(left(2), c)
    BY <1>1 DEF TermSteady
  <2> QED
    BY <2>1, <2>2, WithinItem, TakeDoes, TermGoes
<1>2. CASE Top.todo = left(2) /\ c = Nothing
  <2>1. Begins(Top.todo, Deferred(TRUE), left(3)) /\ left(3) # <<>>
    BY <1>2, ArgsItems, NotAtTheEnd
  <2>2. TermSteady(left(3), c)
    BY <1>2 DEF TermSteady
  <2> QED
    BY <2>1, <2>2, WithinItem, DeferredDoes, TermGoes
<1>3. CASE Top.todo = left(3) /\ c = Nothing
  <2>1. Begins(Top.todo, Call("ArgList"), left(4)) /\ left(4) # <<>>
    BY <1>3, ArgsItems, NotAtTheEnd
  <2>2. TermSteady(left(4), c)
    BY <1>3 DEF TermSteady
  <2>3. Steady(left(4), c, Of("Term", b), Now)
    BY <2>2, TermFrames
  <2>4. OnWith(left(4), c, Of("Term", b), Now) /\ \A j : Keeps(left(4), c, Of("Term", b), j, Now)
    BY <2>1, <2>3, SteadyKeeps
  <2>5. Call("ArgList") \in {Call(f) : f \in PlainFunctions}
    BY DEF PlainFunctions
  <2> QED
    BY <2>1, <2>4, <2>5, PlainCallSteps
<1>4. CASE Top.todo = left(4) /\ c = Nothing
  <2>1. Begins(Top.todo, BuildCall(q), left(5)) /\ left(5) # <<>>
    BY <1>4, ArgsItems, NotAtTheEnd
  <2>2. GoesOn(left(5), c) /\ Quiet /\ made' = Whole
    BY <2>1, WithinItem, BuildCallDoes
  <2>3. b => Added(Now')
    BY <2>2, MovesOn
  <2>4. TermReady(left(5), c, b, Now')
    BY <1>4, <2>2, NowFields DEF TermReady
  <2>5. Ready(left(5), c, Of("Term", b), Now')
    BY <2>3, <2>4, TermFrames
  <2> QED
    BY <2>1, <2>2, <2>5, ReadyGoes
<1>5. CASE Top.todo = left(5) /\ c = Nothing /\ made = Whole
  <2>1. Begins(Top.todo, Collect, left(6)) /\ left(6) # <<>>
    BY <1>5, ArgsItems, NotAtTheEnd
  <2>2. GoesOn(left(6), Lower(c, made)) /\ made' = made /\ Quiet
    BY <2>1, WithinItem, CollectDoes
  <2>3. Lower(c, made) = Whole
    BY <1>5 DEF Lower, Nothing, Whole
  <2>4. TermSteady(left(6), Whole)
    BY DEF TermSteady
  <2> QED
    BY <2>1, <2>2, <2>3, <2>4, TermGoes
<1>6. CASE Top.todo = left(6) /\ c = Whole
  <2>1. Begins(Top.todo, Take("rpar"), left(7)) /\ left(7) # <<>>
    BY <1>6, ArgsItems, NotAtTheEnd
  <2>2. TermSteady(left(7), c)
    BY <1>6 DEF TermSteady
  <2> QED
    BY <2>1, <2>2, WithinItem, TakeDoes, TermGoes
<1>7. CASE Top.todo = left(7) /\ c = Whole
  <2>1. Begins(Top.todo, Deferred(FALSE), left(8)) /\ left(8) # <<>>
    BY <1>7, ArgsItems, NotAtTheEnd
  <2>2. TermSteady(left(8), c)
    BY <1>7 DEF TermSteady
  <2> QED
    BY <2>1, <2>2, WithinItem, DeferredDoes, TermGoes
<1>8. CASE Top.todo = left(8) /\ c = Whole
  <2>1. Begins(Top.todo, Build, <<>>)
    BY <1>8, ArgsItems
  <2>2. Leaves(NewNode(c)) /\ Quiet
    BY <2>1, WithinItem, BuildDoes
  <2>3. NewNode(c) = Whole
    BY <1>8 DEF NewNode, Nothing, Whole
  <2> QED
    BY <2>2, <2>3, TermLeaves
<1>9. /\ \A n \in 1..4 : n = 1 \/ n = 2 \/ n = 3 \/ n = 4
      /\ \A n \in 6..8 : n = 6 \/ n = 7 \/ n = 8
  OBVIOUS
<1> HIDE DEF left, c
<1>10. \/ (\E n \in 1..4 : Top.todo = left(n)) /\ c = Nothing
       \/ Top.todo = left(5) /\ c = Nothing /\ made = Whole
       \/ (\E n \in 6..8 : Top.todo = left(n)) /\ c = Whole
  BY DEF left, c
<1> QED
  BY <1>1, <1>2, <1>3, <1>4, <1>5, <1>6, <1>7, <1>8, <1>9, <1>10, Zenon

(* A member's name behind a dot.  Where there is none, and none was left   *)
(* out, a type was read.                                                   *)
LEMMA DotSteps ==
    ASSUME NEW b \in BOOLEAN, NEW ks, Within(Of("Term", b), ks), b => Added(Now), Claimed',
           Top.collected = Nothing,
           \/ Top.todo = From(DotTodo, 1) /\ token_ = "dot"
           \/ Top.todo = From(DotTodo, 2) /\ (DotsHaveNames(text) => token_ \in {"name", "ntype"})
           \/ Top.todo = From(DotTodo, 3)
    PROVE  Steps
<1>1. CASE Top.todo = From(DotTodo, 1) /\ token_ = "dot"
  <2>1. Begins(Top.todo, Take("dot"), From(DotTodo, 2)) /\ From(DotTodo, 2) # <<>>
    BY <1>1, DotItems, NotAtTheEnd
  <2>2. /\ GoesOn(From(DotTodo, 2), Top.collected) /\ made' = made /\ Quiet /\ made \in {Null, Whole}
        /\ DotsHaveNames(text) => token_' \in {"name", "ntype"}
    BY <1>1, <2>1, WithinItem, TakeDoes
  <2>3. Now'.text = text /\ Now'.token = token_'
    BY <2>2, MovesOn, NowFields DEF Onward
  <2>4. TermReady(From(DotTodo, 2), Top.collected, b, Now')
    BY <2>2, <2>3 DEF TermReady
  <2> QED
    BY <2>1, <2>2, <2>4, TermGetsReady
<1>2. CASE Top.todo = From(DotTodo, 2) /\ (DotsHaveNames(text) => token_ \in {"name", "ntype"})
  <2>1. Begins(Top.todo, Need("name"), From(DotTodo, 3)) /\ From(DotTodo, 3) # <<>>
    BY <1>2, DotItems, NotAtTheEnd
  <2>2. /\ Quiet
        /\ \/ GoesOn(From(DotTodo, 3), Top.collected) /\ made' = made
           \/ token_ # "name" /\ Leaves(Null) /\ Complains
    BY <2>1, WithinItem, NeedDoes
  <2>3. CASE GoesOn(From(DotTodo, 3), Top.collected) /\ made' = made
    <3>1. TermSteady(From(DotTodo, 3), Top.collected)
      BY DEF TermSteady
    <3> QED
      BY <2>1, <2>2, <2>3, <3>1, TermGoes
  <2>4. CASE token_ # "name" /\ Leaves(Null) /\ Complains
    <3>1. token_' = "ntype"
      BY <1>2, <2>4 DEF Complains
    <3>2. Refused(b, Now')
      BY <3>1, NowFields DEF Refused, set_argm_
    <3> QED
      BY <2>2, <2>4, <3>2, TermGivesUp
  <2> QED
    BY <2>2, <2>3, <2>4
<1>3. CASE Top.todo = From(DotTodo, 3)
  BY <1>3, DotItems, ArgmCallSteps
<1> QED
  BY <1>1, <1>2, <1>3

LEMMA FailSteps ==
    ASSUME NEW b \in BOOLEAN, NEW ks, Within(Of("Term", b), ks), b => Added(Now), Top.collected = Nothing,
           NEW n \in {1, 2}, Top.todo = From(FailTodo, n), Stopped(Now) \/ Refused(b, Now)
    PROVE  Steps
<1>1. CASE n = 1
  <2>1. Begins(Top.todo, Fail, From(FailTodo, 2)) /\ From(FailTodo, 2) # <<>>
    BY <1>1, FailItems, NotAtTheEnd
  <2>2. /\ GoesOn(From(FailTodo, 2), Top.collected) /\ made' = made /\ Quiet /\ Complains
        /\ made \in {Null, Whole}
    BY <2>1, WithinItem, FailDoes
  <2>3. Onward(Now, Now') /\ Now'.token = Now.token
    BY <2>2, MovesOn DEF Complains
  <2>4. Stopped(Now') \/ Refused(b, Now')
    BY <2>3, SeenStays DEF Refused
  <2>5. TermReady(From(FailTodo, 2), Top.collected, b, Now')
    BY <2>4 DEF TermReady
  <2> QED
    BY <2>1, <2>2, <2>5, TermGetsReady
<1>2. CASE n = 2
  <2>1. Begins(Top.todo, Give(Null), <<>>)
    BY <1>2, FailItems
  <2>2. Quiet /\ Leaves(Null) /\ UNCHANGED baseVars
    BY <2>1, WithinItem, GiveDoes
  <2>3. Onward(Now, Now') /\ Now'.token = Now.token
    BY <2>2, MovesOn DEF baseVars, scanVars
  <2>4. Stopped(Now') \/ Refused(b, Now')
    BY <2>3, SeenStays DEF Refused
  <2> QED
    BY <2>2, <2>4, TermGivesUp
<1> QED
  BY <1>1, <1>2

-----------------------------------------------------------------------------
(* The steps of every kind.                                                *)
LEMMA AnySteps ==
    ASSUME NEW ks, Within(AnyNode, ks), Claimed',
           AnySteady(Top.todo, Top.collected, Now) \/ AnyReady(Top.todo, Top.collected, Now)
    PROVE  Steps
<1> DEFINE d == Top.todo
           c == Top.collected
<1>0. Now.made = made
  BY NowFields
<1>1. CASE d \in Seq(PlainItems) \ {<<>>} /\ c \in {Nothing, Null, Whole}
  BY <1>1, PlainSteps
<1>2. CASE \/ \E n \in 1..3 : d = From(IfTodo, n) /\ c = Nothing
           \/ \E n \in {4, 5} : d = From(IfTodo, n) /\ c = Nothing /\ Returns("Expr", FALSE, made, Now)
           \/ d = From(IfTodo, 6) /\ NullRefuses(c, FALSE, Now)
  <2>1. \/ \E n \in 1..3 : d = From(IfTodo, n) /\ c = Nothing
        \/ (\E n \in {4, 5} : d = From(IfTodo, n)) /\ c = Nothing /\ Returns("Expr", FALSE, made, Now)
        \/ d = From(IfTodo, 6) /\ NullRefuses(c, FALSE, Now)
    BY <1>2
  <2> QED
    BY <2>1, IfCondition
<1>3. CASE \/ \E n \in {7, 8, 9, 10, 12} : d = From(IfTodo, n) /\ NullStops(c, Now)
           \/ d = From(IfTodo, 11) /\ NullStops(c, Now) /\ made = Whole
  <2>1. \/ (\E n \in {7, 8, 9, 10, 12} : d = From(IfTodo, n)) /\ NullStops(c, Now)
        \/ d = From(IfTodo, 11) /\ NullStops(c, Now) /\ made = Whole
    BY <1>3
  <2> QED
    BY <2>1, IfBranches
<1>4. CASE \/ d = From(IfTodo, 13) /\ NullStops(c, Now)
           \/ d = From(IfTodo, 14) /\ c = Whole
           \/ d = From(IfTodo, 14) /\ NullStops(c, Now) /\ made = Null
  BY <1>4, IfElses
<1> HIDE DEF d, c
<1>5. AnySteady(d, c, Now) \/ AnyReady(d, c, Now)
  BY DEF d, c
<1> QED
  BY <1>0, <1>1, <1>2, <1>3, <1>4, <1>5 DEF AnySteady, AnyReady

LEMMA LevelFrameSteps ==
    ASSUME NEW f \in DOMAIN Below, NEW b \in BOOLEAN, NEW ks, Within(Of(f, b), ks), b => Added(Now), Claimed',
           \/ LevelSteady(Top.todo, Top.collected, f, b, Now)
           \/ LevelReady(Top.todo, Top.collected, f, b, Now)
    PROVE  Steps
<1> DEFINE d == Top.todo
           c == Top.collected
<1>0. Now.made = made /\ Now.token = token_
  BY NowFields
<1>1. CASE \/ d = From(LevelTodo(f), 1) /\ c = Nothing
           \/ d = From(LevelTodo(f), 2) /\ c = Nothing /\ Returns(Below[f], b, made, Now)
           \/ d = From(LevelTodo(f), 3) /\ c = made /\ Returns(Below[f], b, made, Now)
           \/ d = From(LevelTodo(f), 4) /\ c = Whole /\ Returns(Below[f], b, Whole, Now)
  BY <1>1, LevelSteps
<1>2. CASE d = AgainTodo(f) /\ c = Whole /\ token_ \in Operators[f]
  BY <1>2, AgainSteps
<1>3. ASSUME NEW t \in Operators[f],
             \/ /\ \E n \in {1, 2} : d = From(PrimeTodo(f, t), n)
                /\ NullStops(c, Now) /\ Operated(f, b, Now)
             \/ /\ d = From(PrimeTodo(f, t), 3) /\ NullStops(c, Now) /\ Operated(f, b, Now)
                /\ Returns(Operand[f], Strict(f, b), made, Now)
             \/ d = From(PrimeTodo(f, t), 4) /\ Operands(f, b, c, Now)
             \/ d = From(PrimeTodo(f, t), 5) /\ c \in {Null, Whole} /\ Returns(f, b, made, Now)
      PROVE  Steps
  BY <1>3, OperandSteps
<1>4. CASE \/ d = From(EndTodo(f), 1) /\ Operands(f, b, c, Now) /\ token_ \notin Operators[f]
           \/ d = From(EndTodo(f), 2) /\ c \in {Null, Whole} /\ Returns(f, b, c, Now)
  BY <1>4, EndSteps
<1> HIDE DEF d, c
<1>5. LevelSteady(d, c, f, b, Now) \/ LevelReady(d, c, f, b, Now)
  BY DEF d, c
<1>6. CASE LevelSteady(d, c, f, b, Now)
  BY <1>1, <1>3, <1>6 DEF LevelSteady
<1>7. CASE LevelReady(d, c, f, b, Now)
  BY <1>0, <1>1, <1>2, <1>3, <1>4, <1>7 DEF LevelReady
<1> QED
  BY <1>5, <1>6, <1>7

LEMMA TermFrameSteps ==
    ASSUME NEW b \in BOOLEAN, NEW ks, Within(Of("Term", b), ks), b => Added(Now), Claimed',
           TermSteady(Top.todo, Top.collected) \/ TermReady(Top.todo, Top.collected, b, Now)
    PROVE  Steps
<1> DEFINE d == Top.todo
           c == Top.collected
<1>0. Now.made = made /\ Now.token = token_ /\ Now.text = text
  BY NowFields
<1>1. ASSUME NEW n \in {1, 2}, NEW t \in {"astk", "amps"}, d = From(PointerTodo(t), n), c = Nothing
      PROVE  Steps
  BY <1>1, PointerSteps
<1>2. ASSUME NEW n \in {1, 2}, NEW t \in {"numr", "true", "false"}, d = From(ValueTodo(t), n), c = Nothing
      PROVE  Steps
  BY <1>2, ValueSteps
<1>3. CASE c = Nothing /\ ((\E n \in {1, 2} : d = From(SkipTodo, n)) \/ d = RetryTodo)
  BY <1>3, SkipSteps
<1>4. CASE \E n \in 1..3 : d = From(NameTodo, n) /\ c = Nothing
  BY <1>4, NameSteps
<1>5. CASE \/ (\E n \in {1, 2} : d = From(ParenTodo, n)) /\ c = Nothing
           \/ d = From(ParenTodo, 3) /\ c = Nothing /\ Returns("Expr", b, made, Now)
           \/ (\E n \in {4, 5} : d = From(ParenTodo, n)) /\ NullRefuses(c, b, Now)
  BY <1>5, ParenSteps
<1>6. ASSUME NEW q \in BOOLEAN,
             \/ (\E n \in 1..4 : d = From(ArgsTodo(q), n)) /\ c = Nothing
             \/ d = From(ArgsTodo(q), 5) /\ c = Nothing /\ made = Whole
             \/ (\E n \in 6..8 : d = From(ArgsTodo(q), n)) /\ c = Whole
      PROVE  Steps
  BY <1>6, ArgsSteps
<1>7. CASE /\ c = Nothing
           /\ \/ d = From(DotTodo, 1) /\ token_ = "dot"
              \/ d = From(DotTodo, 2) /\ (DotsHaveNames(text) => token_ \in {"name", "ntype"})
              \/ d = From(DotTodo, 3)
  BY <1>7, DotSteps
<1>8. CASE \E n \in {1, 2} : d = From(FailTodo, n) /\ c = Nothing /\ (Stopped(Now) \/ Refused(b, Now))
  BY <1>8, FailSteps
<1> HIDE DEF d, c
<1>9. TermSteady(d, c) \/ TermReady(d, c, b, Now)
  BY DEF d, c
<1>10. CASE TermSteady(d, c)
  BY <1>1, <1>2, <1>3, <1>4, <1>5, <1>6, <1>7, <1>10 DEF TermSteady
<1>11. CASE TermReady(d, c, b, Now)
  BY <1>0, <1>5, <1>6, <1>7, <1>8, <1>11 DEF TermReady
<1> QED
  BY <1>9, <1>10, <1>11

LEMMA FrameSteps ==
    ASSUME NEW k, NEW ks, Within(k, ks), Claimed', Ready(Top.todo, Top.collected, k, Now)
    PROVE  Steps
<1>1. CASE k = AnyNode /\ (\/ AnySteady(Top.todo, Top.collected, Now)
                           \/ AnyReady(Top.todo, Top.collected, Now))
  BY <1>1, AnySteps
<1>2. CASE k = NoElse /\ Top.todo = NoElseTodo
  BY <1>2, NoElseSteps
<1>3. ASSUME NEW f \in DOMAIN Below, NEW b \in BOOLEAN, k = Of(f, b), b => Added(Now),
             \/ LevelSteady(Top.todo, Top.collected, f, b, Now)
             \/ LevelReady(Top.todo, Top.collected, f, b, Now)
      PROVE  Steps
  BY <1>3, LevelFrameSteps
<1>4. ASSUME NEW b \in BOOLEAN, k = Of("Term", b), b => Added(Now),
             TermSteady(Top.todo, Top.collected) \/ TermReady(Top.todo, Top.collected, b, Now)
      PROVE  Steps
  BY <1>4, TermFrameSteps
<1>5. k # Main
  BY DEF Within
<1> QED
  BY <1>1, <1>2, <1>3, <1>4, <1>5 DEF Ready, Steady

-----------------------------------------------------------------------------
(* Every step moves the scanner on, whatever the frames are.               *)
LEMMA CallsStand ==
    ASSUME Definitions \/ Declarations \/ Statements \/ Expressions
    PROVE  UNCHANGED baseVars /\ ~Done
<1>1. CASE Definitions
  <2>1. /\ DefList => UNCHANGED baseVars /\ ~Done
        /\ FuncDef_ => UNCHANGED baseVars /\ ~Done
        /\ ParseFuncDef => UNCHANGED baseVars /\ ~Done
        /\ ParList => UNCHANGED baseVars /\ ~Done
        /\ ParListPrime => UNCHANGED baseVars /\ ~Done
        /\ ClassDef_ => UNCHANGED baseVars /\ ~Done
        /\ InhtList => UNCHANGED baseVars /\ ~Done
        /\ InhtListPrime => UNCHANGED baseVars /\ ~Done
        /\ MemberList => UNCHANGED baseVars /\ ~Done
        /\ Member => UNCHANGED baseVars /\ ~Done
        /\ BuildNameDecl => UNCHANGED baseVars /\ ~Done
    BY DEF DefList, FuncDef_, ParseFuncDef, ParList, ParListPrime, ClassDef_, InhtList, InhtListPrime,
           MemberList, Member, BuildNameDecl, Calling, Enter
  <2> QED
    BY <1>1, <2>1, Zenon DEF Definitions
<1>2. CASE Declarations
  <2>1. /\ Type => UNCHANGED baseVars /\ ~Done
        /\ NameDecl => UNCHANGED baseVars /\ ~Done
        /\ NameList => UNCHANGED baseVars /\ ~Done
        /\ NameListPrime => UNCHANGED baseVars /\ ~Done
        /\ NameAfterComma => UNCHANGED baseVars /\ ~Done
        /\ NameListEnd => UNCHANGED baseVars /\ ~Done
    BY DEF Type, NameDecl, NameList, NameListPrime, NameAfterComma, NameListEnd, Calling, Enter
  <2> QED
    BY <1>2, <2>1, Zenon DEF Declarations
<1>3. CASE Statements
  <2>1. /\ Stmts => UNCHANGED baseVars /\ ~Done
        /\ IfStmt => UNCHANGED baseVars /\ ~Done
        /\ WhileStmt => UNCHANGED baseVars /\ ~Done
        /\ DeclStmt => UNCHANGED baseVars /\ ~Done
        /\ AssignStmt => UNCHANGED baseVars /\ ~Done
        /\ ReturnStmt => UNCHANGED baseVars /\ ~Done
        /\ IfElse => UNCHANGED baseVars /\ ~Done
    BY DEF Stmts, IfStmt, WhileStmt, DeclStmt, AssignStmt, ReturnStmt, IfElse, Calling, Enter
  <2> QED
    BY <1>3, <2>1, Zenon DEF Statements
<1>4. CASE Expressions
  <2>1. /\ Level => UNCHANGED baseVars /\ ~Done
        /\ ExprPrime => UNCHANGED baseVars /\ ~Done
        /\ Factor => UNCHANGED baseVars /\ ~Done
        /\ FactorPrime => UNCHANGED baseVars /\ ~Done
        /\ Argm => UNCHANGED baseVars /\ ~Done
        /\ ArgList => UNCHANGED baseVars /\ ~Done
        /\ ArgListPrime => UNCHANGED baseVars /\ ~Done
        /\ Argument => UNCHANGED baseVars /\ ~Done
    BY DEF Level, ExprPrime, Factor, FactorPrime, Argm, ArgList, ArgListPrime, Argument, Calling, Doing,
           Enter
  <2> QED
    BY <1>4, <2>1, Zenon DEF Expressions
<1> QED
  BY <1>1, <1>2, <1>3, <1>4

Reads == UNCHANGED baseVars \/ NextToken \/ \E kind : Error(kind)

LEMMA TokensRead ==
    ASSUME Tokens
    PROVE  Reads /\ ~Done
<1>1. ReadFirst => Reads /\ ~Done
  BY DEF ReadFirst, Doing, Reads
<1>2. AcceptToken => Reads /\ ~Done
  BY DEF AcceptToken, Accept, Doing, Reads
<1>3. NeedToken => Reads /\ ~Done
  BY DEF NeedToken, Accept, Doing, Reads
<1>4. TryToken => Reads /\ ~Done
  BY DEF TryToken, TryAndAccept, Doing, Reads
<1>5. ExpectToken => Reads /\ ~Done
  BY DEF ExpectToken, AcceptEmpty, Doing, Reads
<1>6. RecoverOrStop => Reads /\ ~Done
  BY DEF RecoverOrStop, Doing, Reads
<1>7. ConsumeTokensUntil => Reads /\ ~Done
  BY DEF ConsumeTokensUntil, Doing, Reads
<1>8. PlainTypeOrPointer => Reads /\ ~Done
  BY DEF PlainTypeOrPointer, TryAndAccept, Doing, Reads
<1>9. EndOperands => Reads /\ ~Done
  BY DEF EndOperands, Doing, Reads
<1> QED
  BY <1>1, <1>2, <1>3, <1>4, <1>5, <1>6, <1>7, <1>8, <1>9, Zenon DEF Tokens

LEMMA ReportsRead ==
    ASSUME Reports
    PROVE  (Reads \/ FatalError \/ LeaveUnreported) /\ ~Done
<1>1. ReportError => Reads /\ ~Done
  BY DEF ReportError, Doing, Reads
<1>2. ReportNoBody => (Reads \/ FatalError) /\ ~Done
  BY DEF ReportNoBody, Doing, Reads
<1>3. DeclarationFits => Reads /\ ~Done
  BY DEF DeclarationFits, Doing, Reads
<1>4. DeclarationClashes => Reads /\ ~Done
  BY DEF DeclarationClashes, Doing, Reads
<1>5. NameKnown => Reads /\ ~Done
  BY DEF NameKnown, Doing, Reads
<1>6. NameUnknown => Reads /\ ~Done
  BY DEF NameUnknown, Doing, Reads
<1>7. BuildFunctionCall => Reads /\ ~Done
  BY DEF BuildFunctionCall, Doing, Reads
<1>8. LeaveUnreported => ~Done
  BY DEF LeaveUnreported, Doing
<1>9. LeaveWithoutReturn => Reads /\ ~Done
  BY DEF LeaveWithoutReturn, Doing, Reads
<1>10. DeclarationIsInherited => Reads /\ ~Done
  BY DEF DeclarationIsInherited, Doing, Reads
<1> QED
  BY <1>1, <1>2, <1>3, <1>4, <1>5, <1>6, <1>7, <1>8, <1>9, <1>10, Zenon DEF Reports

LEMMA NodesRead ==
    ASSUME Nodes
    PROVE  (Reads \/ EndProg) /\ ~Done
<1>1. GiveNode => Reads /\ ~Done
  BY DEF GiveNode, Doing, Reads
<1>2. PassNullOn => Reads /\ ~Done
  BY DEF PassNullOn, Doing, Reads
<1>3. ReturnUnlessNull => Reads /\ ~Done
  BY DEF ReturnUnlessNull, Doing, Reads
<1>4. CollectNode => Reads /\ ~Done
  BY DEF CollectNode, Doing, Reads
<1>5. BuildNode => Reads /\ ~Done
  BY DEF BuildNode, Doing, Reads
<1>6. BuildIfNode => Reads /\ ~Done
  BY DEF BuildIfNode, Doing, Reads
<1>7. KeepDefinition => Reads /\ ~Done
  BY DEF KeepDefinition, Doing, Reads
<1>8. KeepClassMember => Reads /\ ~Done
  BY DEF KeepClassMember, Doing, Reads
<1>9. EndProg => ~Done
  BY DEF EndProg, Doing
<1> QED
  BY <1>1, <1>2, <1>3, <1>4, <1>5, <1>6, <1>7, <1>8, <1>9, Zenon DEF Nodes

LEMMA ContextReads ==
    ASSUME Context
    PROVE  (Reads \/ EndClass) /\ ~Done
<1>1. SetDeferred => Reads /\ ~Done
  BY DEF SetDeferred, Doing, Reads
<1>2. SetInside => Reads /\ ~Done
  BY DEF SetInside, Doing, Reads
<1>3. AcceptClassName => Reads /\ ~Done
  BY DEF AcceptClassName, Accept, Doing, Reads
<1>4. AddParent => Reads /\ ~Done
  BY DEF AddParent, Doing, Reads
<1>5. FindParents => Reads /\ ~Done
  BY DEF FindParents, Doing, Reads
<1>6. EndClass => ~Done
  BY DEF EndClass, Doing
<1> QED
  BY <1>1, <1>2, <1>3, <1>4, <1>5, <1>6, Zenon DEF Context

(* The end of the program: what is missing is reported, and a tree is      *)
(* handed on when nothing is.                                              *)
LEMMA EndMoves ==
    ASSUME Scanned_, EndProg
    PROVE  Moves
<1> DEFINE missing == (IF func_defs = 0 THEN 1 ELSE 0) + num_fatal_errors_
           more == IF missing = 0 /\ ~Check({"eof"}) THEN 1 ELSE 0
           sum == missing + more
<1>1. /\ (Report(sum, "syntax", TRUE) /\ num_fatal_errors_' = num_fatal_errors_) \/ UNCHANGED errorVars
      /\ UNCHANGED <<text, scanVars>>
  BY DEF EndProg
<1> HIDE DEF sum
<1>2. continue_parsing_ \in BOOLEAN
  BY DEF Scanned_
<1>3. UNCHANGED <<text, current_position_, token_>>
  BY <1>1 DEF scanVars
<1>4. CASE Report(sum, "syntax", TRUE) /\ num_fatal_errors_' = num_fatal_errors_
  <2>1. /\ Blames /\ continue_parsing_' \in BOOLEAN
        /\ continue_parsing_ = FALSE => continue_parsing_' = FALSE
    BY <1>2, <1>4, ReportBlames
  <2> QED
    BY <1>3, <1>4, <2>1, StandingMoves
<1>5. CASE UNCHANGED errorVars
  BY <1>2, <1>3, <1>5, StandingMoves DEF errorVars, Blames
<1> QED
  BY <1>1, <1>4, <1>5

LEMMA ReadsMove ==
    ASSUME Scanned_, Reads
    PROVE  Moves
BY SameMoves, NextTokenMoves, ErrorMoves DEF Reads

LEMMA EveryStepMoves ==
    ASSUME Scanned_, Parse
    PROVE  Moves /\ ~Done
<1>1. CASE Definitions \/ Declarations \/ Statements \/ Expressions
  BY <1>1, CallsStand, SameMoves
<1>2. CASE Tokens
  BY <1>2, TokensRead, ReadsMove
<1>3. CASE Reports
  <2>1. CASE Reads
    BY <1>3, <2>1, ReportsRead, ReadsMove
  <2>2. CASE FatalError
    BY <1>3, <2>2, ReportsRead, FatalErrorMoves
  <2>3. CASE LeaveUnreported
    <3>1. /\ UNCHANGED <<text, current_position_, token_, num_fatal_errors_, continue_parsing_>>
          /\ continue_parsing_ \in BOOLEAN /\ Blames
      BY <2>3 DEF LeaveUnreported, scanVars, Blames, Scanned_
    <3> QED
      BY <1>3, <3>1, ReportsRead, StandingMoves
  <2> QED
    BY <1>3, <2>1, <2>2, <2>3, ReportsRead
<1>4. CASE Nodes
  BY <1>4, NodesRead, ReadsMove, EndMoves
<1>5. CASE Context
  <2>1. CASE Reads
    BY <1>5, <2>1, ContextReads, ReadsMove
  <2>2. CASE EndClass
    <3>1. /\ UNCHANGED <<text, current_position_, token_, num_fatal_errors_, continue_parsing_>>
          /\ continue_parsing_ \in BOOLEAN /\ Blames
      BY <2>2 DEF EndClass, RegNameType, scanVars, errorVars, Blames, Scanned_
    <3> QED
      BY <1>5, <3>1, ContextReads, StandingMoves
  <2> QED
    BY <1>5, <2>1, <2>2, ContextReads
<1> QED
  BY <1>1, <1>2, <1>3, <1>4, <1>5 DEF Parse

-----------------------------------------------------------------------------
(* The frame at the bottom.                                                *)
LEMMA MainFrames ==
    ASSUME NEW s, NEW n \in 1..3
    PROVE  Steady(From(MainTodo, n), Nothing, Main, s)
BY DEF Steady

LEMMA MainGoesOn ==
    ASSUME NEW ks \in Seq(Kinds), Pending(Tail(frames), ks, Main, Now), Quiet, Trees, made' = made,
           NEW n \in {2, 3}, GoesOn(From(MainTodo, n), Nothing), From(MainTodo, n) # <<>>
    PROVE  Steps
<1> DEFINE rest == Tail(frames)
           s == Now'
           r == From(MainTodo, n)
<1>1. Pending(rest, ks, Main, s) /\ Main \in Kinds
  BY PendingStays, KindsDiffer DEF Quiet, Moves
<1>2. Steady(r, Nothing, Main, s)
  BY MainFrames
<1>3. OnWith(r, Nothing, Main, s) /\ r # <<>>
  BY <1>2 DEF OnWith, Ready
<1>4. frames' = Going(r, Nothing, rest)
  BY DEF GoesOn
<1> HIDE DEF rest, s, r
<1>5. Running(Going(r, Nothing, rest), s) /\ Going(r, Nothing, rest) # <<>>
  BY <1>1, <1>3, FrameGoesOn
<1>6. made' \in {Null, Whole} /\ Moves /\ UNCHANGED treeVars
  BY DEF Trees, Quiet
<1>7. Trees'
  BY <1>4, <1>5, <1>6, TreesStay
<1> QED
  BY <1>4, <1>5, <1>7 DEF Steps, s

LEMMA MainCalls ==
    ASSUME NEW ks \in Seq(Kinds), Pending(Tail(frames), ks, Main, Now), Scanned_, Trees, Next, ~Done,
           Top.todo = From(MainTodo, 2), Top.collected = Nothing
    PROVE  Steps
<1>1. /\ Begins(Top.todo, Call("DefList"), From(MainTodo, 3)) /\ From(MainTodo, 3) # <<>>
      /\ At(Call("DefList"), From(MainTodo, 3))
  BY MainItems, NotAtTheEnd DEF At
<1>2. DefList
  BY <1>1, ItemOfTop, CallFields, CallsAreDone
<1>3. PICK todo \in Seq(PlainItems) : Enter(todo)
  BY <1>2, DefinitionsArePlain DEF PlainBody
<1> DEFINE rest == Tail(frames)
           s == Now'
           d == From(MainTodo, 3)
<1>4. /\ Quiet /\ UNCHANGED baseVars /\ made' = made
      /\ frames' = IF todo = <<>> THEN Going(d, Nothing, rest)
                   ELSE <<Frame(todo, IF Call("DefList").do = "Call" THEN Nothing ELSE Top.collected)>>
                          \o Going(d, Nothing, rest)
  BY <1>1, <1>3, EnterDoes
<1>5. CASE todo = <<>>
  BY <1>1, <1>4, <1>5, MainGoesOn DEF GoesOn
<1>6. CASE todo # <<>>
  <2>1. frames' = <<Frame(todo, Nothing)>> \o Going(d, Nothing, rest)
    BY <1>4, <1>6, CallFields
  <2>2. Steady(todo, Nothing, AnyNode, s)
    BY <1>6 DEF Steady, AnySteady
  <2>3. Ready(todo, Nothing, AnyNode, s)
    BY <2>2 DEF Ready
  <2>4. Keeps(d, Nothing, Main, AnyNode, s)
    BY <1>1, MainFrames, SteadyKeeps
  <2>5. Pending(rest, ks, Main, s) /\ Main \in Kinds /\ AnyNode \in Kinds /\ AnyNode # Main
    BY <1>4, PendingStays, KindsDiffer DEF Quiet, Moves
  <2> HIDE DEF rest, s, d
  <2>6. /\ Running(<<Frame(todo, Nothing)>> \o Going(d, Nothing, rest), s)
        /\ <<Frame(todo, Nothing)>> \o Going(d, Nothing, rest) # <<>>
    BY <1>6, <2>3, <2>4, <2>5, EntersFunction
  <2>7. made' \in {Null, Whole} /\ Moves /\ UNCHANGED treeVars
    BY <1>4 DEF Trees, Quiet
  <2>8. Trees'
    BY <2>1, <2>6, <2>7, TreesStay
  <2> QED
    BY <2>1, <2>6, <2>8 DEF Steps, s
<1> QED
  BY <1>5, <1>6

(* A tree is handed on when there is a function, and none without a body:  *)
(* then no member is missing, either.                                      *)
LEMMA MainEnds ==
    ASSUME NEW ks \in Seq(Kinds), Pending(Tail(frames), ks, Main, Now), Scanned_, Trees, Next, ~Done,
           Top.todo = From(MainTodo, 3), Top.collected = Nothing
    PROVE  Steps
<1>1. Begins(Top.todo, Finish, <<>>) /\ At(Finish, <<>>)
  BY MainItems DEF At
<1>2. item = Finish /\ Finish.do = "Finish" /\ With(<<>>, Top.collected) = Going(<<>>, Top.collected, Tail(frames))
  BY <1>1, ItemOfTop, ItemFields DEF Finish
<1>3. EndProg
  BY <1>1, <1>2, ItemsAreDone DEF At
<1>4. Tail(frames) = <<>>
  BY DEF Pending
<1>5. frames' = <<>>
  BY <1>2, <1>3, <1>4 DEF EndProg, Go, Going
<1>6. Running(frames', Now')
  BY <1>5 DEF Running
<1> DEFINE missing == (IF func_defs = 0 THEN 1 ELSE 0) + num_fatal_errors_
           more == IF missing = 0 /\ ~Check({"eof"}) THEN 1 ELSE 0
<1>7. /\ func_defs \in {0, 1} /\ num_fatal_errors_ \in {0, 1} /\ tree \in {Nothing, Holed, Whole}
      /\ made' = made /\ func_defs' = func_defs /\ tree' = tree /\ token_' = token_
      /\ num_fatal_errors_' = num_fatal_errors_
      /\ ast' = IF missing > 0 THEN Null ELSE tree
  BY <1>3 DEF EndProg, Trees, Scanned_, scanVars, errorVars
<1>8. missing \in {0, 1, 2} /\ (missing = 0 => func_defs = 1 /\ num_fatal_errors_ = 0)
  BY <1>7
<1>9. missing = 0 => tree = Whole
  BY <1>7, <1>8 DEF Trees
<1>10. ast' = (IF missing = 0 THEN Whole ELSE Null)
  BY <1>7, <1>8, <1>9
<1>11. blamed' = "none" => missing = 0 /\ token_ = "eof"
  <2>1. /\ missing + more > 0 => blamed' = IF blamed = "none" \/ "syntax" = "meaning" THEN "syntax" ELSE blamed
        /\ (missing = 0 /\ token_ # "eof") => more = 1
    BY <1>3 DEF EndProg, Report, Check
  <2>2. more \in {0, 1} /\ (missing # 0 \/ more = 1 => missing + more > 0)
    BY <1>8
  <2> QED
    BY <2>1, <2>2
<1>12. Trees'
  BY <1>7, <1>10, <1>11 DEF Trees
<1> QED
  BY <1>6, <1>12 DEF Steps

LEMMA MainSteps ==
    ASSUME NEW ks \in Seq(Kinds), Pending(Tail(frames), ks, Main, Now), Scanned_, Trees, Next, ~Done,
           NEW n \in 1..3, Top.todo = From(MainTodo, n), Top.collected = Nothing
    PROVE  Steps
<1>1. CASE n = 1
  <2>1. /\ Begins(Top.todo, Begin, From(MainTodo, 2)) /\ From(MainTodo, 2) # <<>>
        /\ At(Begin, From(MainTodo, 2))
    BY <1>1, MainItems, NotAtTheEnd DEF At
  <2>2. GoesOn(From(MainTodo, 2), Nothing) /\ made' = made /\ Quiet
    BY <2>1, BeginDoes
  <2> QED
    BY <2>1, <2>2, MainGoesOn
<1>2. CASE n = 2
  BY <1>2, MainCalls
<1>3. CASE n = 3
  BY <1>3, MainEnds
<1> QED
  BY <1>1, <1>2, <1>3

-----------------------------------------------------------------------------
(* The invariant holds.                                                    *)
LEMMA InvBegins ==
    ASSUME SentenceInit
    PROVE  Inv
<1>1. /\ text \in Texts /\ current_position_ = 1 /\ token_ = "none" /\ num_fatal_errors_ = 0
      /\ continue_parsing_ = TRUE /\ blamed = "none"
      /\ frames = <<Frame(MainTodo, Nothing)>> /\ made = Null /\ func_defs = 0 /\ tree = Nothing /\ ast = Null
  BY DEF SentenceInit, Init, BaseInit, MainTodo
<1>2. Scanned_
  <2>1. text \in Seq(STRING) /\ Len(text) \in Nat
    BY <1>1, TextsAssumption, LenProperties
  <2> QED
    BY <1>1, <2>1 DEF Scanned_
<1>3. Steady(MainTodo, Nothing, Main, Now)
  BY MainItems, MainFrames
<1>4. Running(frames, Now) /\ frames # <<>>
  BY <1>1, <1>3, AloneRuns
<1>5. Trees
  BY <1>1, <1>4 DEF Done, Trees, Nothing, Holed
<1> QED
  BY <1>2, <1>4, <1>5 DEF Inv

(* A parser that has died takes no step.                                   *)
LEMMA DeadIsOver ==
    ASSUME Parse, item = Died
    PROVE  FALSE
<1>1. item.do = "Died"
  BY ItemFields DEF Died
<1>2. ~Tokens /\ ~Reports /\ ~Nodes /\ ~Context
  BY <1>1, ItemGuards, Zenon DEF Tokens, Reports, Nodes, Context
<1>3. ~Definitions /\ ~Declarations /\ ~Statements /\ ~Expressions
  BY <1>1, ItemGuards, CallGuards, Zenon DEF Definitions, Declarations, Statements, Expressions
<1> QED
  BY <1>2, <1>3 DEF Parse

LEMMA ParseKeepsInv ==
    ASSUME Inv, Parse
    PROVE  Inv'
<1>1. Scanned_ /\ Moves /\ ~Done /\ Next
  BY EveryStepMoves DEF Inv, Next
<1>2. ASSUME Claimed' PROVE Steps
  <2>1. Trees /\ Running(frames, Now) /\ frames # <<>>
    BY <1>1, <1>2 DEF Inv, Moves, Done
  <2>2. PICK k \in Kinds, ks \in Seq(Kinds) :
           /\ Ready(Top.todo, Top.collected, k, Now)
           /\ Pending(Tail(frames), ks, k, Now)
    BY <2>1 DEF Running, Top
  <2>3. IsSeq(frames)
    BY <2>1 DEF Running
  <2>4. CASE k = Main
    <3>1. Top.collected = Nothing /\ (Top.todo = <<Died>> \/ \E n \in 1..3 : Top.todo = From(MainTodo, n))
      BY <2>2, <2>4, KindsDiffer, LevelsBelow DEF Ready, Steady, Levels
    <3>2. Top.todo # <<Died>>
      BY DeadIsOver DEF item
    <3> QED
      BY <1>1, <2>1, <2>2, <2>4, <3>1, <3>2, MainSteps
  <2>5. CASE k # Main
    <3>1. Within(k, ks)
      BY <1>1, <2>1, <2>2, <2>3, <2>5 DEF Within
    <3> QED
      BY <1>2, <2>2, <3>1, FrameSteps
  <2> QED
    BY <2>4, <2>5
<1>3. Scanned_'
  BY <1>1 DEF Moves
<1> QED
  BY <1>2, <1>3 DEF Inv, Steps

LEMMA InvStays ==
    ASSUME Inv, [SentenceNext]_sentenceVars
    PROVE  Inv'
<1>1. CASE Parse
  BY <1>1, ParseKeepsInv
<1>2. CASE UNCHANGED vars
  <2>1. UNCHANGED <<text, current_position_, token_, num_fatal_errors_, continue_parsing_, blamed>>
    BY <1>2 DEF vars, baseVars, scanVars, errorVars
  <2>2. UNCHANGED <<frames, made, func_defs, tree, ast>>
    BY <1>2 DEF vars, parserVars, treeVars
  <2>3. Now' = Now
    BY <2>1, <2>2 DEF Now
  <2>4. Scanned_'
    BY <2>1 DEF Inv, Scanned_
  <2>5. Claimed' => Claimed
    BY <2>1 DEF Claimed
  <2>6. Trees => Trees'
    BY <2>1, <2>2 DEF Trees, Done
  <2>7. Running(frames, Now) => Running(frames', Now')
    BY <2>2, <2>3
  <2> QED
    BY <2>4, <2>5, <2>6, <2>7 DEF Inv
<1> QED
  BY <1>1, <1>2 DEF SentenceNext, Next, sentenceVars

LEMMA SentenceInvariant == SentenceSpec => []Inv
<1>1. SentenceInit => Inv
  BY InvBegins
<1>2. Inv /\ [SentenceNext]_sentenceVars => Inv'
  BY InvStays
<1> QED
  BY <1>1, <1>2, PTL DEF SentenceSpec

(* Whatever the file, its length and the number of errors the parser stops *)
(* at: where each dot has a name behind it and no comparison stands        *)
(* between two pluses, an error of syntax leads to no tree with a null     *)
(* pointer in it (the returns of null and the checks for null in every     *)
(* parsing function, and NewIfStmt, which makes none).                     *)
THEOREM SyntaxLeavesNoHoles == SentenceSpec => []NoHolesFromSyntax
<1>1. Inv => NoHolesFromSyntax
  <2> SUFFICES ASSUME Inv, ast = Holed, blamed \in {"none", "syntax"},
                      DotsHaveNames(text), ~ComparesBetweenPluses(text)
               PROVE  FALSE
    BY DEF NoHolesFromSyntax
  <2>1. Claimed
    BY DEF Claimed
  <2>2. ast \in {Null, Whole}
    BY <2>1 DEF Inv, Trees
  <2> QED
    BY <2>2 DEF Null, Holed, Whole
<1> QED
  BY <1>1, SentenceInvariant, PTL

(* What the unit gets of a file without an error.                          *)
CleanFilesAreTrees == Done /\ blamed = "none" => ast = Whole /\ token_ = "eof"

(* Whatever the file: when the parser ends without having reported an      *)
(* error, having skipped a token or left what C++ defines, it has read to  *)
(* the end and hands on a tree without null pointers (EndProg).            *)
THEOREM CleanParsesAreWhole == SentenceSpec => []CleanFilesAreTrees
<1>1. Inv => CleanFilesAreTrees
  <2> SUFFICES ASSUME Inv, Done, blamed = "none"
               PROVE  ast = Whole /\ token_ = "eof"
    BY DEF CleanFilesAreTrees
  <2>1. Claimed
    BY DEF Claimed
  <2> QED
    BY <2>1 DEF Inv, Trees
<1> QED
  BY <1>1, SentenceInvariant, PTL
=============================================================================
