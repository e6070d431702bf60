----------------------------- MODULE MCActivations -----------------------------
(* Activations on small programs: main, the function of the language's      *)
(* tests, one or two other functions, classes of up to two parents.         *)
EXTENDS Activations

MCBitOr(x, y) == IF x = 0 /\ y = 0 THEN 0 ELSE 1
MCBitAnd(x, y) == IF x = 0 \/ y = 0 THEN 0 ELSE 1

MCLastWord == -VM!kWordSize

(* The data segment, the last page and the page of the stack below it. *)
LastPage == [low |-> AddrSpace - PageSize, high |-> AddrSpace - 1]
MCStack == [low |-> AddrSpace - 2 * PageSize, high |-> LastPage.low - 1]
MCUser == {[low |-> 0, high |-> PageSize - 1], LastPage}

-----------------------------------------------------------------------------
S0 == [kind |-> "decl", var |-> "", size |-> Basic, private |-> FALSE, e |-> NoExpr,
       call |-> NoCall, then |-> <<>>, else |-> <<>>]
Decl(v) == [S0 EXCEPT !.var = v]
DeclSized(v, size) == [S0 EXCEPT !.var = v, !.size = size]
Set(v, e) == [S0 EXCEPT !.kind = "assign", !.var = v, !.e = e]
Ret(e) == [S0 EXCEPT !.kind = "return", !.e = e]
If(e, then, else) == [S0 EXCEPT !.kind = "if", !.e = e, !.then = then, !.else = else]
To(f, object, args) == [callee |-> f, object |-> object, args |-> args]
Do(c) == [S0 EXCEPT !.kind = "call", !.call = c]
SetTo(v, c) == [S0 EXCEPT !.kind = "assign_call", !.var = v, !.call = c]
RetTo(c) == [S0 EXCEPT !.kind = "return_call", !.call = c]

Lit(n) == [NoExpr EXCEPT !.kind = "lit", !.lit = n]
Var(v) == [NoExpr EXCEPT !.kind = "var", !.var = v]
Dot(o, v) == [NoExpr EXCEPT !.kind = "dot", !.object = o, !.var = v]
And(v) == [NoExpr EXCEPT !.kind = "and", !.var = v]

F(name, class, params, body) ==
  [name |-> name, class |-> class, params |-> params, body |-> body]
Main(body) ==
  F("main", 0, <<>>, Append(body, [S0 EXCEPT !.var = TestResult, !.private = TRUE]))
Test == F("__test", 0, <<"condition">>, <<Set(TestResult, And("condition"))>>)

NoClasses == <<>>
Program(classes, class_of, functions) ==
  [classes |-> classes, class_of |-> class_of, functions |-> functions]

-----------------------------------------------------------------------------
(* Free functions.  Function 2 is __test, 3 the one main calls, 4 the next. *)

Leaves(p, x, y) ==
  { F("g", 0, <<p>>, <<Ret(Var(p))>>),
    F("g", 0, <<>>, <<Ret(Lit(3))>>),
    F("g", 0, <<p>>, <<Decl(x), Decl(y), Set(y, Lit(5)), Set(x, Var(p)), Ret(Var(y))>>) }

Callers ==
  { F("f", 0, <<"p">>, <<RetTo(To(4, "", <<Var("p")>>))>>),
    F("f", 0, <<>>, <<RetTo(To(4, "", <<Lit(2)>>))>>) }

(* These push an argument, or keep a variable around a call. *)
Pushers ==
  { F("f", 0, <<"p">>, <<Do(To(4, "", <<Lit(1), Lit(2)>>)), RetTo(To(4, "", <<Lit(2), Lit(1)>>))>>),
    F("f", 0, <<>>, <<RetTo(To(4, "", <<Lit(1), Lit(2)>>))>>),
    F("f", 0, <<>>, <<Decl("v"), Set("v", Lit(4)), Do(To(4, "", <<Lit(1), Lit(2)>>)), Ret(Var("v"))>>) }
TwoParams == { F("g", 0, <<"q", "r">>, <<Ret(Var("q"))>>),
               F("g", 0, <<"q", "r">>, <<Decl("w"), Set("w", Lit(6)), Ret(Var("w"))>>) }

ArgsFor(f) == IF f.params = <<>> THEN {<<>>} ELSE {<<Var("a")>>, <<Lit(MaxLiteral)>>}

MainsFor(f) ==
  UNION { {<<Decl("a"), Decl("b"), Set("a", Lit(7)), SetTo("b", To(3, "", args)),
             SetTo("a", To(3, "", args))>>,
           <<Decl("a"), Set("a", Lit(0)),
             If(Var("a"), <<Decl("b"), Set("b", Lit(8))>>,
                          <<Decl("c"), SetTo("c", To(3, "", args)), Do(To(2, "", <<Var("c")>>))>>),
             Decl("d"), Set("d", Var("a"))>>} : args \in ArgsFor(f) }

FreePrograms ==
  {Program(NoClasses, <<>>, <<Main(m), Test, f>>) :
     <<f, m>> \in UNION {{f} \X MainsFor(f) : f \in Leaves("p", "x", "y")}}
  \cup
  {Program(NoClasses, <<>>, <<Main(m), Test, f, g>>) :
     <<f, m, g>> \in UNION {{f} \X MainsFor(f) \X {g \in Leaves("q", "x", "y") : g.params # <<>>}
                           : f \in Callers}
       \cup UNION {{f} \X MainsFor(f) \X TwoParams : f \in Pushers}}

(* Branches that keep variables of their own, nested. *)
Branching ==
  {Program(NoClasses, <<>>, <<Main(m), Test>>) :
     m \in {<<Decl("a"), Set("a", Lit(c1)),
              If(Var("a"),
                 <<Decl("b"), Set("b", Lit(1)),
                   If(Lit(c2), <<Decl("c"), Decl("d"), Set("d", Lit(2)), Set("c", Lit(3))>>,
                               <<Decl("e"), Set("e", Lit(4))>>),
                   Decl("h"), Set("h", Lit(5))>>,
                 <<Decl("i"), Set("i", Lit(6))>>),
              Decl("j"), Set("j", Lit(9)), Do(To(2, "", <<Var("a")>>))>>
            : c1 \in {0, 1}, c2 \in {0, 1}}}

-----------------------------------------------------------------------------
(* Classes.  Every class has a variable and a function that sets it; a call *)
(* pushes the object, or passes it in the register when it is alone.        *)

Class(own, funcs, parents) == [vars |-> own, funcs |-> funcs, parents |-> parents]

Hierarchies ==
  { <<Class(<<"x">>, <<"set_x", "get">>, <<>>)>>,
    <<Class(<<"x">>, <<"set_x">>, <<>>), Class(<<"y">>, <<"set_y", "get">>, <<1>>)>>,
    <<Class(<<"x">>, <<"set_x">>, <<>>), Class(<<"y">>, <<"set_y">>, <<>>),
      Class(<<"z">>, <<"set_z", "get">>, <<1, 2>>)>>,
    <<Class(<<"x">>, <<"set_x">>, <<>>), Class(<<"y">>, <<"set_y">>, <<1>>),
      Class(<<"v">>, <<"set_v">>, <<>>), Class(<<"z">>, <<"set_z", "get">>, <<2, 3>>)>>,
    (* set_y is inherited through two levels from a second parent. *)
    <<Class(<<"x">>, <<"set_x">>, <<>>), Class(<<"y">>, <<"set_y">>, <<>>),
      Class(<<"v">>, <<"set_v">>, <<1, 2>>), Class(<<"z">>, <<"set_z", "get">>, <<3>>)>>,
    (* Two parents with a variable of the same name. *)
    <<Class(<<"x">>, <<"set_x">>, <<>>), Class(<<"x", "y">>, <<"set_w">>, <<>>),
      Class(<<"z">>, <<"set_z", "get">>, <<1, 2>>)>>,
    (* x comes through both parents. *)
    <<Class(<<"x">>, <<"set_x">>, <<>>), Class(<<"y">>, <<"set_y">>, <<1>>),
      Class(<<"v">>, <<"set_v">>, <<1>>), Class(<<"z">>, <<"set_z", "get">>, <<2, 3>>)>>,
    (* A name the parent has. *)
    <<Class(<<"x">>, <<"set_x">>, <<>>), Class(<<"x">>, <<"set_y", "get">>, <<1>>)>> }

(* The parameter: a name of no class, of a later class, of the class itself. *)
ParamNames == {"to", "y", "x"}

Setters(classes, to) ==
  [c \in DOMAIN classes |->
     F(classes[c].funcs[1], c, <<to>>,
       <<Set(classes[c].vars[1], Var(to)), Ret(Var(to))>>)]
Getter(classes) ==
  LET c == Len(classes) IN F("get", c, <<>>, <<Ret(Var(classes[c].vars[1]))>>)

(* main's object is of the last class; its functions are called from 3 on. *)
ObjectMain(classes, c, first) ==
  LET n == Len(classes)
      size == Records(classes)[n].size
      object == DeclSized("o", size)
      other == <<Decl("a"), Set("a", Lit(3))>>
      decls == IF first THEN <<object>> \o other ELSE other \o <<object>>
  IN  Main(decls \o
        <<Do(To(2 + c, "o", <<Var("a")>>)), Set("a", Dot("o", classes[c].vars[1])),
          Decl("b"), SetTo("b", To(3 + n, "o", <<>>))>>)

ObjectPrograms ==
  UNION {{Program(classes, "o" :> Len(classes),
                  <<ObjectMain(classes, c, first), Test>> \o Setters(classes, to)
                    \o <<Getter(classes)>>)
            : c \in DOMAIN classes, first \in BOOLEAN, to \in ParamNames}
          : classes \in Hierarchies}

(* Functions of one name, in classes that have nothing to do with each      *)
(* other, or beside a class.  The first has a variable of its own.          *)
TwinClasses ==
  <<Class(<<"x">>, <<"set">>, <<>>), Class(<<"y">>, <<"set">>, <<>>)>>

KeepsLocal(class) ==
  F("set", class, <<>>, <<Decl("l"), Set("l", Lit(2)), Set("x", Lit(5)), Ret(Var("l"))>>)

Later ==
  { F("set", 2, <<>>, <<Set("y", Lit(5)), Ret(Var("y"))>>),
    F("set", 2, <<>>, <<Decl("k"), Set("k", Lit(5)), Set("y", Var("k")), Ret(Var("k"))>>),
    F("set", 0, <<>>, <<Ret(Lit(4))>>),
    F("set", 0, <<>>, <<Decl("k"), Set("k", Lit(4)), Ret(Var("k"))>>) }

TwinMains(class) ==
  { Main(<<DeclSized("o", Basic), Decl("a"), Decl("b"), Set("b", Lit(3)),
           SetTo("a", To(f, IF f = 4 /\ class = 0 THEN "" ELSE "o", <<>>))>>) : f \in {3, 4} }

TwinPrograms ==
  UNION {{Program(TwinClasses, "o" :> 1, <<m, Test, KeepsLocal(1), later>>)
            : m \in {n \in TwinMains(later.class) :
                        later.class = 0 \/ n.body[5].call.callee = 3}}
           : later \in Later}
  \cup
  {Program(TwinClasses, "o" :> 1,
           <<Main(<<DeclSized("o", Basic), Decl("a"), SetTo("a", To(3, "", <<>>))>>), Test,
             [KeepsLocal(0) EXCEPT !.body = <<Ret(Lit(4))>>], KeepsLocal(1)>>)}

MCPrograms == FreePrograms \cup Branching \cup ObjectPrograms \cup TwinPrograms

(* "lang_args_offsets.lang". *)
MCStackArgs ==
  {Program(NoClasses, <<>>,
     <<Main(<<Decl("a"), SetTo("a", To(3, "", <<Lit(1), Lit(2)>>))>>), Test,
       F("f_normal", 0, <<"p0", "p1">>, <<Ret(Var("p1"))>>)>>)}
===============================================================================
