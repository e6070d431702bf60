----------------------------- MODULE SmallPrograms -----------------------------
(* Programs for CodeGen: main of one or two statements nested two deep, and *)
(* a function that main may call.                                           *)
EXTENDS Sequences, Naturals

Stmt(kind, then, else, callee) ==
  [kind |-> kind, then |-> then, else |-> else, callee |-> callee]
Decl == Stmt("decl", <<>>, <<>>, 0)
Simple == Stmt("simple", <<>>, <<>>, 0)
Return == Stmt("return", <<>>, <<>>, 0)
CallTwo == Stmt("call", <<>>, <<>>, 2)
If(then, else) == Stmt("if", then, else, 0)
While(body) == Stmt("while", body, <<>>, 0)

Leaves == {Decl, Simple, Return, CallTwo}
Flat == {If(b, e) : b \in {<<Simple>>, <<Decl>>}, e \in {<<>>, <<Simple>>, <<Decl>>}}
        \cup {While(b) : b \in {<<Simple>>, <<Decl>>, <<CallTwo>>}}

Inner == {If(<<Simple>>, <<Decl>>), If(<<Decl>>, <<Simple>>), While(<<Simple>>), While(<<Decl>>)}
Nests == UNION {{<<s>>, <<s, Decl>>, <<Simple, s>>} : s \in Inner}
Nested == {If(b, <<Simple>>) : b \in Nests} \cup {If(<<Simple>>, b) : b \in Nests}
          \cup {While(b) : b \in Nests}

Statements == Leaves \cup Flat \cup Inner \cup Nested

Mains == {<<s>> : s \in Statements} \cup (Statements \X Statements)
Calls(main) == \E j \in DOMAIN main : main[j] \in {CallTwo, While(<<CallTwo>>)}
Callees == { <<Simple>>, <<Decl>>, <<Simple, Return>>, <<Return, Simple>>,
             <<While(<<Simple>>), Simple>>, <<If(<<Simple>>, <<Decl>>)>> }

Compositions ==
  {<<m>> : m \in {main \in Mains : ~Calls(main)}}
    \cup {<<m, f>> : m \in {main \in Mains : Calls(main)}, f \in Callees}
===============================================================================
