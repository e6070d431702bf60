----------------------------- MODULE MCLRParser -----------------------------
(* The programs that build a grammar, and one that would build the tables of *)
(* a grammar with an empty rule.                                             *)
EXTENDS LRParser, TLC

MCTools ==
    LET grammars == "pars" :> Pars @@ "dragon" :> Dragon @@ "control_flow" :> ControlFlow
                      @@ "expr_simple" :> ExprSimple @@ "expr" :> Expr @@ "dalang" :> Dalang
    IN  grammars
MCLR1Tools == {"pars", "dragon", "control_flow", "expr_simple"}
MCLALRTools == {"dragon"}

=============================================================================
