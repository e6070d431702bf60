------------------------------- MODULE MCCodeGen -------------------------------
(* CodeGen on every small program. *)
EXTENDS CodeGen

Small == INSTANCE SmallPrograms

MCStatement == Small!Statements
MCPrograms == Small!Compositions
===============================================================================
