--------------------------- MODULE MCLexicalScopes ---------------------------
EXTENDS LexicalScopes, TLC

(* The names of a program are interchangeable. *)
NameSymmetry == Permutations(Names)
===============================================================================
