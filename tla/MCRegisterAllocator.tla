------------------------ MODULE MCRegisterAllocator ------------------------
(***************************************************************************)
(* Small instances of RegisterAllocator.                                    *)
(***************************************************************************)
EXTENDS RegisterAllocator, TLC

VarSymmetry == Permutations(Vars)
=============================================================================
