-------------------------- MODULE MCNativeLibrary --------------------------
(* Model-checking values of NativeLibrary's constants. *)
EXTENDS NativeLibrary, TLC

UserSymmetry == Permutations(Users)
=============================================================================
