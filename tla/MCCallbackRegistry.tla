------------------------- MODULE MCCallbackRegistry -------------------------
(* Symmetry for model-checking CallbackRegistry: codes and functions are    *)
(* interchangeable, neither is compared except for equality.                *)
EXTENDS CallbackRegistry

Sym == Permutations(Codes) \cup Permutations(Funs)
=============================================================================
