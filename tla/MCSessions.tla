----------------------------- MODULE MCSessions -----------------------------
(* A small instance of Sessions for TLC.  No browser, login or callback is *)
(* told from another, so states that differ only in their names are one.   *)
EXTENDS Sessions, TLC

Symmetry == Permutations(Browser) \cup Permutations(Login) \cup Permutations(Callback)
=============================================================================
