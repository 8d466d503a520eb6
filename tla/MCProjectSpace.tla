--------------------------- MODULE MCProjectSpace ---------------------------
(* Three versions of two titles without reviews, or two with a review and a *)
(* restart; two connections, two presets, one key and two master keys.      *)
EXTENDS ProjectSpace, TLC

MCLimits == {[rows |-> 3, reviews |-> 0, crashes |-> 0],
             [rows |-> 2, reviews |-> 1, crashes |-> 1]}

Symmetry == Permutations(Titles) \cup Permutations(Connections) \cup Permutations(MasterKeys)
=============================================================================
