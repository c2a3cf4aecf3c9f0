------------------------ MODULE MCSuggestionBatches ------------------------
(* SuggestionBatches for TLC: two of the items have the same key. *)
EXTENDS SuggestionBatches, TLC

CONSTANTS k1, k2

MCKeys == {k1, k2}
MCKeyOf == [i \in Items |-> IF i = 2 THEN k2 ELSE k1]
MCRequests == {Items, {2, 3}}
MCModes == {"strict", "compat"}
MCSizes == {0, 2, 3}

\* The calls differ in nothing but their names.
CallSymmetry == Permutations(Calls)
=============================================================================
