------------------------ MODULE MCDictationDelivery ------------------------
(* Small instances of DictationDelivery for TLC. *)
EXTENDS DictationDelivery, TLC

TakeSymmetry == Permutations(Takes)
=============================================================================
