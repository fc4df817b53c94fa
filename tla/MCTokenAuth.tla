---------------------------- MODULE MCTokenAuth ----------------------------
(* Small instances of TokenAuth for TLC. *)
EXTENDS TokenAuth, TLC

FreshSymmetry ==
    Permutations(Tokens \ {First}) \cup Permutations(Requests)
       \cup Permutations(Rotators)
=============================================================================
