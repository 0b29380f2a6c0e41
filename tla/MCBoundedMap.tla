---------------------------- MODULE MCBoundedMap ----------------------------
(***************************************************************************)
(* BoundedMap for TLC: keys and clients are interchangeable.               *)
(***************************************************************************)
EXTENDS BoundedMap, TLC

Symmetry == Permutations(Key) \cup Permutations(Client)

=============================================================================
