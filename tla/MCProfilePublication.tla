------------------------ MODULE MCProfilePublication ------------------------
(* Instances of ProfilePublication for TLC.                                 *)
EXTENDS ProfilePublication, TLC

CONSTANTS h1, h2

MCSymmetry == Permutations(Handlers) \cup Permutations(Suggestions)
=============================================================================
