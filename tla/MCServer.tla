------------------------------ MODULE MCServer ------------------------------
(* A server with two connection slots; connections are interchangeable.     *)
EXTENDS Server, TLC

SlotSymmetry == Permutations(Slots)
==============================================================================
