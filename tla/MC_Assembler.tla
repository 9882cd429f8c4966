---------------------------- MODULE MC_Assembler ----------------------------
(***************************************************************************)
(* Assembler with two labels, words of two bytes and room for four or five *)
(* jumps.                                                                  *)
(***************************************************************************)
EXTENDS Assembler, TLC

CONSTANTS a, b

Symmetry == Permutations(Labels)

=============================================================================
