---------------------------- MODULE MCPrimeProbe ----------------------------
(***************************************************************************)
(* Instance of PrimeProbe for TLC.  Lines of other code are interchangeable*)
(***************************************************************************)
EXTENDS PrimeProbe

ForeignSymmetry == Permutations(Foreign)
=============================================================================
