---------------------------- MODULE MCToggleSMT -----------------------------
(***************************************************************************)
(* Instances of ToggleSMT: two physical cores of two threads each, numbered*)
(* as neighbours or one after the other, four cores without SMT, and two   *)
(* packages that use the same core numbers.  The last thread is called 10, *)
(* which sorts before 2.                                                   *)
(***************************************************************************)
EXTENDS ToggleSMT

Numbers == {0, 1, 2, 10}

NameOrder ==
  [c \in Numbers |-> CASE c = 0 -> 0 [] c = 1 -> 1 [] c = 10 -> 2 [] OTHER -> 3]

Of(a, b, c, d) ==
  [n \in Numbers |-> CASE n = 0 -> a [] n = 1 -> b [] n = 2 -> c [] OTHER -> d]

SomeMachines ==
  {[package |-> Of(0, 0, 0, 0), coreId |-> Of(0, 0, 1, 1)],
   [package |-> Of(0, 0, 0, 0), coreId |-> Of(0, 1, 0, 1)],
   [package |-> Of(0, 0, 0, 0), coreId |-> Of(0, 1, 2, 3)],
   [package |-> Of(0, 0, 1, 1), coreId |-> Of(0, 1, 0, 1)]}

AllFaults == Calls
=============================================================================
