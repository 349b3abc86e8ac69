------------------------------- MODULE MCSetup -------------------------------
(***************************************************************************)
(* Instances of Setup.  Three cores, one of them with a number that does   *)
(* not fit into the byte; caches as on a desktop CPU, and a core whose last*)
(* index is an instruction cache of a level that has no other cache.       *)
(***************************************************************************)
EXTENDS Setup

Dir(line, sets, level, ways, type) ==
  [line_size |-> line, total_size |-> line * sets * ways,
   set_count |-> sets, level |-> level, ways |-> ways, type |-> type]

Usual ==
  <<Dir(64, 64, 1, 8, "data"), Dir(64, 64, 1, 4, "instruction"),
    Dir(64, 512, 2, 8, "unified")>>

Odd == <<Dir(32, 128, 2, 16, "unified"), Dir(64, 64, 1, 8, "instruction")>>

ThreeCores == {0, 1, 4}

SomeMachines ==
  {[c \in ThreeCores |-> IF c = 1 THEN d ELSE Usual] : d \in {Usual, Odd}}

Measure ==
  [mode |-> "profile", core |-> 1, level |-> 1, root |-> TRUE, file |-> TRUE]

(* As bytes, level 5 is level 1 and core 4 is core 0.                      *)
SomeRequests ==
  {Measure, [Measure EXCEPT !.core = -1], [Measure EXCEPT !.level = 2],
   [Measure EXCEPT !.core = 4, !.level = 5], [Measure EXCEPT !.mode = "info"],
   [Measure EXCEPT !.core = 4, !.level = 3],
   [Measure EXCEPT !.core = 4, !.root = FALSE],
   [Measure EXCEPT !.core = 4, !.file = FALSE],
   [Measure EXCEPT !.core = 4, !.mode = "bench"],
   [Measure EXCEPT !.core = 4, !.mode = "other"]}

SomeFaults ==
  {"get_cpu_core", "io_sys_cpu", "io_levels", "io_rdpmc", "chmod", "mmap"}
=============================================================================
