----------------------------- MODULE ErrorTable ------------------------------
(***************************************************************************)
(* The error codes of src/inc/error.h and decode_error of src/src/error.c. *)
(* An error is its name without ERROR_; its text is abstracted to the name *)
(* the table has it for.                                                   *)
(***************************************************************************)
EXTENDS Integers, Sequences, FiniteSetsExt

(* Two numbers are given out twice: -21 and -22.                           *)
Number ==
  [none |-> 0, io |-> -1, allocation |-> -2, fd_cache |-> -4,
   fd_cycle |-> -5, set_affinity |-> -6, fmt |-> -7, sysconf |-> -8,
   page_entry |-> -9, not_aligned |-> -10, mmap |-> -11,
   cache_not_exists |-> -12, no_hugepages |-> -13, munmap |-> -14,
   fd_cycle_close |-> -16, spawn_attr_init |-> -17, spawn_file_init |-> -18,
   spawn_spawn |-> -19, spawn_path_null |-> -20,
   not_supported_output |-> -21, hdf5_error |-> -22,
   set_scheduler_policy |-> -21, get_cpu_core |-> -22, chmod |-> -23,
   io_proc_self_pagemap |-> -24, io_sys_cpu |-> -25, io_proc_meminfo |-> -26,
   io_hdf |-> -27, io_line_size |-> -28, io_total_size |-> -29,
   io_set_number |-> -30, io_levels |-> -32, io_associativity |-> -33,
   io_hugepage_number |-> -34, io_rdpmc |-> -35, rdpmc |-> -36]

Errors == DOMAIN Number

(* error_map_table, in its order.                                          *)
Table ==
  <<"io", "allocation", "fd_cycle", "fd_cycle_close", "fd_cache",
    "set_affinity", "sysconf", "page_entry", "not_aligned", "mmap",
    "cache_not_exists", "no_hugepages", "munmap", "spawn_spawn",
    "spawn_attr_init", "spawn_file_init", "spawn_path_null",
    "set_scheduler_policy", "get_cpu_core", "io_proc_self_pagemap",
    "io_proc_meminfo", "io_hdf", "io_sys_cpu", "io_total_size",
    "io_line_size", "io_set_number", "io_levels", "io_associativity",
    "io_hugepage_number", "io_rdpmc", "rdpmc">>

DefaultText == "unknown error"

(* Mutant of Decode: the loop ends one entry too early.                    *)
DecodeButLast(error) ==
  LET hits == {k \in 1 .. Len(Table) - 1 : Number[Table[k]] = Number[error]}
  IN  IF hits = {} THEN DefaultText ELSE Table[Min(hits)]

(* decode_error: the text of the first entry with the number of the error. *)
Decode(error) ==
  LET hits == {k \in DOMAIN Table : Number[Table[k]] = Number[error]}
  IN  IF hits = {} THEN DefaultText ELSE Table[Min(hits)]

=============================================================================
