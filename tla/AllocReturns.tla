---------------------------- MODULE AllocReturns ----------------------------
(***************************************************************************)
(* What alloc_aligned (src/src/alloc.c) can hand back to main: an error    *)
(* code and the state of the pointer *buffer.  The module holds constant   *)
(* definitions only, so that the caller (Profiler) and the implementation  *)
(* (AlignedAlloc) share one contract: the first assumes it, the second is  *)
(* checked to stay inside it.                                              *)
(***************************************************************************)

(* What *buffer points to.                                                 *)
(*   null        main's initial NULL                                       *)
(*   map_failed  MAP_FAILED, which is not NULL                             *)
(*   unmapped    a region that was mapped and has been unmapped            *)
(*   untested    a live mapping that is not known to be aligned            *)
(*   aligned     a live mapping with every line on its own cache line      *)
BufferState == {"null", "map_failed", "unmapped", "untested", "aligned"}

Mapped == {"untested", "aligned"}

(* The early returns (no huge pages, unreadable /proc files, malloc) leave *)
(* *buffer alone.  Past them err may be ERROR_NONE with any pointer the    *)
(* search loop left behind, because freeing the rejected buffers overwrites*)
(* the error the loop ended with.                                          *)
AllocReturn(before) ==
  {[ok |-> FALSE, buffer |-> before]}
    \cup [ok : BOOLEAN, buffer : BufferState \ {"null"}]

=============================================================================
