------------------------------- MODULE PageMap -------------------------------
(***************************************************************************)
(* get_physical_address and pagemap_entry_from of src/src/sys_info.c, and  *)
(* the line number that test_alignment of src/src/alloc.c computes from    *)
(* what they return.  AlignedAlloc numbers huge page frames and lines; here*)
(* are the bytes, small pages and pagemap entries behind those numbers.    *)
(* That the calls can fail is modelled there.                              *)
(*                                                                         *)
(* /proc/self/pagemap (external) is a function from the number of a small  *)
(* page to the number of the frame behind it.                              *)
(***************************************************************************)
EXTENDS Naturals

CONSTANTS
  PageSize,   (* sysconf(_SC_PAGESIZE)                                     *)
  FieldLimit  (* 2^54: page_frame_number is a bit-field of that width      *)

(* The loop that counts how often the page size can be halved.             *)
PageShift[n \in Nat] == IF n > 1 THEN 1 + PageShift[n \div 2] ELSE 0

(* A page has a power of two as its size.                                  *)
ASSUME PageMapAssumption ==
  /\ PageSize \in Nat \ {0} /\ FieldLimit \in Nat \ {0}
  /\ 2 ^ PageShift[PageSize] = PageSize

(* The entry whose offset is computed from addr.                           *)
Entry(addr) == addr \div PageSize

(* What of a frame number fits into the bit-field: one bit less than an    *)
(* entry has for it.                                                       *)
PageFrameNumber(frame) == frame % FieldLimit

(* gcc keeps the width of the bit-field when it is shifted.                *)
PhysicalAddress(pagemap, addr) ==
  ((PageFrameNumber(pagemap[Entry(addr)]) * 2 ^ PageShift[PageSize])
     % FieldLimit)
  + (addr % PageSize)

LineOf(address, lineSize, totalSize) == (address % totalSize) \div lineSize

(* n small pages from page v on are huge page frame f.                     *)
IsHugePage(pagemap, v, f, n) ==
  \A p \in 0 .. n - 1 : pagemap[v + p] = f * n + p

=============================================================================
