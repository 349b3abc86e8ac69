--------------------------- MODULE MCAlignedAlloc ---------------------------
(***************************************************************************)
(* Instances of AlignedAlloc with a pool of three huge pages: a cache of   *)
(* two huge pages, where the first buffer either fits or leaves too little *)
(* for a second; a cache smaller than a huge page without dividing it (a   *)
(* 1.25 MB L2 cache and 2 MB pages) for which no page of the pool fits; and*)
(* one like it for which one page does.                                    *)
(***************************************************************************)
EXTENDS AlignedAlloc, PageMap

SomeCaches ==
  {[lines |-> 4, pageLines |-> 2],
   [lines |-> 5, pageLines |-> 8],
   [lines |-> 3, pageLines |-> 4]}

Pool == 2 .. 4

AllFaults == Calls
NoFaults == {}

(* Small pages of 4 bytes, and a huge page of 4 of them at page 8: what    *)
(* test_alignment computes from the address of a line of 2 bytes is what   *)
(* LineId and CacheLine say.                                               *)
ASSUME BytesAreLines ==
  \A f \in 0 .. 3, lines \in 1 .. 9, l \in 0 .. 7 :
    LET pagemap == [p \in 8 .. 11 |-> f * 4 + (p - 8)]
    IN  /\ IsHugePage(pagemap, 8, f, 4)
        /\ LineOf(PhysicalAddress(pagemap, 32 + (l * 2)), 2, lines * 2)
             = ((f * 8) + l) % lines

=============================================================================
