---------------------------- MODULE AlignedAlloc ----------------------------
(***************************************************************************)
(* alloc_aligned, test_alignment and free_aligned of src/src/alloc.c, as   *)
(* main calls them: the search for a buffer of huge pages whose physical   *)
(* lines fall on the cache lines in order.  A huge page gets its physical  *)
(* frame when test_alignment first writes to it; rejected buffers are kept *)
(* mapped until the search is over, so that their frames do not come back. *)
(*                                                                         *)
(* The kernel's pool of huge pages is external: mmap reserves pages, a     *)
(* first write takes any free frame, and other processes take and return   *)
(* frames at any time without touching what is reserved.                   *)
(***************************************************************************)
EXTENDS Naturals, FiniteSets, Sequences, AllocReturns

CONSTANTS
  Caches,     (* [lines, pageLines]: lines in the cache and in a huge page *)
  Frames,     (* numbers of the huge page frames of the pool               *)
  Regions,    (* virtual addresses mmap can return                         *)
  PoolSizes,  (* what /proc/sys/vm/nr_hugepages may say                    *)
  Faults,     (* the calls that may fail                                   *)
  NoFrame     (* a page that has not been touched                          *)

Calls == {"proc", "malloc", "mmap", "pagemap", "munmap"}

ASSUME AllocAssumption ==
  /\ Caches \subseteq [lines : Nat \ {0}, pageLines : Nat \ {0}]
  /\ Frames \subseteq Nat
  /\ IsFiniteSet(Frames)
  /\ PoolSizes \subseteq Nat
  /\ Faults \subseteq Calls
  /\ NoFrame \notin Frames
  /\ Regions \cap {"null", "map_failed"} = {}

VARIABLES
  cache,     (* the cache the buffer is for                                *)
  pc,        (* the step alloc_aligned is at                               *)
  evals,     (* which evaluation of EXIT_ON_FAIL's argument is running     *)
  failed,    (* the first evaluation returned an error                     *)
  buffer,    (* *buffer                                                    *)
  maxTries, tries, err, old, i,  (* locals; old_buffers[0 .. tries - 1]    *)
  page,      (* the page test_alignment is at                              *)
  mapped,    (* the regions that are mapped                                *)
  frame,     (* the frame behind each page of a region                     *)
  other,     (* the frames other processes hold                            *)
  entry,     (* history: what *buffer was when this evaluation began       *)
  seen,      (* history: the frames touched by this evaluation             *)
  passed,    (* history: a buffer of this evaluation passed the test       *)
  stuck      (* history: munmap has failed                                 *)

callVars   == <<cache, evals, failed>>
searchVars == <<maxTries, tries, err, old, i, page>>
memVars    == <<mapped, frame, other>>
histVars   == <<entry, seen, passed, stuck>>

vars == <<pc, callVars, buffer, searchVars, memVars, histVars>>

(* Huge pages in a buffer; free_aligned rounds the length up the same way. *)
Pages == (cache.lines + cache.pageLines - 1) \div cache.pageLines

(* line_id of the first line of frame f.                                   *)
LineId(f) == (f * cache.pageLines) % cache.lines

NoFrames == [p \in 0 .. Pages - 1 |-> NoFrame]

Backed == (UNION {{frame[a][p] : p \in 0 .. Pages - 1} : a \in mapped})
            \ {NoFrame}

Free == Frames \ (other \cup Backed)

Reserved == {x \in mapped \X (0 .. Pages - 1) : frame[x[1]][x[2]] = NoFrame}

(* Free frames nobody has a claim on.                                      *)
Spare == Cardinality(Free) - Cardinality(Reserved)

(* The cache line, counted through all ways, that line l of a region is on.*)
CacheLine(a, l) ==
  (frame[a][l \div cache.pageLines] * cache.pageLines
     + (l % cache.pageLines))
  % cache.lines

Touched(a) == \A p \in 0 .. Pages - 1 : frame[a][p] # NoFrame

(* What a caller finds behind *buffer: every line on its own cache line, or*)
(* not.                                                                    *)
State ==
  CASE buffer \in {"null", "map_failed"} -> buffer
    [] buffer \in Regions \ mapped -> "unmapped"
    [] OTHER ->
         IF /\ Touched(buffer)
            /\ \A l \in 0 .. cache.lines - 1 : CacheLine(buffer, l) = l
         THEN "aligned" ELSE "untested"

Errors == {"none", "proc", "no_hugepages", "malloc", "mmap", "pagemap",
           "not_aligned", "munmap"}

TypeOK ==
  /\ cache \in Caches
  /\ pc \in {"pool", "malloc", "map", "test", "free_old", "final",
             "returned", "finalize", "done"}
  /\ evals \in 1 .. 3 /\ failed \in BOOLEAN
  /\ buffer \in Regions \cup {"null", "map_failed"}
  /\ maxTries \in Nat /\ tries \in 0 .. maxTries /\ err \in Errors
  /\ old \in Seq(Regions) /\ i \in Nat /\ page \in Nat
  /\ mapped \subseteq Regions
  /\ frame \in [Regions -> [0 .. Pages - 1 -> Frames \cup {NoFrame}]]
  /\ other \subseteq Frames
  /\ entry \in BufferState /\ seen \subseteq Frames
  /\ passed \in BOOLEAN /\ stuck \in BOOLEAN

-----------------------------------------------------------------------------

Init ==
  /\ cache \in Caches
  /\ pc = "pool" /\ evals = 1 /\ failed = FALSE
  /\ buffer = "null"
  /\ maxTries = 0 /\ tries = 0 /\ err = "none" /\ old = <<>>
  /\ i = 0 /\ page = 0
  /\ mapped = {}
  /\ frame = [a \in Regions |-> NoFrames]
  /\ other \in SUBSET Frames
  /\ entry = "null" /\ seen = {} /\ passed = FALSE /\ stuck = FALSE

Outcome(call) == IF call \in Faults THEN BOOLEAN ELSE {TRUE}

Return(e) == pc' = "returned" /\ err' = e

(* Mutant of Start: tries survives from the evaluation before.             *)
StartStale ==
  /\ UNCHANGED tries /\ old' = <<>> /\ i' = 0
  /\ entry' = State /\ seen' = {} /\ passed' = FALSE
  /\ UNCHANGED <<callVars, buffer, page, memVars, stuck>>

(* The locals of a new call.                                               *)
Start ==
  /\ tries' = 0 /\ old' = <<>> /\ i' = 0
  /\ entry' = State /\ seen' = {} /\ passed' = FALSE
  /\ UNCHANGED <<callVars, buffer, page, memVars, stuck>>

(* Mutant of ReadPool: an empty pool is not refused.                       *)
ReadPoolUnchecked ==
  /\ pc = "pool"
  /\ \/ maxTries' \in PoolSizes /\ pc' = "malloc" /\ err' = "none"
     \/ "proc" \in Faults /\ Return("proc") /\ maxTries' = 0
  /\ Start

(* get_hugepagenr and get_hugepagesize.                                    *)
ReadPool ==
  /\ pc = "pool"
  /\ \/ /\ maxTries' \in PoolSizes
        /\ \/ maxTries' < 1 /\ Return("no_hugepages")
           \/ maxTries' >= 1 /\ pc' = "malloc" /\ err' = "none"
     \/ "proc" \in Faults /\ Return("proc") /\ maxTries' = 0
  /\ Start

AllocOldBuffers ==
  /\ pc = "malloc"
  /\ \/ pc' = "map" /\ UNCHANGED err
     \/ "malloc" \in Faults /\ Return("malloc")
  /\ UNCHANGED <<callVars, buffer, maxTries, tries, old, i, page, memVars,
                 histVars>>

(* The loop condition and mmap.                                            *)
MapBuffer ==
  /\ pc = "map" /\ tries < maxTries
  /\ \/ /\ Spare >= Pages
        /\ \E a \in Regions \ mapped :
             /\ buffer' = a
             /\ mapped' = mapped \cup {a}
             /\ frame' = [frame EXCEPT ![a] = NoFrames]
        /\ pc' = "test" /\ page' = 0
        /\ UNCHANGED err
     \/ /\ Spare < Pages \/ "mmap" \in Faults
        /\ buffer' = "map_failed" /\ err' = "mmap" /\ pc' = "free_old"
        /\ UNCHANGED <<mapped, frame, page>>
  /\ UNCHANGED <<callVars, maxTries, tries, old, i, other, histVars>>

TriesUsedUp ==
  /\ pc = "map" /\ tries = maxTries
  /\ pc' = "free_old"
  /\ UNCHANGED <<callVars, buffer, searchVars, memVars, histVars>>

(* Mutant of Reject: the buffer is unmapped at once.                       *)
RejectAndUnmap ==
  /\ old' = Append(old, buffer)
  /\ tries' = tries + 1
  /\ err' = "not_aligned"
  /\ pc' = "map"
  /\ mapped' = mapped \ {buffer}

(* Mutant of Reject: the buffer is unmapped at once and the try not counted.*)
RejectUncounted ==
  /\ err' = "not_aligned"
  /\ pc' = "map"
  /\ mapped' = mapped \ {buffer}
  /\ UNCHANGED <<old, tries>>

(* old_buffers[tries] = *buffer; tries++.                                  *)
Reject ==
  /\ old' = Append(old, buffer)
  /\ tries' = tries + 1
  /\ err' = "not_aligned"
  /\ pc' = "map"
  /\ UNCHANGED mapped

(* Mutant of Matches: only the first page of a buffer is compared.         *)
MatchesFirst(f) == page > 0 \/ LineId(f) = 0

(* current_line == line_id.                                                *)
Matches(f) == LineId(f) = page * cache.pageLines

(* One turn of the loop in test_alignment: the write brings the page in,   *)
(* its frame is looked up and compared.                                    *)
TestPage ==
  /\ pc = "test"
  /\ \E f \in Free :
       /\ frame' = [frame EXCEPT ![buffer][page] = f]
       /\ seen' = seen \cup {f}
       /\ \/ /\ "pagemap" \in Faults
             /\ err' = "pagemap" /\ pc' = "free_old"
             /\ UNCHANGED <<tries, old, page, mapped, passed>>
          \/ ~Matches(f) /\ Reject /\ UNCHANGED <<page, passed>>
          \/ /\ Matches(f)
             /\ page' = page + 1
             /\ IF page + 1 < Pages
                THEN UNCHANGED <<pc, err, passed>>
                ELSE pc' = "free_old" /\ err' = "none" /\ passed' = TRUE
             /\ UNCHANGED <<tries, old, mapped>>
  /\ UNCHANGED <<callVars, buffer, maxTries, i, other, entry, stuck>>

(* free_aligned: it fails before or in munmap, or unmaps the whole region. *)
(* Unmapping what is not mapped succeeds.                                  *)
FreeAligned(a, ok) ==
  /\ mapped' = IF ok THEN mapped \ {a} ELSE mapped
  /\ frame' = IF ok THEN [frame EXCEPT ![a] = NoFrames] ELSE frame
  /\ stuck' = (stuck \/ ~ok)

(* Mutant of FreeOld: the loop stops one buffer short.                     *)
FreeOldButLast ==
  /\ pc = "free_old" /\ i < tries
  /\ \E ok \in Outcome("munmap") :
       /\ IF i + 1 < tries
          THEN FreeAligned(old[i + 1], ok)
          ELSE UNCHANGED <<mapped, frame, stuck>>
       /\ err' = IF ok THEN "none" ELSE "munmap"
  /\ i' = i + 1
  /\ UNCHANGED <<callVars, pc, buffer, maxTries, tries, old, page, other,
                 entry, seen, passed>>

(* Freeing the rejected buffers overwrites err.                            *)
FreeOld ==
  /\ pc = "free_old" /\ i < tries
  /\ \E ok \in Outcome("munmap") :
       /\ FreeAligned(old[i + 1], ok)
       /\ err' = IF ok THEN "none" ELSE "munmap"
  /\ i' = i + 1
  /\ UNCHANGED <<callVars, pc, buffer, maxTries, tries, old, page, other,
                 entry, seen, passed>>

OldFreed ==
  /\ pc = "free_old" /\ i = tries
  /\ pc' = "final"
  /\ UNCHANGED <<callVars, buffer, searchVars, memVars, histVars>>

(* The branch that decides between "Found" and "Did not find".             *)
Decide ==
  /\ pc = "final"
  /\ \/ /\ tries < maxTries /\ err = "none"
        /\ Return(err)
        /\ UNCHANGED <<mapped, frame, stuck>>
     \/ /\ ~(tries < maxTries /\ err = "none")
        /\ IF buffer = "map_failed"
           THEN Return(err) /\ UNCHANGED <<mapped, frame, stuck>>
           ELSE \E ok \in Outcome("munmap") :
                  /\ FreeAligned(buffer, ok)
                  /\ Return(IF ok THEN err ELSE "munmap")
  /\ UNCHANGED <<callVars, buffer, maxTries, tries, old, i, page, other,
                 entry, seen, passed>>

(* main: EXIT_ON_FAIL evaluates a failed call twice more.                  *)
Continue ==
  /\ pc = "returned"
  /\ failed' = (failed \/ err # "none")
  /\ IF failed' /\ evals < 3
     THEN pc' = "pool" /\ evals' = evals + 1
     ELSE pc' = "finalize" /\ UNCHANGED evals
  /\ UNCHANGED <<cache, buffer, searchVars, memVars, histVars>>

(* FINALIZE: free_aligned unless buffer is NULL; MAP_FAILED is refused by  *)
(* munmap.                                                                 *)
Finalize ==
  /\ pc = "finalize"
  /\ pc' = "done"
  /\ IF buffer \in Regions
     THEN \E ok \in Outcome("munmap") : FreeAligned(buffer, ok)
     ELSE UNCHANGED <<mapped, frame, stuck>>
  /\ UNCHANGED <<callVars, buffer, searchVars, other, entry, seen, passed>>

OtherTakes ==
  /\ Spare > 0
  /\ \E f \in Free : other' = other \cup {f}
  /\ UNCHANGED <<pc, callVars, buffer, searchVars, mapped, frame, histVars>>

OtherReturns ==
  /\ \E f \in other : other' = other \ {f}
  /\ UNCHANGED <<pc, callVars, buffer, searchVars, mapped, frame, histVars>>

-----------------------------------------------------------------------------

Alloc ==
  \/ ReadPool \/ AllocOldBuffers \/ MapBuffer \/ TriesUsedUp \/ TestPage
  \/ FreeOld \/ OldFreed \/ Decide

Program == Alloc \/ Continue \/ Finalize

Done == pc = "done" /\ UNCHANGED vars

Next == Program \/ OtherTakes \/ OtherReturns \/ Done

Spec == Init /\ [][Next]_vars /\ WF_vars(Program)

-----------------------------------------------------------------------------
(* Properties                                                              *)

Returned == pc = "returned"

(* What main sees is one of the outcomes the model of main assumes.        *)
KeepsContract ==
  Returned =>
    [ok |-> err = "none", buffer |-> State] \in AllocReturn(entry)

(* When a search ended with a passed test, success means that every line of*)
(* the buffer is aligned, although only the first line of each page was    *)
(* looked at.                                                              *)
(* Without one, success is only reported after a rejected buffer was freed,*)
(* which overwrote the error.                                              *)
SoundUnlessOverwritten ==
  Returned /\ err = "none" =>
    IF passed
    THEN State = "aligned"
    ELSE /\ tries > 0
         /\ State = "unmapped" => tries = maxTries

(* As long as munmap works, the first evaluation leaves no rejected buffer *)
(* behind, and nothing at all when it reports an error.                    *)
NoHugePageLeak ==
  Returned /\ evals = 1 /\ ~stuck =>
    /\ mapped \subseteq {buffer}
    /\ err # "none" => mapped = {}

(* Because rejected buffers stay mapped, using up all tries means that     *)
(* every huge page of the pool has been looked at.                         *)
ExhaustiveSearch ==
  pc = "free_old" /\ i = 0 /\ tries = maxTries
    /\ maxTries = Cardinality(Frames) => seen = Frames

(* The search ends whatever the other processes do.                        *)
Terminates == <>(pc = "done")

(* alloc.h: the buffer starts at the first cache set and its physical      *)
(* addresses are consecutive.                                              *)
ReturnsAlignedBuffer == Returned /\ err = "none" => State = "aligned"
=============================================================================
