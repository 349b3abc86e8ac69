------------------------- MODULE AlignedAllocProofs -------------------------
(***************************************************************************)
(* Theorems about AlignedAlloc, for every cache, pool and set of faults,   *)
(* and about the bytes behind the numbers it computes with (PageMap).      *)
(***************************************************************************)
EXTENDS AlignedAlloc, PageMap, TLAPS, FiniteSetTheorems

LEMMA Division ==
  ASSUME NEW a \in Nat, NEW b \in Nat \ {0}
  PROVE  /\ a \div b \in Nat /\ a % b \in 0 .. b - 1
         /\ a = b * (a \div b) + (a % b)
OBVIOUS

(* Quotient and remainder are unique.                                      *)
LEMMA Remainder ==
  ASSUME NEW b \in Nat \ {0}, NEW d \in Nat, NEW m \in 0 .. b - 1
  PROVE  (b * d + m) % b = m /\ (b * d + m) \div b = d
<1> DEFINE a == b * d + m
           e == a \div b
           n == a % b
<1>1. a \in Nat /\ e \in Nat /\ n \in 0 .. b - 1 /\ a = b * e + n
  <2>1. a \in Nat
    OBVIOUS
  <2> QED
    BY <2>1, Division
<1>2. b * d + m = b * e + n
  BY <1>1
<1> HIDE DEF a, e, n
<1>3. \A x, y \in Nat : x < y => b * x + b <= b * y
  <2> TAKE x, y \in Nat
  <2> HAVE x < y
  <2>1. b * (y - x - 1) \in Nat
    <3>1. y - x - 1 \in Nat
      OBVIOUS
    <3> QED
      BY <3>1
  <2>2. b * y = b * x + b + b * (y - x - 1)
    OBVIOUS
  <2>3. b * x \in Nat /\ b * y \in Nat
    OBVIOUS
  <2> QED
    BY <2>1, <2>2, <2>3
<1>4. b * d \in Nat /\ b * e \in Nat
  BY <1>1
<1>5. ~(d < e) /\ ~(e < d)
  BY <1>1, <1>2, <1>3, <1>4
<1>6. d = e
  BY <1>1, <1>5
<1>7. m = n
  BY <1>1, <1>2, <1>4, <1>6
<1> QED
  BY <1>6, <1>7 DEF n, e, a

(* When the first line of a page is on cache line c, the r-th line after it*)
(* is on cache line c + r, unless that is past the last one.               *)
LEMMA NextLines ==
  ASSUME NEW t \in Nat \ {0}, NEW x \in Nat, NEW c \in Nat, NEW r \in Nat,
         x % t = c, c + r < t
  PROVE  (x + r) % t = c + r
<1> DEFINE d == x \div t
<1>1. d \in Nat /\ x = t * d + c
  BY Division
<1>2. x + r = t * d + (c + r)
  BY <1>1
<1>3. c + r \in 0 .. t - 1
  OBVIOUS
<1> HIDE DEF d
<1> QED
  BY <1>1, <1>2, <1>3, Remainder

(* The number of pages covers the cache.                                   *)
LEMMA PageOfLine ==
  ASSUME NEW t \in Nat \ {0}, NEW k \in Nat \ {0}, NEW l \in 0 .. t - 1
  PROVE  /\ l \div k \in 0 .. ((t + k - 1) \div k) - 1
         /\ l % k \in Nat
         /\ l = (l \div k) * k + (l % k)
<1> DEFINE q == l \div k
           p == (t + k - 1) \div k
           u == (t + k - 1) % k
           v == l % k
<1>1. /\ q \in Nat /\ v \in 0 .. k - 1 /\ l = k * q + v
      /\ p \in Nat /\ u \in 0 .. k - 1 /\ t + k - 1 = k * p + u
  <2>1. l \in Nat /\ t + k - 1 \in Nat
    OBVIOUS
  <2> QED
    BY <2>1, Division
<1>2. l = q * k + v
  BY <1>1
<1> HIDE DEF q, p, u, v
<1>3. q < p
  <2> SUFFICES ASSUME p <= q PROVE FALSE
    BY <1>1
  <2>1. k * q = k * p + k * (q - p)
    BY <1>1
  <2>2. k * (q - p) \in Nat /\ k * p \in Nat /\ k * q \in Nat
    <3>1. q - p \in Nat
      BY <1>1
    <3> QED
      BY <1>1, <3>1
  <2>3. t + k - 1 < k * p + k
    BY <1>1, <2>2
  <2>4. l >= k * p
    BY <1>1, <2>1, <2>2
  <2> QED
    BY <2>2, <2>3, <2>4
<1> QED
  BY <1>1, <1>2, <1>3 DEF q, p, v

-----------------------------------------------------------------------------
(* What the search knows about *buffer                                     *)

PageMatches(p) ==
  /\ frame[buffer][p] \in Frames
  /\ LineId(frame[buffer][p]) = p * cache.pageLines

AllMatch == \A p \in 0 .. Pages - 1 : PageMatches(p)

(* *buffer is mapped, and freeing the rejected buffers will not touch it.  *)
InHand ==
  buffer \in mapped /\ \A n \in 1 .. Len(old) : old[n] # buffer

(* The part of the invariant that types the variables it speaks of.        *)
SearchType ==
  /\ cache \in Caches
  /\ buffer \in Regions \cup {"null", "map_failed"}
  /\ mapped \subseteq Regions
  /\ frame \in [Regions -> [0 .. Pages - 1 -> Frames \cup {NoFrame}]]
  /\ maxTries \in Nat /\ tries \in Nat /\ tries <= maxTries
  /\ i \in Nat /\ page \in Nat /\ passed \in BOOLEAN
  /\ old \in Seq(Regions) /\ Len(old) = tries

(* The rejected buffers stay mapped until the search is over, which is why *)
(* mmap cannot hand out one of them again.                                 *)
MapInv ==
  pc \in {"malloc", "map", "test"} =>
    /\ ~passed /\ maxTries >= 1
    /\ \A n \in 1 .. Len(old) : old[n] \in mapped

TestInv ==
  pc = "test" =>
    /\ tries < maxTries /\ page < Pages /\ InHand
    /\ \A p \in 0 .. page - 1 : PageMatches(p)

FreeInv ==
  pc \in {"free_old", "final"} =>
    /\ maxTries >= 1
    /\ tries < maxTries => buffer = "map_failed" \/ InHand
    /\ passed => tries < maxTries /\ InHand /\ AllMatch
    /\ ~passed /\ tries = 0 => err # "none"

ReturnInv ==
  pc = "returned" /\ err = "none" =>
    IF passed
    THEN buffer \in mapped /\ AllMatch
    ELSE /\ tries > 0
         /\ tries < maxTries => buffer = "map_failed" \/ buffer \in mapped

SearchInv ==
  SearchType /\ MapInv /\ TestInv /\ FreeInv /\ ReturnInv

LEMMA CacheType ==
  ASSUME cache \in Caches
  PROVE  cache.lines \in Nat \ {0} /\ cache.pageLines \in Nat \ {0}
BY AllocAssumption

LEMMA PagesType ==
  ASSUME cache \in Caches
  PROVE  Pages \in Nat /\ Pages >= 1
<1> DEFINE k == cache.pageLines
           n == cache.lines + k - 1
<1>1. cache.lines \in Nat \ {0} /\ k \in Nat \ {0}
  BY CacheType
<1>2. 0 \in 0 .. cache.lines - 1
  BY <1>1
<1>3. 0 \div k \in 0 .. (n \div k) - 1
  BY <1>1, <1>2, PageOfLine
<1>4. n \div k \in Nat
  <2>1. n \in Nat
    BY <1>1
  <2> QED
    BY <1>1, <2>1, Division
<1> QED
  BY <1>3, <1>4 DEF Pages

(* A buffer that passed the test has every line on its own cache line.     *)
LEMMA PassedIsAligned ==
  ASSUME SearchType, buffer \in mapped, AllMatch
  PROVE  State = "aligned"
<1> DEFINE t == cache.lines
           k == cache.pageLines
<1>0. t \in Nat \ {0} /\ k \in Nat \ {0}
  BY CacheType DEF SearchType
<1>1. Touched(buffer)
  BY AllocAssumption DEF AllMatch, PageMatches, Touched
<1>2. ASSUME NEW l \in 0 .. t - 1 PROVE CacheLine(buffer, l) = l
  <2> DEFINE q == l \div k
             r == l % k
             x == frame[buffer][q] * k
  <2>1. q \in 0 .. Pages - 1 /\ r \in Nat /\ l = q * k + r
    BY <1>0, PageOfLine DEF Pages
  <2> HIDE DEF q, r
  <2>2. frame[buffer][q] \in Nat /\ x % t = q * k
    <3>1. PageMatches(q)
      BY <2>1 DEF AllMatch
    <3> QED
      BY <3>1, AllocAssumption DEF PageMatches, LineId
  <2>3. x \in Nat /\ q * k \in Nat
    BY <1>0, <2>1, <2>2
  <2>4. q * k + r < t
    BY <1>0, <2>1
  <2> HIDE DEF x
  <2>5. (x + r) % t = q * k + r
    BY <1>0, <2>1, <2>2, <2>3, <2>4, NextLines
  <2> QED
    BY <2>1, <2>5 DEF CacheLine, q, r, x
<1>3. buffer \notin {"null", "map_failed"} /\ buffer \notin Regions \ mapped
  BY AllocAssumption DEF SearchType
<1> QED
  BY <1>1, <1>2, <1>3 DEF State

LEMMA SearchSound == SearchInv => SoundUnlessOverwritten
<1> SUFFICES ASSUME SearchInv, pc = "returned", err = "none"
             PROVE  IF passed
                    THEN State = "aligned"
                    ELSE /\ tries > 0
                         /\ State = "unmapped" => tries = maxTries
  BY DEF SoundUnlessOverwritten, Returned
<1>1. CASE passed
  BY <1>1, PassedIsAligned DEF SearchInv, ReturnInv
<1>2. CASE ~passed
  <2>1. /\ tries > 0
        /\ tries < maxTries => buffer = "map_failed" \/ buffer \in mapped
    BY <1>2 DEF SearchInv, ReturnInv
  <2>2. buffer = "map_failed" => State # "unmapped"
    BY AllocAssumption DEF State
  <2>3. buffer \in mapped => State # "unmapped"
    BY AllocAssumption DEF State, SearchInv, SearchType
  <2>4. tries <= maxTries /\ tries \in Nat /\ maxTries \in Nat
    BY DEF SearchInv, SearchType
  <2> QED
    BY <1>2, <2>1, <2>2, <2>3, <2>4
<1> QED
  BY <1>1, <1>2 DEF SearchInv, SearchType

-----------------------------------------------------------------------------
(* Every step keeps what the search knows                                  *)

(* No step changes the cache, hence the shape of a region.                 *)
LEMMA CacheFixed == [Next]_vars => cache' = cache /\ Pages' = Pages
<1> SUFFICES ASSUME [Next]_vars PROVE cache' = cache
  BY DEF Pages
<1> QED
  BY DEF Next, Program, Alloc, Done, vars, callVars, ReadPool, Start,
         AllocOldBuffers, MapBuffer, TriesUsedUp, TestPage, FreeOld, OldFreed,
         Decide, Continue, Finalize, OtherTakes, OtherReturns

(* FreeAligned leaves the other regions as they are.                       *)
LEMMA FreeKeeps ==
  ASSUME SearchType, NEW a, NEW ok \in BOOLEAN, FreeAligned(a, ok)
  PROVE  /\ mapped' \subseteq Regions
         /\ frame' \in [Regions -> [0 .. Pages - 1 -> Frames \cup {NoFrame}]]
         /\ \A b \in mapped : b # a => b \in mapped' /\ frame'[b] = frame[b]
<1>1. NoFrames \in [0 .. Pages - 1 -> Frames \cup {NoFrame}]
  BY DEF NoFrames
<1>2. frame \in [Regions -> [0 .. Pages - 1 -> Frames \cup {NoFrame}]]
      /\ mapped \subseteq Regions
  BY DEF SearchType
<1>3. CASE ok
  BY <1>1, <1>2, <1>3 DEF FreeAligned
<1>4. CASE ~ok
  BY <1>1, <1>2, <1>4 DEF FreeAligned
<1> QED
  BY <1>3, <1>4

LEMMA OutcomeType == \A call : Outcome(call) \subseteq BOOLEAN
BY DEF Outcome

LEMMA SearchInit == Init => SearchInv
<1> SUFFICES ASSUME Init PROVE SearchInv
  OBVIOUS
<1>1. frame \in [Regions -> [0 .. Pages - 1 -> Frames \cup {NoFrame}]]
  BY DEF Init, NoFrames
<1>2. old \in Seq(Regions) /\ Len(old) = 0
  BY DEF Init
<1>3. passed \in BOOLEAN /\ ~passed
  BY DEF Init
<1>4. /\ cache \in Caches /\ mapped \subseteq Regions
      /\ buffer \in Regions \cup {"null", "map_failed"}
      /\ maxTries = 0 /\ tries = 0 /\ i = 0 /\ page = 0
  BY DEF Init
<1>5. SearchType
  BY <1>1, <1>2, <1>3, <1>4 DEF SearchType
<1> QED
  BY <1>5 DEF Init, SearchInv, MapInv, TestInv, FreeInv, ReturnInv

LEMMA MapBufferStep ==
  ASSUME SearchInv, MapBuffer, cache' = cache, Pages' = Pages
  PROVE  SearchInv'
<1> USE DEF SearchInv, SearchType
<1>0. Pages \in Nat /\ Pages >= 1
  BY PagesType
<1>1. CASE pc' = "test"
  <2>1. PICK a \in Regions \ mapped :
          /\ buffer' = a
          /\ mapped' = mapped \cup {a}
          /\ frame' = [frame EXCEPT ![a] = NoFrames]
    BY <1>1 DEF MapBuffer
  <2>2. /\ page' = 0 /\ tries < maxTries
        /\ UNCHANGED <<maxTries, tries, old, i, passed>>
        /\ pc = "map"
    BY <1>1 DEF MapBuffer, histVars
  <2>3. NoFrames \in [0 .. Pages - 1 -> Frames \cup {NoFrame}]
    BY DEF NoFrames
  <2>4. frame' \in [Regions -> [0 .. Pages - 1 -> Frames \cup {NoFrame}]]
    BY <2>1, <2>3
  <2>5. SearchType'
    BY <2>1, <2>2, <2>4
  <2>6. \A n \in 1 .. Len(old) : old[n] \in mapped
    BY <2>2 DEF MapInv
  <2>7. InHand' /\ MapInv'
    BY <2>1, <2>2, <2>6 DEF InHand, MapInv
  <2>8. TestInv'
    BY <1>0, <2>2, <2>7 DEF TestInv
  <2> QED
    BY <1>1, <2>5, <2>7, <2>8 DEF FreeInv, ReturnInv
<1>2. CASE pc' # "test"
  <2>1. /\ buffer' = "map_failed" /\ err' = "mmap" /\ pc' = "free_old"
        /\ UNCHANGED <<mapped, frame, page, maxTries, tries, old, i, passed>>
        /\ pc = "map"
    BY <1>2 DEF MapBuffer, histVars
  <2>2. ~passed /\ maxTries >= 1
    BY <2>1 DEF MapInv
  <2> QED
    BY <2>1, <2>2 DEF MapInv, TestInv, FreeInv, ReturnInv
<1> QED
  BY <1>1, <1>2

LEMMA TestPageStep ==
  ASSUME SearchInv, TestPage, cache' = cache, Pages' = Pages
  PROVE  SearchInv'
<1> USE DEF SearchInv, SearchType
<1>0. Pages \in Nat /\ Pages >= 1
  BY PagesType
<1>1. PICK f \in Free :
       /\ frame' = [frame EXCEPT ![buffer][page] = f]
       /\ \/ /\ err' = "pagemap" /\ pc' = "free_old"
             /\ UNCHANGED <<tries, old, page, mapped, passed>>
          \/ ~Matches(f) /\ Reject /\ UNCHANGED <<page, passed>>
          \/ /\ Matches(f)
             /\ page' = page + 1
             /\ IF page + 1 < Pages
                THEN UNCHANGED <<pc, err, passed>>
                ELSE pc' = "free_old" /\ err' = "none" /\ passed' = TRUE
             /\ UNCHANGED <<tries, old, mapped>>
  BY DEF TestPage
<1>2. /\ pc = "test" /\ UNCHANGED <<buffer, maxTries, i>>
      /\ f \in Frames
  BY DEF TestPage, Free
<1>3. /\ ~passed /\ maxTries >= 1 /\ tries < maxTries /\ page < Pages
      /\ InHand /\ buffer \in Regions
      /\ \A n \in 1 .. Len(old) : old[n] \in mapped
      /\ \A p \in 0 .. page - 1 : PageMatches(p)
  BY <1>2 DEF MapInv, TestInv, InHand
<1>4. /\ frame' \in [Regions -> [0 .. Pages - 1 -> Frames \cup {NoFrame}]]
      /\ frame'[buffer][page] = f
      /\ \A p \in 0 .. Pages - 1 : p # page =>
           frame'[buffer][p] = frame[buffer][p]
  <2>1. page \in 0 .. Pages - 1
    BY <1>0, <1>3
  <2>2. [frame[buffer] EXCEPT ![page] = f]
          \in [0 .. Pages - 1 -> Frames \cup {NoFrame}]
    BY <1>2, <1>3
  <2>3. frame' = [frame EXCEPT ![buffer] = [frame[buffer] EXCEPT ![page] = f]]
    BY <1>1
  <2> QED
    BY <1>3, <2>1, <2>2, <2>3
<1>5. CASE err' = "pagemap" /\ pc' = "free_old"
             /\ UNCHANGED <<tries, old, page, mapped, passed>>
  BY <1>2, <1>3, <1>4, <1>5 DEF MapInv, TestInv, FreeInv, ReturnInv, InHand
<1>6. CASE Reject /\ UNCHANGED <<page, passed>>
  <2>1. /\ old' = Append(old, buffer) /\ tries' = tries + 1
        /\ pc' = "map" /\ mapped' = mapped
    BY <1>6 DEF Reject
  <2>2. old' \in Seq(Regions) /\ Len(old') = tries'
    BY <1>3, <2>1
  <2>3. \A n \in 1 .. Len(old') : old'[n] \in mapped'
    BY <1>3, <2>1 DEF InHand
  <2> QED
    BY <1>2, <1>3, <1>4, <1>6, <2>1, <2>2, <2>3
       DEF MapInv, TestInv, FreeInv, ReturnInv
<1>7. CASE /\ Matches(f)
           /\ page' = page + 1
           /\ IF page + 1 < Pages
              THEN UNCHANGED <<pc, err, passed>>
              ELSE pc' = "free_old" /\ err' = "none" /\ passed' = TRUE
           /\ UNCHANGED <<tries, old, mapped>>
  <2>1. \A p \in 0 .. page : PageMatches(p)'
    <3> TAKE p \in 0 .. page
    <3>1. CASE p = page
      BY <1>2, <1>4, <1>7, <3>1 DEF PageMatches, Matches, LineId
    <3>2. CASE p # page
      <4>1. p \in 0 .. page - 1 /\ p \in 0 .. Pages - 1
        BY <1>0, <1>3, <3>2
      <4>2. frame'[buffer][p] = frame[buffer][p] /\ PageMatches(p)
        BY <1>3, <1>4, <3>2, <4>1
      <4> QED
        BY <1>2, <4>2 DEF PageMatches, LineId
    <3> QED
      BY <3>1, <3>2
  <2>2. InHand'
    BY <1>2, <1>3, <1>7 DEF InHand
  <2>3. SearchType'
    <3>1. passed' \in BOOLEAN
      BY <1>7
    <3>2. page' \in Nat
      BY <1>7
    <3>3. UNCHANGED <<tries, old, mapped, buffer, maxTries, i>>
      BY <1>2, <1>7
    <3> QED
      BY <1>4, <3>1, <3>2, <3>3
  <2>4. CASE page + 1 < Pages
    BY <1>2, <1>3, <1>7, <2>1, <2>2, <2>3, <2>4
       DEF MapInv, TestInv, FreeInv, ReturnInv
  <2>5. CASE ~(page + 1 < Pages)
    <3>1. page = Pages - 1
      BY <1>0, <1>3, <2>5
    <3>2. AllMatch'
      BY <2>1, <3>1 DEF AllMatch
    <3> QED
      BY <1>2, <1>3, <1>7, <2>2, <2>3, <2>5, <3>2
         DEF MapInv, TestInv, FreeInv, ReturnInv
  <2> QED
    BY <2>4, <2>5
<1> QED
  BY <1>1, <1>5, <1>6, <1>7

(* A step that changes nothing the search knows of.                        *)
LEMMA SearchFrame ==
  ASSUME SearchInv,
         UNCHANGED <<cache, pc, buffer, maxTries, tries, err, old, i, page,
                     mapped, frame, passed>>
  PROVE  SearchInv'
<1>1. UNCHANGED Pages
  BY DEF Pages
<1>2. SearchType'
  BY <1>1 DEF SearchInv, SearchType
<1>3. UNCHANGED <<InHand, AllMatch>> /\ \A p : PageMatches(p)' = PageMatches(p)
  BY <1>1 DEF InHand, AllMatch, PageMatches, LineId
<1>4. MapInv' /\ FreeInv' /\ ReturnInv'
  BY <1>3 DEF SearchInv, MapInv, FreeInv, ReturnInv
<1>5. TestInv'
  BY <1>1, <1>3 DEF SearchInv, TestInv
<1> QED
  BY <1>2, <1>4, <1>5 DEF SearchInv

(* The type part survives a change of pc, err and the history variables.   *)
LEMMA SearchTypeFrame ==
  ASSUME SearchType,
         UNCHANGED <<cache, buffer, maxTries, tries, old, i, page,
                     mapped, frame, passed>>
  PROVE  SearchType' /\ UNCHANGED <<InHand, AllMatch>>
<1>1. UNCHANGED Pages
  BY DEF Pages
<1> QED
  BY <1>1 DEF SearchType, InHand, AllMatch, PageMatches, LineId

LEMMA ReadPoolStep ==
  ASSUME SearchInv, ReadPool, cache' = cache, Pages' = Pages
  PROVE  SearchInv'
<1>1. /\ tries' = 0 /\ old' = <<>> /\ i' = 0
      /\ UNCHANGED <<buffer, page, mapped, frame>>
      /\ pc' \in {"malloc", "returned"}
      /\ pc' = "malloc" => maxTries' >= 1
      /\ pc' = "returned" => err' # "none"
  BY DEF ReadPool, Start, Return, memVars
<1>2. passed' \in BOOLEAN /\ ~passed'
  BY DEF ReadPool, Start
<1>3. maxTries' \in Nat
  <2>1. maxTries' \in PoolSizes \/ maxTries' = 0
    BY DEF ReadPool
  <2>2. PoolSizes \subseteq Nat
    BY AllocAssumption
  <2>3. CASE maxTries' \in PoolSizes
    BY <2>2, <2>3
  <2>4. CASE maxTries' = 0
    BY <2>4
  <2> QED
    BY <2>1, <2>3, <2>4
<1>4. old' \in Seq(Regions) /\ Len(old') = 0
  BY <1>1
<1>5. SearchType'
  BY <1>1, <1>2, <1>3, <1>4 DEF SearchInv, SearchType
<1> QED
  BY <1>1, <1>2, <1>4, <1>5
     DEF SearchInv, MapInv, TestInv, FreeInv, ReturnInv

LEMMA AllocOldBuffersStep ==
  ASSUME SearchInv, AllocOldBuffers, cache' = cache
  PROVE  SearchInv'
<1>1. /\ pc = "malloc" /\ pc' \in {"map", "returned"}
      /\ pc' = "returned" => err' # "none"
      /\ UNCHANGED <<buffer, maxTries, tries, old, i, page, mapped, frame,
                     passed>>
  BY DEF AllocOldBuffers, Return, memVars, histVars
<1>2. SearchType'
  BY <1>1, SearchTypeFrame DEF SearchInv
<1> QED
  BY <1>1, <1>2 DEF SearchInv, MapInv, TestInv, FreeInv, ReturnInv

LEMMA TriesUsedUpStep ==
  ASSUME SearchInv, TriesUsedUp, cache' = cache
  PROVE  SearchInv'
<1>1. /\ pc = "map" /\ pc' = "free_old" /\ tries = maxTries
      /\ UNCHANGED <<buffer, maxTries, tries, old, i, page, err, mapped, frame,
                     passed>>
  BY DEF TriesUsedUp, searchVars, memVars, histVars
<1>2. SearchType'
  BY <1>1, SearchTypeFrame DEF SearchInv
<1>3. maxTries >= 1 /\ ~passed /\ maxTries \in Nat
  BY <1>1 DEF SearchInv, MapInv, SearchType
<1> QED
  BY <1>1, <1>2, <1>3 DEF SearchInv, MapInv, TestInv, FreeInv, ReturnInv

(* While the search is not used up, the buffer in hand is none of those    *)
(* that are freed.                                                         *)
LEMMA FreeOldStep ==
  ASSUME SearchInv, FreeOld, cache' = cache, Pages' = Pages
  PROVE  SearchInv'
<1>1. PICK ok \in Outcome("munmap") : FreeAligned(old[i + 1], ok)
  BY DEF FreeOld
<1>2. /\ pc = "free_old" /\ pc' = "free_old" /\ i < tries /\ i' = i + 1
      /\ UNCHANGED <<buffer, maxTries, tries, old, page, passed>>
  BY DEF FreeOld
<1>3. SearchType /\ ok \in BOOLEAN
  BY OutcomeType DEF SearchInv
<1>4. i + 1 \in 1 .. Len(old) /\ old[i + 1] \in Regions
  BY <1>2, <1>3 DEF SearchType
<1>5. /\ mapped' \subseteq Regions
      /\ frame' \in [Regions -> [0 .. Pages - 1 -> Frames \cup {NoFrame}]]
      /\ \A b \in mapped : b # old[i + 1] => b \in mapped' /\ frame'[b] = frame[b]
  BY <1>1, <1>3, <1>4, FreeKeeps
<1>6. SearchType'
  BY <1>2, <1>3, <1>5 DEF SearchType
<1>7. InHand => InHand' /\ (AllMatch => AllMatch')
  <2> SUFFICES ASSUME InHand PROVE InHand' /\ (AllMatch => AllMatch')
    OBVIOUS
  <2>1. buffer \in mapped' /\ frame'[buffer] = frame[buffer]
    BY <1>4, <1>5 DEF InHand
  <2>2. InHand'
    BY <1>2, <2>1 DEF InHand
  <2>3. AllMatch => AllMatch'
    BY <1>2, <2>1 DEF AllMatch, PageMatches, LineId
  <2> QED
    BY <2>2, <2>3
<1>8. tries # 0
  BY <1>2, <1>3 DEF SearchType
<1>9. FreeInv'
  BY <1>2, <1>7, <1>8 DEF SearchInv, FreeInv
<1> QED
  BY <1>2, <1>6, <1>9 DEF SearchInv, MapInv, TestInv, ReturnInv

LEMMA OldFreedStep ==
  ASSUME SearchInv, OldFreed, cache' = cache
  PROVE  SearchInv'
<1>1. /\ pc = "free_old" /\ pc' = "final"
      /\ UNCHANGED <<buffer, maxTries, tries, old, i, page, err, mapped, frame,
                     passed>>
  BY DEF OldFreed, searchVars, memVars, histVars
<1>2. SearchType' /\ UNCHANGED <<InHand, AllMatch>>
  BY <1>1, SearchTypeFrame DEF SearchInv
<1> QED
  BY <1>1, <1>2 DEF SearchInv, MapInv, TestInv, FreeInv, ReturnInv

(* Where "Found" is reported without a passed test, a rejected buffer has  *)
(* been freed; where "Did not find" comes with no error, all were.         *)
LEMMA DecideStep ==
  ASSUME SearchInv, Decide, cache' = cache, Pages' = Pages
  PROVE  SearchInv'
<1>0. /\ SearchType /\ FreeInv /\ pc = "final" /\ pc' = "returned"
      /\ UNCHANGED <<buffer, maxTries, tries, old, i, page, passed>>
  BY DEF SearchInv, Decide, Return
<1>1. CASE tries < maxTries /\ err = "none"
  <2>1. UNCHANGED <<err, mapped, frame>>
    BY <1>1 DEF Decide, Return
  <2>2. SearchType' /\ UNCHANGED <<InHand, AllMatch>>
    BY <1>0, <2>1, SearchTypeFrame
  <2>3. ReturnInv'
    <3>1. CASE passed
      BY <1>0, <2>1, <2>2, <3>1 DEF FreeInv, ReturnInv, InHand
    <3>2. CASE ~passed
      <4>1. tries > 0
        BY <1>0, <1>1, <3>2 DEF FreeInv, SearchType
      <4> QED
        BY <1>0, <2>1, <3>2, <4>1 DEF FreeInv, ReturnInv, InHand
    <3> QED
      BY <3>1, <3>2
  <2> QED
    BY <1>0, <2>2, <2>3 DEF SearchInv, MapInv, TestInv, FreeInv
<1>2. CASE ~(tries < maxTries /\ err = "none")
  <2>1. SearchType'
    <3>1. CASE UNCHANGED <<mapped, frame>>
      BY <1>0, <3>1, SearchTypeFrame
    <3>2. CASE \E ok \in Outcome("munmap") :
                 buffer # "map_failed" /\ FreeAligned(buffer, ok)
      <4>1. PICK ok \in BOOLEAN : FreeAligned(buffer, ok)
        BY <3>2, OutcomeType
      <4>2. /\ mapped' \subseteq Regions
            /\ frame' \in [Regions -> [0 .. Pages - 1 -> Frames \cup {NoFrame}]]
        BY <1>0, <4>1, FreeKeeps
      <4> QED
        BY <1>0, <4>2 DEF SearchType
    <3> QED
      BY <1>2, <3>1, <3>2 DEF Decide
  <2>2. err' = "none" => err = "none"
    BY <1>2 DEF Decide, Return
  <2>3. ReturnInv'
    <3> SUFFICES ASSUME err' = "none"
                 PROVE  ~passed /\ tries > 0 /\ ~(tries < maxTries)
      BY <1>0 DEF ReturnInv
    <3>1. err = "none" /\ ~(tries < maxTries)
      BY <1>2, <2>2
    <3> QED
      BY <1>0, <3>1 DEF FreeInv, SearchType
  <2> QED
    BY <1>0, <2>1, <2>3 DEF SearchInv, MapInv, TestInv, FreeInv
<1> QED
  BY <1>1, <1>2

LEMMA ContinueStep ==
  ASSUME SearchInv, Continue
  PROVE  SearchInv'
<1>1. /\ pc' \in {"pool", "finalize"}
      /\ UNCHANGED <<cache, buffer, maxTries, tries, old, i, page, mapped,
                     frame, passed>>
  BY DEF Continue, searchVars, memVars, histVars
<1>2. SearchType'
  BY <1>1, SearchTypeFrame DEF SearchInv
<1> QED
  BY <1>1, <1>2 DEF SearchInv, MapInv, TestInv, FreeInv, ReturnInv

LEMMA FinalizeStep ==
  ASSUME SearchInv, Finalize, cache' = cache, Pages' = Pages
  PROVE  SearchInv'
<1>1. /\ pc' = "done" /\ SearchType
      /\ UNCHANGED <<buffer, maxTries, tries, old, i, page, passed>>
  BY DEF Finalize, searchVars, SearchInv
<1>2. SearchType'
  <2>1. CASE buffer \in Regions
    <3>1. PICK ok \in BOOLEAN : FreeAligned(buffer, ok)
      BY <2>1, OutcomeType DEF Finalize
    <3>2. /\ mapped' \subseteq Regions
          /\ frame' \in [Regions -> [0 .. Pages - 1 -> Frames \cup {NoFrame}]]
      BY <1>1, <2>1, <3>1, FreeKeeps
    <3> QED
      BY <1>1, <3>2 DEF SearchType
  <2>2. CASE buffer \notin Regions
    <3>1. UNCHANGED <<mapped, frame>>
      BY <2>2 DEF Finalize
    <3> QED
      BY <1>1, <3>1, SearchTypeFrame
  <2> QED
    BY <2>1, <2>2
<1> QED
  BY <1>1, <1>2 DEF SearchInv, MapInv, TestInv, FreeInv, ReturnInv

LEMMA SearchStep == SearchInv /\ [Next]_vars => SearchInv'
<1> SUFFICES ASSUME SearchInv, [Next]_vars PROVE SearchInv'
  OBVIOUS
<1>0. cache' = cache /\ Pages' = Pages
  BY CacheFixed
<1>1. CASE ReadPool
  BY <1>0, <1>1, ReadPoolStep
<1>2. CASE AllocOldBuffers
  BY <1>0, <1>2, AllocOldBuffersStep
<1>3. CASE MapBuffer
  BY <1>0, <1>3, MapBufferStep
<1>4. CASE TriesUsedUp
  BY <1>0, <1>4, TriesUsedUpStep
<1>5. CASE TestPage
  BY <1>0, <1>5, TestPageStep
<1>6. CASE FreeOld
  BY <1>0, <1>6, FreeOldStep
<1>7. CASE OldFreed
  BY <1>0, <1>7, OldFreedStep
<1>8. CASE Decide
  BY <1>0, <1>8, DecideStep
<1>9. CASE Continue
  BY <1>9, ContinueStep
<1>10. CASE Finalize
  BY <1>0, <1>10, FinalizeStep
<1>11. CASE OtherTakes \/ OtherReturns
  BY <1>0, <1>11, SearchFrame
     DEF OtherTakes, OtherReturns, searchVars, histVars
<1>12. CASE UNCHANGED vars
  BY <1>0, <1>12, SearchFrame
     DEF vars, searchVars, memVars, histVars
<1> QED
  BY <1>1, <1>2, <1>3, <1>4, <1>5, <1>6, <1>7, <1>8, <1>9, <1>10, <1>11,
     <1>12 DEF Next, Program, Alloc, Done

(* When alloc_aligned reports success after a passed test, every line of   *)
(* the buffer is on its own cache line; success without one has freed a    *)
(* rejected buffer, and hands out an unmapped one only when all tries are  *)
(* used up.                                                                *)
THEOREM AllocSound == Spec => []SoundUnlessOverwritten
<1>1. Init => SearchInv
  BY SearchInit
<1>2. SearchInv /\ [Next]_vars => SearchInv'
  BY SearchStep
<1>3. SearchInv => SoundUnlessOverwritten
  BY SearchSound
<1> QED
  BY <1>1, <1>2, <1>3, PTL DEF Spec

LEMMA SearchInvariant == Spec => []SearchInv
BY SearchInit, SearchStep, PTL DEF Spec

-----------------------------------------------------------------------------
(* Type correctness                                                        *)

USE DEF callVars, searchVars, memVars, histVars

LEMMA StateType == State \in BufferState
BY DEF State, BufferState

(* What SearchType leaves out.                                             *)
RestType ==
  /\ pc \in {"pool", "malloc", "map", "test", "free_old", "final",
             "returned", "finalize", "done"}
  /\ evals \in 1 .. 3 /\ failed \in BOOLEAN /\ err \in Errors
  /\ other \subseteq Frames
  /\ entry \in BufferState /\ seen \subseteq Frames
  /\ stuck \in BOOLEAN

LEMMA RestStep == SearchInv /\ RestType /\ [Next]_vars => RestType'
<1> SUFFICES ASSUME SearchInv, RestType, [Next]_vars PROVE RestType'
  OBVIOUS
<1> USE DEF RestType, Errors
<1>1. CASE ReadPool
  BY <1>1, StateType DEF ReadPool, Start, Return
<1>2. CASE AllocOldBuffers
  BY <1>2 DEF AllocOldBuffers, Return
<1>3. CASE MapBuffer
  BY <1>3 DEF MapBuffer
<1>4. CASE TriesUsedUp
  BY <1>4 DEF TriesUsedUp
<1>5. CASE TestPage
  BY <1>5 DEF TestPage, Free, Reject
<1>6. CASE FreeOld
  BY <1>6, OutcomeType DEF FreeOld, FreeAligned
<1>7. CASE OldFreed
  BY <1>7 DEF OldFreed
<1>8. CASE Decide
  BY <1>8, OutcomeType DEF Decide, FreeAligned, Return
<1>9. CASE Continue
  BY <1>9 DEF Continue
<1>10. CASE Finalize
  BY <1>10, OutcomeType DEF Finalize, FreeAligned
<1>11. CASE OtherTakes \/ OtherReturns
  BY <1>11 DEF OtherTakes, OtherReturns, Free
<1>12. CASE UNCHANGED vars
  BY <1>12 DEF vars
<1> QED
  BY <1>1, <1>2, <1>3, <1>4, <1>5, <1>6, <1>7, <1>8, <1>9, <1>10, <1>11,
     <1>12 DEF Next, Program, Alloc, Done

LEMMA TypeInvariant == Spec => [](SearchInv /\ RestType)
<1>1. Init => RestType
  <2> SUFFICES ASSUME Init PROVE RestType
    OBVIOUS
  <2>1. other \subseteq Frames /\ failed \in BOOLEAN /\ stuck \in BOOLEAN
    BY DEF Init
  <2>2. evals \in 1 .. 3 /\ err = "none" /\ entry = "null" /\ seen = {}
          /\ pc = "pool"
    BY DEF Init
  <2> QED
    BY <2>1, <2>2 DEF RestType, Errors, BufferState
<1> QED
  BY <1>1, SearchInit, SearchStep, RestStep, PTL DEF Spec

(* Every variable keeps its type; the loop never counts more rejected      *)
(* buffers than old_buffers has room for.                                  *)
THEOREM TypeCorrect == Spec => []TypeOK
<1>1. SearchInv /\ RestType => TypeOK
  BY DEF SearchInv, SearchType, RestType, TypeOK
<1> QED
  BY <1>1, TypeInvariant, PTL

-----------------------------------------------------------------------------
(* Exhaustive search                                                       *)

(* While the search goes on, every frame it has touched is still behind a  *)
(* buffer, so that the next one it touches is a new one.                   *)
SeenInv ==
  /\ pc = "malloc" => seen = {} /\ tries = 0
  /\ pc \in {"map", "test"} => seen \subseteq Backed
  /\ pc = "test" => \A p \in page .. Pages - 1 : frame[buffer][p] = NoFrame
  /\ pc \in {"malloc", "map", "test", "free_old"} => tries <= Cardinality(seen)

(* A step that changes nothing SeenInv speaks of but pc.                   *)
LEMMA SeenKept ==
  ASSUME SeenInv, UNCHANGED <<cache, buffer, page, mapped, frame, seen, tries>>,
         \/ pc' = pc
         \/ pc = "malloc" /\ pc' = "map"
         \/ pc = "map" /\ pc' = "free_old"
         \/ pc' \in {"pool", "final", "returned", "finalize", "done"}
  PROVE  SeenInv'
<1>1. Pages' = Pages /\ Backed' = Backed
  BY DEF Pages, Backed
<1> QED
  BY <1>1 DEF SeenInv

LEMMA SeenMap ==
  ASSUME SearchInv, SeenInv, MapBuffer, cache' = cache, Pages' = Pages
  PROVE  SeenInv'
<1>1. /\ pc = "map" /\ UNCHANGED <<tries, seen>>
      /\ seen \subseteq Backed /\ tries <= Cardinality(seen)
  BY DEF MapBuffer, SeenInv
<1>2. CASE pc' = "test"
  <2>1. PICK a \in Regions \ mapped :
          /\ buffer' = a
          /\ mapped' = mapped \cup {a}
          /\ frame' = [frame EXCEPT ![a] = NoFrames]
    BY <1>2 DEF MapBuffer
  <2>2. /\ mapped \subseteq Regions
        /\ frame \in [Regions -> [0 .. Pages - 1 -> Frames \cup {NoFrame}]]
    BY DEF SearchInv, SearchType
  <2>3. /\ \A b \in mapped : frame'[b] = frame[b]
        /\ frame'[a] = NoFrames
    BY <2>1, <2>2
  <2>4. Backed \subseteq Backed'
    BY <2>1, <2>3 DEF Backed
  <2>5. \A p \in 0 .. Pages - 1 : frame'[buffer'][p] = NoFrame
    BY <2>1, <2>3 DEF NoFrames
  <2>6. page' = 0
    BY <1>2 DEF MapBuffer
  <2> QED
    BY <1>1, <1>2, <2>4, <2>5, <2>6 DEF SeenInv
<1>3. CASE pc' # "test"
  <2>1. pc' = "free_old"
    BY <1>3 DEF MapBuffer
  <2> QED
    BY <1>1, <2>1 DEF SeenInv
<1> QED
  BY <1>2, <1>3

LEMMA FramesBehind ==
  ASSUME NEW regions, NEW pages, NEW behind
  PROVE  \A x : x \in (UNION {{behind[a][p] : p \in pages} : a \in regions})
                   \ {NoFrame} <=>
           /\ x # NoFrame
           /\ \E a \in regions : \E p \in pages : x = behind[a][p]
<1> DEFINE Behind(a) == {behind[a][p] : p \in pages}
<1>1. \A a, x : x \in Behind(a) <=> \E p \in pages : x = behind[a][p]
  OBVIOUS
<1> HIDE DEF Behind
<1>2. \A x : x \in UNION {Behind(a) : a \in regions} <=>
             \E a \in regions : x \in Behind(a)
  OBVIOUS
<1>3. \A x : x \in (UNION {Behind(a) : a \in regions}) \ {NoFrame} <=>
             /\ x # NoFrame
             /\ \E a \in regions : \E p \in pages : x = behind[a][p]
  BY <1>1, <1>2
<1> QED
  BY <1>3 DEF Behind

LEMMA SeenTest ==
  ASSUME SearchInv, RestType, SeenInv, TestPage, cache' = cache, Pages' = Pages
  PROVE  SeenInv'
<1>0. Pages \in Nat /\ tries \in Nat
  BY PagesType DEF SearchInv, SearchType
<1>1. PICK f \in Free :
       /\ frame' = [frame EXCEPT ![buffer][page] = f]
       /\ seen' = seen \cup {f}
       /\ \/ /\ err' = "pagemap" /\ pc' = "free_old"
             /\ UNCHANGED <<tries, old, page, mapped, passed>>
          \/ ~Matches(f) /\ Reject /\ UNCHANGED <<page, passed>>
          \/ /\ Matches(f)
             /\ page' = page + 1
             /\ IF page + 1 < Pages
                THEN UNCHANGED <<pc, err, passed>>
                ELSE pc' = "free_old" /\ err' = "none" /\ passed' = TRUE
             /\ UNCHANGED <<tries, old, mapped>>
  BY DEF TestPage
<1>2. /\ pc = "test" /\ buffer' = buffer /\ mapped' = mapped
      /\ tries' \in {tries, tries + 1}
      /\ \/ pc' \in {"free_old", "map"}
         \/ pc' = "test" /\ page' = page + 1
  BY <1>1 DEF TestPage, Reject
<1>3. /\ page \in Nat /\ page < Pages
      /\ buffer \in Regions /\ buffer \in mapped /\ mapped \subseteq Regions
      /\ frame \in [Regions -> [0 .. Pages - 1 -> Frames \cup {NoFrame}]]
  BY <1>2 DEF SearchInv, SearchType, TestInv, InHand
<1>4. /\ seen \subseteq Backed /\ tries <= Cardinality(seen)
      /\ \A p \in page .. Pages - 1 : frame[buffer][p] = NoFrame
      /\ f \in Frames /\ f \notin Backed
  BY <1>2 DEF SeenInv, Free
<1>5. page \in 0 .. Pages - 1 /\ page \in page .. Pages - 1
  BY <1>0, <1>3
<1>6. /\ frame'[buffer][page] = f
      /\ \A p \in 0 .. Pages - 1 : p # page =>
           frame'[buffer][p] = frame[buffer][p]
      /\ \A a \in mapped : a # buffer => frame'[a] = frame[a]
  BY <1>1, <1>3, <1>5
<1>7. Backed \cup {f} \subseteq Backed'
  <2>0. /\ \A x : x \in Backed <=>
             /\ x # NoFrame
             /\ \E a \in mapped : \E p \in 0 .. Pages - 1 : x = frame[a][p]
        /\ \A x : x \in Backed' <=>
             /\ x # NoFrame
             /\ \E a \in mapped : \E p \in 0 .. Pages - 1 : x = frame'[a][p]
    <3>1. \A x : x \in Backed <=>
             /\ x # NoFrame
             /\ \E a \in mapped : \E p \in 0 .. Pages - 1 : x = frame[a][p]
      BY FramesBehind DEF Backed
    <3>2. \A x : x \in Backed' <=>
             /\ x # NoFrame
             /\ \E a \in mapped' : \E p \in 0 .. Pages' - 1 : x = frame'[a][p]
      BY FramesBehind DEF Backed
    <3> QED
      BY <1>2, <3>1, <3>2
  <2>1. f \in Backed'
    <3>1. f # NoFrame
      BY <1>4, AllocAssumption
    <3> QED
      BY <1>3, <1>5, <1>6, <2>0, <3>1
  <2>2. ASSUME NEW x \in Backed PROVE x \in Backed'
    <3>1. x # NoFrame
      BY <2>0
    <3>2. PICK a \in mapped, p \in 0 .. Pages - 1 : x = frame[a][p]
      BY <2>0
    <3>3. ~(a = buffer /\ p = page)
      BY <1>4, <1>5, <3>1, <3>2
    <3>4. frame'[a][p] = x
      BY <1>6, <3>2, <3>3
    <3> QED
      BY <2>0, <3>1, <3>2, <3>4
  <2> QED
    BY <2>1, <2>2
<1>8. tries' <= Cardinality(seen')
  <2>1. IsFiniteSet(seen) /\ f \notin seen
    BY <1>4, AllocAssumption, FS_Subset DEF RestType
  <2>2. Cardinality(seen') = Cardinality(seen) + 1 /\ Cardinality(seen) \in Nat
    BY <1>1, <2>1, FS_AddElement, FS_CardinalityType
  <2> QED
    BY <1>0, <1>2, <1>4, <2>2
<1>9. seen' \subseteq Backed'
  BY <1>1, <1>4, <1>7
<1>10. pc' = "test" =>
         \A p \in page' .. Pages - 1 : frame'[buffer'][p] = NoFrame
  <2> SUFFICES ASSUME pc' = "test", NEW p \in page' .. Pages - 1
               PROVE  frame'[buffer'][p] = NoFrame
    OBVIOUS
  <2>1. p \in page .. Pages - 1 /\ p \in 0 .. Pages - 1 /\ p # page
    BY <1>0, <1>2, <1>3
  <2> QED
    BY <1>2, <1>4, <1>6, <2>1
<1> QED
  BY <1>2, <1>8, <1>9, <1>10 DEF SeenInv

LEMMA SeenStep ==
  SearchInv /\ RestType /\ SeenInv /\ [Next]_vars => SeenInv'
<1> SUFFICES ASSUME SearchInv, RestType, SeenInv, [Next]_vars PROVE SeenInv'
  OBVIOUS
<1>0. cache' = cache /\ Pages' = Pages
  BY CacheFixed
<1>1. CASE ReadPool
  <2>1. seen' = {} /\ tries' = 0 /\ pc' \in {"malloc", "returned"}
    BY <1>1 DEF ReadPool, Start, Return
  <2> QED
    BY <2>1, FS_EmptySet DEF SeenInv
<1>2. CASE AllocOldBuffers
  BY <1>0, <1>2, SeenKept DEF AllocOldBuffers, Return
<1>3. CASE MapBuffer
  BY <1>0, <1>3, SeenMap
<1>4. CASE TriesUsedUp
  BY <1>0, <1>4, SeenKept DEF TriesUsedUp
<1>5. CASE TestPage
  BY <1>0, <1>5, SeenTest
<1>6. CASE FreeOld
  BY <1>6 DEF FreeOld, SeenInv
<1>7. CASE OldFreed
  BY <1>0, <1>7, SeenKept DEF OldFreed
<1>8. CASE Decide
  BY <1>8 DEF Decide, Return, SeenInv
<1>9. CASE Continue
  BY <1>9, SeenKept DEF Continue
<1>10. CASE Finalize
  BY <1>10 DEF Finalize, SeenInv
<1>11. CASE OtherTakes \/ OtherReturns
  BY <1>0, <1>11, SeenKept DEF OtherTakes, OtherReturns
<1>12. CASE UNCHANGED vars
  BY <1>12, SeenKept DEF vars
<1> QED
  BY <1>1, <1>2, <1>3, <1>4, <1>5, <1>6, <1>7, <1>8, <1>9, <1>10, <1>11,
     <1>12 DEF Next, Program, Alloc, Done

(* Rejected buffers stay mapped, so that each try costs the pool a frame   *)
(* that was not tried before: with as many tries as the pool has frames the*)
(* search is exhaustive, however large the pool and the cache are and      *)
(* whatever other processes take.                                          *)
THEOREM SearchExhausts == Spec => []ExhaustiveSearch
<1>1. Init => SeenInv
  BY DEF Init, SeenInv
<1>2. SearchInv /\ RestType /\ SeenInv => ExhaustiveSearch
  <2> SUFFICES ASSUME SearchInv, RestType, SeenInv, pc = "free_old",
                      tries = maxTries, maxTries = Cardinality(Frames)
               PROVE  seen = Frames
    BY DEF ExhaustiveSearch
  <2>1. Cardinality(Frames) <= Cardinality(seen) /\ seen \in SUBSET Frames
    BY DEF SeenInv, RestType
  <2>2. IsFiniteSet(Frames)
    BY AllocAssumption
  <2>3. /\ IsFiniteSet(seen) /\ Cardinality(seen) <= Cardinality(Frames)
        /\ Cardinality(seen) = Cardinality(Frames) => seen = Frames
    BY <2>1, <2>2, FS_Subset
  <2> QED
    BY <2>1, <2>2, <2>3, FS_CardinalityType
<1> QED
  BY <1>1, <1>2, SeenStep, TypeInvariant, PTL DEF Spec

-----------------------------------------------------------------------------
(* The contract with main                                                  *)

(* The early returns leave *buffer alone; past them it was set.            *)
ContractInv ==
  /\ pc = "malloc" => State = entry /\ tries = 0
  /\ pc = "map" /\ tries > 0 => buffer # "null"
  /\ pc \in {"test", "free_old", "final"} => buffer # "null"
  /\ pc = "returned" => (err # "none" /\ State = entry) \/ buffer # "null"

LEMMA StateKept ==
  ASSUME UNCHANGED <<cache, buffer, mapped, frame>>
  PROVE  State' = State
BY DEF State, Touched, CacheLine, Pages

LEMMA ContractStep == SearchInv /\ ContractInv /\ [Next]_vars => ContractInv'
<1> SUFFICES ASSUME SearchInv, ContractInv, [Next]_vars PROVE ContractInv'
  OBVIOUS
<1>1. CASE ReadPool
  <2>1. State' = State
    BY <1>1, StateKept DEF ReadPool, Start
  <2>2. /\ entry' = State /\ tries' = 0 /\ pc' \in {"malloc", "returned"}
        /\ pc' = "returned" => err' # "none"
    BY <1>1 DEF ReadPool, Start, Return
  <2> QED
    BY <2>1, <2>2 DEF ContractInv
<1>2. CASE AllocOldBuffers
  <2>1. State' = State
    BY <1>2, StateKept DEF AllocOldBuffers
  <2>2. /\ pc = "malloc" /\ UNCHANGED <<entry, tries>>
        /\ pc' \in {"map", "returned"} /\ (pc' = "returned" => err' # "none")
    BY <1>2 DEF AllocOldBuffers, Return
  <2> QED
    BY <2>1, <2>2 DEF ContractInv
<1>3. CASE MapBuffer
  <2>1. buffer' # "null" /\ pc' \in {"test", "free_old"}
    BY <1>3, AllocAssumption DEF MapBuffer
  <2> QED
    BY <2>1 DEF ContractInv
<1>4. CASE TriesUsedUp
  <2>1. tries > 0
    BY <1>4 DEF TriesUsedUp, SearchInv, SearchType, MapInv
  <2> QED
    BY <1>4, <2>1 DEF TriesUsedUp, ContractInv
<1>5. CASE TestPage
  <2>1. buffer' = buffer /\ buffer # "null" /\ pc' \in {"test", "map", "free_old"}
    BY <1>5 DEF TestPage, Reject, ContractInv
  <2> QED
    BY <2>1 DEF ContractInv
<1>6. CASE FreeOld
  BY <1>6 DEF FreeOld, ContractInv
<1>7. CASE OldFreed
  BY <1>7 DEF OldFreed, ContractInv
<1>8. CASE Decide
  BY <1>8 DEF Decide, Return, ContractInv
<1>9. CASE Continue
  BY <1>9 DEF Continue, ContractInv
<1>10. CASE Finalize
  BY <1>10 DEF Finalize, ContractInv
<1>11. CASE OtherTakes \/ OtherReturns
  BY <1>11, StateKept DEF OtherTakes, OtherReturns, ContractInv
<1>12. CASE UNCHANGED vars
  BY <1>12, StateKept DEF vars, ContractInv
<1> QED
  BY <1>1, <1>2, <1>3, <1>4, <1>5, <1>6, <1>7, <1>8, <1>9, <1>10, <1>11,
     <1>12 DEF Next, Program, Alloc, Done

(* Whatever alloc_aligned hands back is one of the outcomes that the model *)
(* of main, and every theorem about it, assumes: *buffer is untouched, with*)
(* an error, or it is not NULL.                                            *)
THEOREM ContractIsKept == Spec => []KeepsContract
<1>1. Init => ContractInv
  BY DEF Init, ContractInv
<1>2. ContractInv => KeepsContract
  <2> SUFFICES ASSUME ContractInv, pc = "returned"
               PROVE  [ok |-> err = "none", buffer |-> State]
                        \in AllocReturn(entry)
    BY DEF KeepsContract, Returned
  <2>1. CASE err # "none" /\ State = entry
    <3>1. [ok |-> err = "none", buffer |-> State] = [ok |-> FALSE, buffer |-> entry]
      BY <2>1
    <3> QED
      BY <3>1 DEF AllocReturn
  <2>2. CASE buffer # "null"
    <3>1. State # "null"
      BY <2>2 DEF State
    <3>2. State \in BufferState \ {"null"} /\ (err = "none") \in BOOLEAN
      BY <3>1, StateType
    <3> QED
      BY <3>2 DEF AllocReturn
  <2> QED
    BY <2>1, <2>2 DEF ContractInv
<1> QED
  BY <1>1, <1>2, ContractStep, TypeInvariant, PTL DEF Spec

-----------------------------------------------------------------------------
(* Huge pages left behind                                                  *)

(* The rejected buffers after the first n.                                 *)
Rejected(n) == {old[k] : k \in n + 1 .. tries}

(* All that is mapped is the buffer in hand and the rejected buffers that  *)
(* were not freed yet.                                                     *)
LeakInv ==
  /\ pc \in {"malloc", "map", "test"} => i = 0
  /\ evals = 1 /\ ~stuck =>
       /\ pc \in {"pool", "malloc"} => mapped = {}
       /\ pc = "map" => mapped \subseteq Rejected(i)
       /\ pc \in {"test", "free_old"} => mapped \subseteq Rejected(i) \cup {buffer}
       /\ pc \in {"final", "returned"} => mapped \subseteq {buffer}
       /\ pc = "returned" /\ err # "none" => mapped = {}

LEMMA LeakTest ==
  ASSUME SearchInv, LeakInv, TestPage
  PROVE  LeakInv'
<1>1. /\ pc = "test" /\ i = 0 /\ UNCHANGED <<i, evals, stuck, buffer>>
      /\ pc' \in {"test", "free_old", "map"} /\ mapped' = mapped
      /\ \/ /\ pc' # "map" /\ UNCHANGED <<tries, old>>
         \/ Reject
  BY DEF TestPage, Reject, LeakInv
<1>2. CASE pc' # "map" /\ UNCHANGED <<tries, old>>
  BY <1>1, <1>2 DEF LeakInv, Rejected
<1>3. CASE Reject
  <2>1. old' = Append(old, buffer) /\ tries' = tries + 1 /\ pc' = "map"
    BY <1>3 DEF Reject
  <2>2. old \in Seq(Regions) /\ Len(old) = tries /\ tries \in Nat
          /\ buffer \in Regions
    BY <1>1 DEF SearchInv, SearchType, TestInv, InHand
  <2>3. /\ \A k \in 1 .. tries : old'[k] = old[k]
        /\ old'[tries + 1] = buffer
    BY <2>1, <2>2
  <2>4. Rejected(0) \cup {buffer} \subseteq Rejected(0)'
    BY <2>1, <2>2, <2>3 DEF Rejected
  <2> QED
    BY <1>1, <2>1, <2>4 DEF LeakInv
<1> QED
  BY <1>1, <1>2, <1>3

LEMMA LeakFree ==
  ASSUME SearchInv, LeakInv, FreeOld
  PROVE  LeakInv'
<1>1. PICK ok \in Outcome("munmap") : FreeAligned(old[i + 1], ok)
  BY DEF FreeOld
<1>2. /\ pc = "free_old" /\ pc' = "free_old" /\ i' = i + 1
      /\ UNCHANGED <<evals, buffer, old, tries>>
  BY DEF FreeOld
<1>3. stuck' = (stuck \/ ~ok) /\ (ok => mapped' = mapped \ {old[i + 1]})
  BY <1>1 DEF FreeAligned
<1>4. Rejected(i) \subseteq Rejected(i)' \cup {old[i + 1]}
  <2>1. i \in Nat /\ tries \in Nat
    BY DEF SearchInv, SearchType
  <2>2. \A k \in i + 1 .. tries : k = i + 1 \/ k \in i + 2 .. tries
    BY <2>1
  <2> QED
    BY <1>2, <2>1, <2>2 DEF Rejected
<1> QED
  BY <1>2, <1>3, <1>4 DEF LeakInv

LEMMA LeakDecide ==
  ASSUME SearchInv, RestType, LeakInv, Decide
  PROVE  LeakInv'
<1>1. pc = "final" /\ pc' = "returned" /\ UNCHANGED <<evals, buffer>>
  BY DEF Decide, Return
<1>2. CASE /\ UNCHANGED <<mapped, stuck>>
           /\ err' = "none" \/ buffer = "map_failed"
  <2>1. "map_failed" \notin mapped
    BY AllocAssumption DEF SearchInv, SearchType
  <2> QED
    BY <1>1, <1>2, <2>1 DEF LeakInv
<1>3. CASE \E ok \in Outcome("munmap") : FreeAligned(buffer, ok)
  <2>1. PICK ok \in Outcome("munmap") : FreeAligned(buffer, ok)
    BY <1>3
  <2>2. stuck' = (stuck \/ ~ok) /\ (ok => mapped' = mapped \ {buffer})
    BY <2>1 DEF FreeAligned
  <2> QED
    BY <1>1, <2>2 DEF LeakInv
<1> QED
  BY <1>2, <1>3 DEF Decide, Return

LEMMA LeakStep == SearchInv /\ RestType /\ LeakInv /\ [Next]_vars => LeakInv'
<1> SUFFICES ASSUME SearchInv, RestType, LeakInv, [Next]_vars PROVE LeakInv'
  OBVIOUS
<1>0. tries \in Nat
  BY DEF SearchInv, SearchType
<1>1. CASE ReadPool
  <2>1. /\ pc = "pool" /\ pc' \in {"malloc", "returned"} /\ i' = 0
        /\ UNCHANGED <<evals, mapped, stuck>>
    BY <1>1 DEF ReadPool, Start, Return
  <2> QED
    BY <2>1 DEF LeakInv
<1>2. CASE AllocOldBuffers
  <2>1. /\ pc = "malloc" /\ pc' \in {"map", "returned"}
        /\ UNCHANGED <<evals, mapped, stuck, i>>
    BY <1>2 DEF AllocOldBuffers, Return
  <2> QED
    BY <2>1 DEF LeakInv
<1>3. CASE MapBuffer
  <2>1. /\ pc = "map" /\ UNCHANGED <<evals, stuck, i, old, tries>>
        /\ \/ pc' = "test" /\ mapped' = mapped \cup {buffer'}
           \/ pc' = "free_old" /\ mapped' = mapped
    BY <1>3 DEF MapBuffer
  <2> QED
    BY <2>1 DEF LeakInv, Rejected
<1>4. CASE TriesUsedUp
  BY <1>4 DEF TriesUsedUp, LeakInv, Rejected
<1>5. CASE TestPage
  BY <1>5, LeakTest
<1>6. CASE FreeOld
  BY <1>6, LeakFree
<1>7. CASE OldFreed
  <2>1. /\ pc = "free_old" /\ pc' = "final" /\ i = tries
        /\ UNCHANGED <<evals, stuck, mapped, buffer>>
    BY <1>7 DEF OldFreed
  <2>2. Rejected(i) = {}
    BY <1>0, <2>1 DEF Rejected
  <2> QED
    BY <2>1, <2>2 DEF LeakInv
<1>8. CASE Decide
  BY <1>8, LeakDecide
<1>9. CASE Continue
  <2>1. pc' = "finalize" \/ (pc' = "pool" /\ evals' = evals + 1)
    BY <1>9 DEF Continue
  <2>2. evals + 1 # 1
    BY DEF RestType
  <2> QED
    BY <2>1, <2>2 DEF LeakInv
<1>10. CASE Finalize
  BY <1>10 DEF Finalize, LeakInv
<1>11. CASE OtherTakes \/ OtherReturns
  BY <1>11 DEF OtherTakes, OtherReturns, LeakInv, Rejected
<1>12. CASE UNCHANGED vars
  BY <1>12 DEF vars, LeakInv, Rejected
<1> QED
  BY <1>1, <1>2, <1>3, <1>4, <1>5, <1>6, <1>7, <1>8, <1>9, <1>10, <1>11,
     <1>12 DEF Next, Program, Alloc, Done

(* As long as munmap works, a first call that fails leaves nothing mapped, *)
(* and one that succeeds nothing but the buffer, however many buffers were *)
(* rejected.                                                               *)
THEOREM NothingLeaks == Spec => []NoHugePageLeak
<1>1. Init => LeakInv
  BY DEF Init, LeakInv
<1>2. LeakInv => NoHugePageLeak
  BY DEF LeakInv, NoHugePageLeak, Returned
<1> QED
  BY <1>1, <1>2, LeakStep, TypeInvariant, PTL DEF Spec

-----------------------------------------------------------------------------
(* The bytes behind the numbers                                            *)

(* Inside of a huge page physical addresses are as far apart as virtual    *)
(* ones, as long as its addresses fit into the bit-field.                  *)
LEMMA HugePageIsLinear ==
  ASSUME NEW pagemap, NEW v \in Nat, NEW f \in Nat, NEW n \in Nat \ {0},
         IsHugePage(pagemap, v, f, n), (f + 1) * n * PageSize <= FieldLimit,
         NEW o \in 0 .. (n * PageSize) - 1
  PROVE  PhysicalAddress(pagemap, v * PageSize + o) = f * n * PageSize + o
<1> DEFINE s == PageSize
           p == o \div s
           r == o % s
           a == v * s + o
<1>1. s \in Nat \ {0} /\ FieldLimit \in Nat \ {0} /\ 2 ^ PageShift[s] = s
  BY PageMapAssumption
<1>2. n * s \in Nat /\ o \in Nat /\ o < n * s
  BY <1>1
<1>3. p \in Nat /\ r \in 0 .. s - 1 /\ o = s * p + r
  BY <1>1, <1>2, Division
<1>4. p \in 0 .. n - 1
  <2>1. SUFFICES ASSUME p >= n PROVE FALSE
    BY <1>3
  <2> DEFINE k == p - n
  <2>2. k \in Nat /\ p = n + k
    BY <1>3, <2>1
  <2> HIDE DEF k, p, r, s
  <2>3. s * p = n * s + s * k /\ s * k \in Nat
    BY <1>1, <2>2
  <2> QED
    BY <1>1, <1>2, <1>3, <2>3
<1>5. a = s * (v + p) + r /\ v + p \in Nat
  <2> HIDE DEF p, r, s
  <2> QED
    BY <1>1, <1>3
<1>6. a \div s = v + p /\ a % s = r
  <2> HIDE DEF p, r, s, a
  <2> QED
    BY <1>1, <1>3, <1>5, Remainder
<1>7. pagemap[v + p] = f * n + p
  BY <1>4 DEF IsHugePage
<1> DEFINE x == f * n + p
<1> HIDE DEF p, r, a
<1>8. x \in 0 .. FieldLimit - 1 /\ x * s \in 0 .. FieldLimit - 1
  <2> DEFINE all == (f + 1) * n
  <2>1. x \in Nat /\ all \in Nat /\ x < all
    BY <1>4
  <2> HIDE DEF x, all, s
  <2>2. all - x \in Nat \ {0} /\ s - 1 \in Nat
    BY <1>1, <2>1
  <2>3. /\ all * s = x * s + (all - x) * s
        /\ x * s = x + x * (s - 1)
        /\ (all - x) * s \in Nat \ {0} /\ x * s \in Nat /\ x * (s - 1) \in Nat
    BY <1>1, <2>1, <2>2
  <2>4. all * s <= FieldLimit
    BY DEF all, s
  <2> QED
    BY <1>1, <2>1, <2>3, <2>4
<1>9. PageFrameNumber(x) = x /\ (x * s) % FieldLimit = x * s
  <2> DEFINE y == x * s
  <2> HIDE DEF x, s, y
  <2>1. y \in 0 .. FieldLimit - 1
    BY <1>8 DEF y
  <2>2. (FieldLimit * 0 + x) % FieldLimit = x
    BY <1>1, <1>8, Remainder
  <2>3. (FieldLimit * 0 + y) % FieldLimit = y
    BY <1>1, <2>1, Remainder
  <2>4. FieldLimit * 0 + x = x /\ FieldLimit * 0 + y = y
    BY <1>1, <1>8, <2>1
  <2> QED
    BY <2>2, <2>3, <2>4 DEF PageFrameNumber, y
<1>10. PhysicalAddress(pagemap, a) = x * s + r
  <2>1. pagemap[Entry(a)] = x
    BY <1>6, <1>7 DEF Entry
  <2> QED
    BY <1>1, <1>6, <1>9, <2>1 DEF PhysicalAddress
<1>11. x * s + r = f * n * s + o
  BY <1>1, <1>2, <1>3
<1> QED
  BY <1>10, <1>11 DEF a

(* A number of bytes that is a whole number of lines, seen in lines.       *)
LEMMA LinesOfBytes ==
  ASSUME NEW x \in Nat, NEW lineSize \in Nat \ {0}, NEW lines \in Nat \ {0}
  PROVE  LineOf(x * lineSize, lineSize, lines * lineSize) = x % lines
<1> DEFINE d == x \div lines
           m == x % lines
           t == lines * lineSize
<1>1. d \in Nat /\ m \in 0 .. lines - 1 /\ x = lines * d + m
  BY Division
<1> HIDE DEF d, m
<1>2. x * lineSize = t * d + m * lineSize
  BY <1>1
<1>3. t \in Nat \ {0} /\ m * lineSize \in 0 .. t - 1
  <2>1. lines - m \in Nat \ {0}
    BY <1>1
  <2>2. t = m * lineSize + (lines - m) * lineSize
    BY <1>1
  <2>3. m * lineSize \in Nat /\ (lines - m) * lineSize \in Nat \ {0}
    BY <1>1, <2>1
  <2> QED
    BY <2>2, <2>3
<1> HIDE DEF t
<1>4. (x * lineSize) % t = m * lineSize
  <2> DEFINE y == m * lineSize
  <2>1. y \in 0 .. t - 1
    BY <1>3
  <2> HIDE DEF y
  <2>2. (t * d + y) % t = y
    BY <1>1, <1>3, <2>1, Remainder
  <2> QED
    BY <1>2, <2>2 DEF y
<1>5. (m * lineSize) \div lineSize = m
  <2>1. (lineSize * m + 0) \div lineSize = m
    BY <1>1, Remainder
  <2>2. lineSize * m + 0 = m * lineSize
    BY <1>1
  <2> QED
    BY <2>1, <2>2
<1> QED
  BY <1>4, <1>5 DEF LineOf, t, m

(* test_alignment asks for the physical address of the first byte of a huge*)
(* page and computes a line number from it: LineId of the page's frame.    *)
(* For any other line of the page the same bytes give CacheLine's number.  *)
THEOREM BytesAreLines ==
  ASSUME cache \in Caches,
         NEW pagemap, NEW v \in Nat, NEW f \in Nat, NEW n \in Nat \ {0},
         NEW lineSize \in Nat \ {0},
         n * PageSize = cache.pageLines * lineSize,
         IsHugePage(pagemap, v, f, n), (f + 1) * n * PageSize <= FieldLimit,
         NEW l \in 0 .. cache.pageLines - 1
  PROVE  LET line == LineOf(
                       PhysicalAddress(pagemap, v * PageSize + l * lineSize),
                       lineSize, cache.lines * lineSize)
         IN  /\ line = (f * cache.pageLines + l) % cache.lines
             /\ l = 0 => line = LineId(f)
<1> DEFINE k == cache.pageLines
           t == cache.lines
           address == PhysicalAddress(pagemap, v * PageSize + l * lineSize)
<1>1. k \in Nat \ {0} /\ t \in Nat \ {0} /\ PageSize \in Nat \ {0}
  BY CacheType, PageMapAssumption
<1>2. n * PageSize = k * lineSize /\ l \in 0 .. k - 1
  OBVIOUS
<1> HIDE DEF k, t
<1>3. l * lineSize \in 0 .. (n * PageSize) - 1
  <2>1. k - l \in Nat \ {0}
    BY <1>1, <1>2
  <2>2. k * lineSize = l * lineSize + (k - l) * lineSize
    BY <1>1, <1>2
  <2>3. l * lineSize \in Nat /\ (k - l) * lineSize \in Nat \ {0}
    BY <1>1, <1>2, <2>1
  <2> QED
    BY <1>2, <2>2, <2>3
<1>4. address = f * n * PageSize + l * lineSize
  BY <1>3, HugePageIsLinear
<1>5. f * n * PageSize + l * lineSize = (f * k + l) * lineSize
  <2>1. f * n * PageSize = f * (n * PageSize)
    BY <1>1
  <2>2. f * (k * lineSize) + l * lineSize = (f * k + l) * lineSize
    BY <1>1, <1>2
  <2> QED
    BY <1>2, <2>1, <2>2
<1> HIDE DEF address
<1>6. LineOf(address, lineSize, t * lineSize) = (f * k + l) % t
  <2> DEFINE x == f * k + l
  <2>1. x \in Nat
    BY <1>1, <1>2
  <2> HIDE DEF x
  <2>2. LineOf(x * lineSize, lineSize, t * lineSize) = x % t
    BY <1>1, <2>1, LinesOfBytes
  <2> QED
    BY <1>4, <1>5, <2>2 DEF x
<1>7. l = 0 => (f * k + l) % t = LineId(f)
  <2> SUFFICES ASSUME l = 0 PROVE (f * k + l) % t = LineId(f)
    OBVIOUS
  <2>1. f * k + l = f * k
    BY <1>1
  <2> QED
    BY <2>1 DEF LineId, k, t
<1> QED
  BY <1>6, <1>7 DEF address, k, t
=============================================================================
