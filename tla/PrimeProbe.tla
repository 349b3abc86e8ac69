----------------------------- MODULE PrimeProbe -----------------------------
(***************************************************************************)
(* prime() and probe() of src/src/profile.c against a set-associative      *)
(* cache: one step per memory access of the two assembler loops, with      *)
(* accesses of other code to the same cache (noise) between any two of     *)
(* them.  The elapsed cycles are abstracted to hit or miss.                *)
(*                                                                         *)
(* The cache is external: sets of Ways lines, replaced least recently used *)
(* first.  The buffer is the one alloc_aligned promises, its line number l *)
(* falls into cache set l % Sets.                                          *)
(***************************************************************************)
EXTENDS Integers, Sequences, FiniteSets, SequencesExt, FiniteSetsExt

CONSTANTS
  Sets,      (* set_count                                                  *)
  Ways,      (* way_count, the associativity                               *)
  Foreign    (* lines of other code that compete for a set                 *)

ASSUME PrimeProbeAssumption ==
  /\ Sets \in Nat \ {0} /\ Ways \in Nat \ {0}
  /\ Foreign \cap (0 .. Sets * Ways - 1) = {}

SetIds == 0 .. Sets - 1
WayIds == 0 .. Ways - 1
Lines  == 0 .. Sets * Ways - 1

VARIABLES
  pc,      (* "prime", "yield", "probe" or "output"                        *)
  set,     (* loop variables of the assembler code                         *)
  way,
  index,   (* result_index                                                 *)
  result,  (* result[0 .. Sets * Ways - 1]: "hit", "miss" or "unset"       *)
  content, (* the lines of each cache set, most recently used first        *)
  noise,   (* history: the foreign lines accessed in a set from the begin  *)
           (* of its prime to the end of its probe                         *)
  calm     (* history: all those accesses fell between the two             *)

loopVars == <<pc, set, way, index>>
histVars == <<noise, calm>>

vars == <<loopVars, result, content, histVars>>

TypeOK ==
  /\ pc \in {"prime", "yield", "probe", "output"}
  /\ set \in SetIds /\ way \in WayIds /\ index \in 0 .. Sets * Ways
  /\ result \in [Lines -> {"hit", "miss", "unset"}]
  /\ DOMAIN content = SetIds
  /\ \A s \in SetIds :
       Len(content[s]) <= Ways /\ IsInjective(content[s])
  /\ noise \in [SetIds -> SUBSET Foreign]
  /\ calm \in [SetIds -> BOOLEAN]

-----------------------------------------------------------------------------
(* The cache                                                               *)

Cached(s, l) == l \in ToSet(content[s])

(* The set after an access to line l: l is the most recent one, the lines  *)
(* that were before it have moved down by one.  If it was not there, all   *)
(* lines have, and of a full set the last one has fallen out.              *)
Touch(s, l) ==
  LET old  == content[s]
      size == IF Cached(s, l) \/ Len(old) = Ways THEN Len(old) ELSE Len(old) + 1
  IN  [j \in 1 .. size |->
         IF j = 1 THEN l
         ELSE IF \E k \in 1 .. j - 1 : old[k] = l THEN old[j] ELSE old[j - 1]]

(* Mutant of Offset: the indices of the matrix are swapped.                *)
OffsetSwapped(w, s) == s * Ways + w

(* buffer_offset / line_size.                                              *)
Offset(w, s) == w * Sets + s

CacheSet(l) == l % Sets

Access(l) == content' = [content EXCEPT ![CacheSet(l)] = Touch(CacheSet(l), l)]

-----------------------------------------------------------------------------

Init ==
  /\ pc = "prime" /\ set = 0 /\ way = Ways - 1 /\ index = 0
  /\ result = [l \in Lines |-> "unset"]
  /\ content = [s \in SetIds |-> <<>>]
  /\ noise = [s \in SetIds |-> {}]
  /\ calm = [s \in SetIds |-> TRUE]

(* Mutant of PrimeLine: the ways are visited in the order of probe.        *)
PrimeLineAscending ==
  /\ pc = "prime"
  /\ Access(Offset(Ways - 1 - way, set))
  /\ IF way - 1 >= 0
     THEN way' = way - 1 /\ UNCHANGED <<pc, set>>
     ELSE IF set + 1 < Sets
          THEN way' = Ways - 1 /\ set' = set + 1 /\ UNCHANGED pc
          ELSE pc' = "yield" /\ UNCHANGED <<set, way>>
  /\ UNCHANGED <<index, result, histVars>>

(* Mutant of PrimeLine: one way too many.                                  *)
PrimeLineBelowZero ==
  /\ pc = "prime"
  /\ Access(Offset(way, set))
  /\ IF way >= 0
     THEN way' = way - 1 /\ UNCHANGED <<pc, set>>
     ELSE IF set + 1 < Sets
          THEN way' = Ways - 1 /\ set' = set + 1 /\ UNCHANGED pc
          ELSE pc' = "yield" /\ UNCHANGED <<set, way>>
  /\ UNCHANGED <<index, result, histVars>>

(* The next access of prime: ways from the last to the first of one set,   *)
(* then the next set.                                                      *)
PrimeLine ==
  /\ pc = "prime"
  /\ Access(Offset(way, set))
  /\ IF way - 1 >= 0
     THEN way' = way - 1 /\ UNCHANGED <<pc, set>>
     ELSE IF set + 1 < Sets
          THEN way' = Ways - 1 /\ set' = set + 1 /\ UNCHANGED pc
          ELSE pc' = "yield" /\ UNCHANGED <<set, way>>
  /\ UNCHANGED <<index, result, histVars>>

(* sched_yield, then the registers of probe are set up.                    *)
Yield ==
  /\ pc = "yield"
  /\ pc' = "probe" /\ set' = 0 /\ way' = 0 /\ index' = 0
  /\ UNCHANGED <<result, content, histVars>>

(* Mutant of ProbeLine: index is not advanced at the end of a row.         *)
ProbeLineSameIndex ==
  /\ pc = "probe"
  /\ LET l == Offset(way, set) IN
       /\ Access(l)
       /\ result' = [result EXCEPT ![index] =
                       IF Cached(CacheSet(l), l) THEN "hit" ELSE "miss"]
  /\ IF way + 1 < Ways
     THEN way' = way + 1 /\ index' = index + 1 /\ UNCHANGED <<pc, set>>
     ELSE IF set + 1 < Sets
          THEN way' = 0 /\ set' = set + 1 /\ UNCHANGED <<pc, index>>
          ELSE pc' = "output" /\ UNCHANGED <<set, way, index>>
  /\ UNCHANGED histVars

(* The next timed access of probe: ways from the first to the last.        *)
ProbeLine ==
  /\ pc = "probe"
  /\ LET l == Offset(way, set) IN
       /\ Access(l)
       /\ result' = [result EXCEPT ![index] =
                       IF Cached(CacheSet(l), l) THEN "hit" ELSE "miss"]
  /\ index' = index + 1
  /\ IF way + 1 < Ways
     THEN way' = way + 1 /\ UNCHANGED <<pc, set>>
     ELSE IF set + 1 < Sets
          THEN way' = 0 /\ set' = set + 1 /\ UNCHANGED pc
          ELSE pc' = "output" /\ UNCHANGED <<set, way>>
  /\ UNCHANGED histVars

(* outputw_mat_ui32 has written the matrix; the loop of profile goes on.   *)
(* result keeps its values until probe overwrites them.                    *)
NextRound ==
  /\ pc = "output"
  /\ pc' = "prime" /\ set' = 0 /\ way' = Ways - 1
  /\ noise' = [s \in SetIds |-> {}]
  /\ calm' = [s \in SetIds |-> TRUE]
  /\ UNCHANGED <<index, result, content>>

(* What probe and prime have done to cache set s so far.                   *)
Started(s) == pc # "prime" \/ set > s \/ (set = s /\ way < Ways - 1)
Primed(s)  == pc # "prime" \/ set > s
Probing(s) == pc = "output" \/ (pc = "probe" /\ (set > s \/ (set = s /\ way > 0)))
Probed(s)  == pc = "output" \/ (pc = "probe" /\ set > s)

(* Other code loads a line into set s.                                     *)
ForeignAccess(s, f) ==
  /\ content' = [content EXCEPT ![s] = Touch(s, f)]
  /\ IF Started(s) /\ ~Probed(s)
     THEN /\ noise' = [noise EXCEPT ![s] = @ \cup {f}]
          /\ calm' = [calm EXCEPT ![s] = @ /\ Primed(s) /\ ~Probing(s)]
     ELSE UNCHANGED histVars
  /\ UNCHANGED <<loopVars, result>>

Measurement == PrimeLine \/ Yield \/ ProbeLine \/ NextRound

Next ==
  \/ Measurement
  \/ \E s \in SetIds, f \in Foreign : ForeignAccess(s, f)

Spec == Init /\ [][Next]_vars

-----------------------------------------------------------------------------
(* Properties                                                              *)

(* The ways of set s that row s of the matrix shows as misses.             *)
Misses(s) == {w \in WayIds : result[s * Ways + w] = "miss"}

(* No access of prime or probe leaves the buffer, no result is stored      *)
(* outside of its array, and row s, column w of the matrix is about way w  *)
(* of set s.                                                               *)
InBounds ==
  /\ pc \in {"prime", "probe"} => Offset(way, set) \in Lines
  /\ pc = "probe" => index \in Lines /\ index = set * Ways + way

(* When other code used a set only between its prime and its probe, the    *)
(* row shows exactly how many lines it used there, at the highest ways.    *)
MissesCountNoise ==
  \A s \in SetIds :
    Probed(s) /\ calm[s] =>
      Misses(s) = (Ways - Min({Cardinality(noise[s]), Ways})) .. (Ways - 1)

(* Whenever other code interferes, a row never shows more misses than lines*)
(* were used in its own set, and what it shows is again the highest ways.  *)
(* A set nobody else touched shows no miss.                                *)
MissesBoundedByNoise ==
  \A s \in SetIds :
    Probed(s) =>
      LET m == Cardinality(Misses(s)) IN
        m <= Cardinality(noise[s]) /\ Misses(s) = (Ways - m) .. (Ways - 1)

(* Probing a way never drives out a line of the buffer that has not been   *)
(* probed yet: this is why probe visits the ways in the opposite order.    *)
ProbeSparesTheUnprobed ==
  [][ProbeLine =>
       \A w \in way + 1 .. Ways - 1 :
         LET l == Offset(w, set)
         IN  Cached(CacheSet(l), l) => l \in ToSet(content'[CacheSet(l)])]_vars
=============================================================================
