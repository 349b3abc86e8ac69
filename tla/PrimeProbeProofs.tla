-------------------------- MODULE PrimeProbeProofs --------------------------
(***************************************************************************)
(* Theorems about PrimeProbe, for caches of every geometry.                *)
(***************************************************************************)
EXTENDS PrimeProbe, TLAPS, SequenceTheorems, FiniteSetTheorems

(* An index of a matrix with m rows and n columns is below m * n.          *)
LEMMA MatrixIndex ==
  ASSUME NEW m \in Nat, NEW n \in Nat, NEW a \in 0 .. m - 1,
         NEW b \in 0 .. n - 1
  PROVE  a * n + b \in 0 .. m * n - 1
<1>1. a * n \in Nat /\ m * n \in Nat /\ (m - 1 - a) * n \in Nat
  <2>1. m - 1 - a \in Nat
    OBVIOUS
  <2> QED
    BY <2>1
<1>2. m * n = a * n + (m - 1 - a) * n + n
  OBVIOUS
<1> QED
  BY <1>1, <1>2

LEMMA IndexInResult ==
  ASSUME NEW s \in SetIds, NEW w \in WayIds
  PROVE  s * Ways + w \in Lines
BY MatrixIndex, PrimeProbeAssumption DEF SetIds, WayIds, Lines

LEMMA OffsetInBuffer ==
  ASSUME NEW w \in WayIds, NEW s \in SetIds
  PROVE  Offset(w, s) \in Lines
<1>1. Ways * Sets = Sets * Ways
  BY PrimeProbeAssumption
<1> QED
  BY <1>1, MatrixIndex, PrimeProbeAssumption
     DEF Offset, SetIds, WayIds, Lines

(* Two ways and sets never share a line of the buffer.                     *)
LEMMA OffsetInjective ==
  ASSUME NEW v \in WayIds, NEW w \in WayIds, NEW s \in SetIds, NEW t \in SetIds,
         Offset(v, s) = Offset(w, t)
  PROVE  v = w /\ s = t
<1> USE PrimeProbeAssumption DEF SetIds, WayIds, Offset
<1>1. \A x, y \in WayIds : x < y => x * Sets + Sets <= y * Sets
  <2> TAKE x, y \in WayIds
  <2> HAVE x < y
  <2>1. (y - x - 1) * Sets \in Nat
    <3>1. y - x - 1 \in Nat
      OBVIOUS
    <3> QED
      BY <3>1
  <2>2. y * Sets = x * Sets + Sets + (y - x - 1) * Sets
    OBVIOUS
  <2>3. x * Sets \in Nat /\ y * Sets \in Nat
    OBVIOUS
  <2> QED
    BY <2>1, <2>2, <2>3
<1>2. v * Sets \in Nat /\ w * Sets \in Nat
  OBVIOUS
<1>3. ~(v < w) /\ ~(w < v)
  BY <1>1, <1>2
<1> QED
  BY <1>2, <1>3

(* The counters of both loops stay in range, and result_index counts the   *)
(* probed lines.                                                           *)
LoopInv ==
  /\ set \in SetIds /\ way \in WayIds
  /\ pc = "probe" => index = set * Ways + way

LEMMA LoopInit == Init => LoopInv
BY PrimeProbeAssumption DEF Init, LoopInv, SetIds, WayIds

LEMMA LoopStep == LoopInv /\ [Next]_vars => LoopInv'
<1> SUFFICES ASSUME LoopInv, [Next]_vars PROVE LoopInv'
  OBVIOUS
<1> USE PrimeProbeAssumption DEF LoopInv, SetIds, WayIds, loopVars
<1>1. CASE PrimeLine
  BY <1>1 DEF PrimeLine
<1>2. CASE Yield
  BY <1>2 DEF Yield
<1>3. CASE ProbeLine
  <2>1. /\ index = set * Ways + way
        /\ index' = index + 1
        /\ (set + 1) * Ways = set * Ways + Ways
    BY <1>3 DEF ProbeLine
  <2>2. set * Ways \in Nat
    OBVIOUS
  <2>3. CASE way + 1 < Ways
    BY <1>3, <2>1, <2>2, <2>3 DEF ProbeLine
  <2>4. CASE way + 1 >= Ways /\ set + 1 < Sets
    <3>1. way + 1 = Ways
      BY <2>4
    <3>2. way' = 0 /\ set' = set + 1 /\ pc' = pc
      BY <1>3, <2>4 DEF ProbeLine
    <3>3. index' = (set + 1) * Ways + 0
      BY <2>1, <2>2, <3>1
    <3> QED
      BY <2>4, <3>2, <3>3
  <2>5. CASE way + 1 >= Ways /\ set + 1 >= Sets
    BY <1>3, <2>5 DEF ProbeLine
  <2> QED
    BY <2>3, <2>4, <2>5
<1>4. CASE NextRound
  BY <1>4 DEF NextRound
<1>5. CASE \E s \in SetIds, f \in Foreign : ForeignAccess(s, f)
  BY <1>5 DEF ForeignAccess
<1>6. CASE UNCHANGED vars
  BY <1>6 DEF vars
<1> QED
  BY <1>1, <1>2, <1>3, <1>4, <1>5, <1>6 DEF Next, Measurement

(* For every number of sets and ways, no access of prime and probe leaves  *)
(* the buffer, no result leaves its array, and the matrix is laid out with *)
(* one row per set.                                                        *)
THEOREM AccessesInBounds == Spec => []InBounds
<1>1. LoopInv => InBounds
  BY IndexInResult, OffsetInBuffer DEF LoopInv, InBounds
<1> QED
  BY <1>1, LoopInit, LoopStep, PTL DEF Spec

-----------------------------------------------------------------------------
(* One access to one cache set                                             *)

Universe == Lines \cup Foreign

(* Line x is somewhere in a cache set with content c.                      *)
Holds(c, x) == \E k \in 1 .. Len(c) : c[k] = x

(* While y is in it, so is x, and was used after y.                        *)
Newer(c, x, y) ==
  \A k \in 1 .. Len(c) : c[k] = y => \E j \in 1 .. k - 1 : c[j] = x

(* All lines used after y, or all of the set if y is gone, are in S.       *)
Above(c, y, S) ==
  \A k \in 1 .. Len(c) : (\A j \in 1 .. k : c[j] # y) => c[k] \in S

Distinct(c) == \A j, k \in 1 .. Len(c) : c[j] = c[k] => j = k

(* What an access to line l makes of content c.                            *)
Accessed(c, t, l) ==
  /\ Len(c) \in Nat /\ Len(c) <= Ways /\ Distinct(c)
  /\ Len(t) = IF Holds(c, l) \/ Len(c) = Ways THEN Len(c) ELSE Len(c) + 1
  /\ Len(t) \in 1 .. Ways
  /\ t[1] = l
  /\ \A j \in 2 .. Len(t) :
       t[j] = IF \E k \in 1 .. j - 1 : c[k] = l THEN c[j] ELSE c[j - 1]

LEMMA TouchIsAccess ==
  ASSUME NEW s \in SetIds, NEW l \in Universe,
         content[s] \in Seq(Universe), Len(content[s]) <= Ways,
         Distinct(content[s])
  PROVE  /\ Touch(s, l) \in Seq(Universe)
         /\ Accessed(content[s], Touch(s, l), l)
<1> DEFINE c == content[s]
           n == IF Cached(s, l) \/ Len(c) = Ways THEN Len(c) ELSE Len(c) + 1
           at(j) == IF j = 1 THEN l
                    ELSE IF \E k \in 1 .. j - 1 : c[k] = l THEN c[j]
                    ELSE c[j - 1]
           t == [j \in 1 .. n |-> at(j)]
<1>0. /\ Len(c) \in Nat /\ Len(c) <= Ways /\ Ways \in Nat \ {0}
      /\ DOMAIN c = 1 .. Len(c) /\ \A j \in 1 .. Len(c) : c[j] \in Universe
  BY PrimeProbeAssumption, LenProperties, ElementOfSeq
<1>1. Cached(s, l) <=> Holds(c, l)
  BY <1>0 DEF Cached, ToSet, Holds
<1>2. n \in 1 .. Ways
  BY <1>0, <1>1 DEF Holds
<1>3. ASSUME NEW j \in 1 .. n PROVE at(j) \in Universe
  <2>1. CASE j = 1
    BY <2>1
  <2>2. CASE j # 1 /\ j \in 1 .. Len(c)
    <3>1. j - 1 \in 1 .. Len(c)
      BY <1>0, <2>2
    <3> QED
      BY <1>0, <2>2, <3>1
  <2>3. CASE j # 1 /\ j \notin 1 .. Len(c)
    <3>1. ~Cached(s, l) /\ j - 1 \in 1 .. Len(c) /\ j - 1 = Len(c)
      BY <1>0, <1>2, <2>3
    <3>2. ~(\E k \in 1 .. j - 1 : c[k] = l)
      BY <1>1, <3>1 DEF Holds
    <3> QED
      BY <1>0, <2>3, <3>1, <3>2
  <2> QED
    BY <2>1, <2>2, <2>3
<1> HIDE DEF n
<1>4. t \in [1 .. n -> Universe]
  BY <1>3
<1>5. t \in Seq(Universe)
  BY <1>2, <1>4, SeqDef
<1>6. Len(t) = n
  BY <1>2, <1>5, LenProperties
<1>7. \A j \in 1 .. n : t[j] = at(j)
  OBVIOUS
<1>8. Touch(s, l) = t
  BY DEF Touch, n
<1>9. t[1] = l
  BY <1>2, <1>7
<1>10. \A j \in 2 .. n :
         t[j] = IF \E k \in 1 .. j - 1 : c[k] = l THEN c[j] ELSE c[j - 1]
  <2> TAKE j \in 2 .. n
  <2>1. j \in 1 .. n /\ j # 1
    BY <1>2
  <2> QED
    BY <1>7, <2>1
<1>11. n = IF Holds(c, l) \/ Len(c) = Ways THEN Len(c) ELSE Len(c) + 1
  BY <1>1 DEF n
<1> HIDE DEF t, c, at
<1>12. Accessed(c, t, l)
  BY <1>0, <1>2, <1>6, <1>9, <1>10, <1>11 DEF Accessed, c
<1> QED
  BY <1>5, <1>8, <1>12 DEF c

(* Where a line is found after an access to another one, and where it was. *)
LEMMA AccessMoves ==
  ASSUME NEW c, NEW t, NEW l, Accessed(c, t, l)
  PROVE  /\ \A k \in 2 .. Len(t) :
              \/ /\ k \in 1 .. Len(c) /\ t[k] = c[k] /\ t[k] # l
                 /\ \E j \in 1 .. k - 1 : c[j] = l
              \/ /\ k - 1 \in 1 .. Len(c) /\ t[k] = c[k - 1] /\ t[k] # l
                 /\ \A j \in 1 .. k - 1 : c[j] # l
         /\ \A k \in 1 .. Len(c) :
              \/ c[k] = l
              \/ /\ k \in 2 .. Len(t) /\ t[k] = c[k]
                 /\ \E j \in 1 .. k - 1 : c[j] = l
              \/ /\ k + 1 \in 2 .. Len(t) /\ t[k + 1] = c[k]
                 /\ \A j \in 1 .. k : c[j] # l
              \/ k = Ways /\ ~Holds(c, l)
<1>0. /\ Len(c) \in Nat /\ Len(c) <= Ways /\ Ways \in Nat \ {0}
      /\ Len(t) \in 1 .. Ways /\ Distinct(c)
      /\ Len(t) = IF Holds(c, l) \/ Len(c) = Ways THEN Len(c) ELSE Len(c) + 1
      /\ \A j \in 2 .. Len(t) :
           t[j] = IF \E k \in 1 .. j - 1 : c[k] = l THEN c[j] ELSE c[j - 1]
  BY PrimeProbeAssumption DEF Accessed
<1>1. ASSUME NEW k \in 2 .. Len(t)
      PROVE  \/ /\ k \in 1 .. Len(c) /\ t[k] = c[k] /\ t[k] # l
                /\ \E j \in 1 .. k - 1 : c[j] = l
             \/ /\ k - 1 \in 1 .. Len(c) /\ t[k] = c[k - 1] /\ t[k] # l
                /\ \A j \in 1 .. k - 1 : c[j] # l
  <2>1. CASE \E j \in 1 .. k - 1 : c[j] = l
    <3>1. PICK j \in 1 .. k - 1 : c[j] = l
      BY <2>1
    <3>2. t[k] = c[k]
      BY <1>0, <2>1
    <3>3. k - 1 <= Len(c)
      BY <1>0
    <3>4. j \in 1 .. Len(c)
      BY <1>0, <3>3
    <3>5. Holds(c, l)
      BY <3>1, <3>4 DEF Holds
    <3>6. k \in 1 .. Len(c) /\ k # j
      BY <1>0, <3>5
    <3> QED
      BY <1>0, <2>1, <3>1, <3>2, <3>4, <3>6 DEF Distinct
  <2>2. CASE \A j \in 1 .. k - 1 : c[j] # l
    <3>1. k - 1 \in 1 .. Len(c) /\ k - 1 \in 1 .. k - 1
      BY <1>0
    <3> QED
      BY <1>0, <2>2, <3>1
  <2> QED
    BY <2>1, <2>2
<1>2. ASSUME NEW k \in 1 .. Len(c)
      PROVE  \/ c[k] = l
             \/ /\ k \in 2 .. Len(t) /\ t[k] = c[k]
                /\ \E j \in 1 .. k - 1 : c[j] = l
             \/ /\ k + 1 \in 2 .. Len(t) /\ t[k + 1] = c[k]
                /\ \A j \in 1 .. k : c[j] # l
             \/ k = Ways /\ ~Holds(c, l)
  <2>1. CASE \E j \in 1 .. k - 1 : c[j] = l
    <3>1. Holds(c, l) /\ k \in 2 .. Len(t)
      <4>1. PICK j \in 1 .. k - 1 : c[j] = l
        BY <2>1
      <4>2. j \in 1 .. Len(c) /\ k >= 2
        BY <1>0
      <4> QED
        BY <1>0, <4>1, <4>2 DEF Holds
    <3> QED
      BY <1>0, <2>1, <3>1
  <2>2. CASE c[k] # l /\ \A j \in 1 .. k - 1 : c[j] # l
    <3>1. \A j \in 1 .. k : c[j] # l
      BY <2>2
    <3>2. (k = Ways /\ ~Holds(c, l)) \/ k + 1 \in 2 .. Len(t)
      <4>1. CASE Holds(c, l)
        <5>1. PICK i \in 1 .. Len(c) : c[i] = l
          BY <4>1 DEF Holds
        <5>2. k < i
          BY <1>0, <3>1, <5>1
        <5> QED
          BY <1>0, <4>1, <5>2
      <4>2. CASE ~Holds(c, l)
        BY <1>0, <4>2
      <4> QED
        BY <4>1, <4>2
    <3>3. k + 1 \in 2 .. Len(t) => t[k + 1] = c[k]
      <4> SUFFICES ASSUME k + 1 \in 2 .. Len(t) PROVE t[k + 1] = c[k]
        OBVIOUS
      <4>1. (k + 1) - 1 = k
        BY <1>0
      <4>2. ~(\E j \in 1 .. (k + 1) - 1 : c[j] = l)
        BY <3>1, <4>1
      <4>3. t[k + 1] = c[(k + 1) - 1]
        BY <1>0, <4>2
      <4> QED
        BY <4>1, <4>3
    <3> QED
      BY <3>1, <3>2, <3>3
  <2> QED
    BY <2>1, <2>2
<1> QED
  BY <1>1, <1>2

(* An access leaves the line on top and drops at most the last one.        *)
LEMMA AccessedIsDistinct ==
  ASSUME NEW c, NEW t, NEW l, Accessed(c, t, l)
  PROVE  Distinct(t) /\ Holds(t, l)
<1>0. /\ Len(c) \in Nat /\ Len(t) \in 1 .. Ways /\ t[1] = l /\ Distinct(c)
      /\ Ways \in Nat
  BY PrimeProbeAssumption DEF Accessed
<1>1. \A k \in 2 .. Len(t) :
        \/ /\ k \in 1 .. Len(c) /\ t[k] = c[k] /\ t[k] # l
           /\ \E j \in 1 .. k - 1 : c[j] = l
        \/ /\ k - 1 \in 1 .. Len(c) /\ t[k] = c[k - 1] /\ t[k] # l
           /\ \A j \in 1 .. k - 1 : c[j] # l
  BY AccessMoves
<1>2. ASSUME NEW j \in 2 .. Len(t), NEW k \in 2 .. Len(t), t[j] = t[k], j < k
      PROVE  FALSE
  <2>1. PICK a \in {j - 1, j} : /\ a \in 1 .. Len(c) /\ t[j] = c[a]
                                /\ a = j => \E i \in 1 .. j - 1 : c[i] = l
    BY <1>1
  <2>2. PICK b \in {k - 1, k} : /\ b \in 1 .. Len(c) /\ t[k] = c[b]
                                /\ b = k - 1 => \A i \in 1 .. k - 1 : c[i] # l
    BY <1>1
  <2>3. a = b
    BY <1>0, <1>2, <2>1, <2>2 DEF Distinct
  <2>4. a = j /\ b = k - 1
    BY <1>0, <1>2, <2>1, <2>2, <2>3
  <2>5. PICK i \in 1 .. j - 1 : c[i] = l
    BY <2>1, <2>4
  <2>6. i \in 1 .. k - 1
    BY <1>0, <1>2
  <2> QED
    BY <2>2, <2>4, <2>5, <2>6
<1>3. \A k \in 2 .. Len(t) : t[k] # l
  BY <1>1
<1>4. Distinct(t)
  <2> SUFFICES ASSUME NEW j \in 1 .. Len(t), NEW k \in 1 .. Len(t),
                      t[j] = t[k], j < k
               PROVE  FALSE
    BY <1>0 DEF Distinct
  <2>1. k \in 2 .. Len(t)
    BY <1>0
  <2>2. j # 1
    BY <1>0, <1>3, <2>1
  <2>3. j \in 2 .. Len(t)
    BY <1>0, <2>2
  <2> QED
    BY <1>2, <2>1, <2>3
<1> QED
  BY <1>0, <1>4 DEF Holds

(* The line just used is the newest, and the order of the others is kept.  *)
LEMMA AccessKeepsOrder ==
  ASSUME NEW c, NEW t, NEW l, Accessed(c, t, l), NEW x, NEW y, y # l,
         x = l \/ Newer(c, x, y)
  PROVE  Newer(t, x, y)
<1> SUFFICES ASSUME NEW k \in 1 .. Len(t), t[k] = y
             PROVE  \E j \in 1 .. k - 1 : t[j] = x
  BY DEF Newer
<1>0. /\ Len(c) \in Nat /\ Len(t) \in 1 .. Ways /\ t[1] = l /\ Ways \in Nat
  BY PrimeProbeAssumption DEF Accessed
<1>1. k \in 2 .. Len(t)
  BY <1>0
<1>2. CASE x = l
  <2>1. 1 \in 1 .. k - 1
    BY <1>0, <1>1
  <2> QED
    BY <1>0, <1>2, <2>1
<1>3. CASE x # l /\ Newer(c, x, y)
  <2>1. PICK b \in {k - 1, k} :
               /\ b \in 1 .. Len(c) /\ c[b] = y
               /\ b = k - 1 => \A i \in 1 .. k - 1 : c[i] # l
               /\ b = k => \E i \in 1 .. k - 1 : c[i] = l
    BY <1>1, AccessMoves
  <2>2. PICK j \in 1 .. b - 1 : c[j] = x
    BY <1>3, <2>1 DEF Newer
  <2>3. j \in 1 .. Len(c) /\ j < k /\ j # Ways
    BY <1>0, <2>1
  <2>4. CASE t[j] = x /\ j \in 2 .. Len(t)
    <3>1. j \in 1 .. k - 1
      BY <1>0, <2>3
    <3> QED
      BY <2>4, <3>1
  <2>5. CASE /\ j + 1 \in 2 .. Len(t) /\ t[j + 1] = x
             /\ \A i \in 1 .. j : c[i] # l
    <3>1. j + 1 # k
      <4> SUFFICES ASSUME j + 1 = k PROVE FALSE
        OBVIOUS
      <4>1. b = k
        BY <1>0, <2>1, <2>3
      <4>2. PICK i \in 1 .. k - 1 : c[i] = l
        BY <2>1, <4>1
      <4>3. i \in 1 .. j
        BY <1>0, <2>3
      <4> QED
        BY <2>5, <4>2, <4>3
    <3>2. j + 1 \in 1 .. k - 1
      BY <1>0, <2>3, <3>1
    <3> QED
      BY <2>5, <3>2
  <2> QED
    BY <1>3, <2>2, <2>3, <2>4, <2>5, AccessMoves
<1> QED
  BY <1>2, <1>3

(* Only the line just used has come in; and the others have only moved     *)
(* up to it.                                                               *)
LEMMA AccessKeepsAbove ==
  ASSUME NEW c, NEW t, NEW l, Accessed(c, t, l), NEW y, y # l, NEW S,
         Above(c, y, S)
  PROVE  Above(t, y, S \cup {l})
<1> SUFFICES ASSUME NEW k \in 1 .. Len(t), \A j \in 1 .. k : t[j] # y, t[k] # l
             PROVE  t[k] \in S
  BY DEF Above
<1>0. /\ Len(c) \in Nat /\ Len(c) <= Ways
      /\ Len(t) \in 1 .. Ways /\ t[1] = l /\ Ways \in Nat
  BY PrimeProbeAssumption DEF Accessed
<1>1. k \in 2 .. Len(t)
  BY <1>0
<1>2. PICK b \in {k - 1, k} :
             /\ b \in 1 .. Len(c) /\ c[b] = t[k]
             /\ b = k - 1 => \A i \in 1 .. k - 1 : c[i] # l
             /\ b = k => \E i \in 1 .. k - 1 : c[i] = l
  BY <1>1, AccessMoves
<1>3. ASSUME NEW j \in 1 .. b, c[j] = y PROVE FALSE
  <2>1. j \in 1 .. Len(c) /\ j \in 1 .. k
    BY <1>0, <1>2
  <2>2. ~(j \in 2 .. Len(t) /\ t[j] = y)
    BY <2>1
  <2>3. j # b
    BY <1>2, <1>3, <2>1
  <2>4. j < k /\ j # Ways
    BY <1>0, <1>2, <2>1, <2>3
  <2>5. j + 1 \in 2 .. Len(t) /\ t[j + 1] = y /\ \A i \in 1 .. j : c[i] # l
    BY <1>3, <2>1, <2>2, <2>4, AccessMoves
  <2>6. j + 1 \in 1 .. k
    BY <1>0, <2>1, <2>4
  <2> QED
    BY <2>5, <2>6
<1>4. c[b] \in S
  BY <1>2, <1>3 DEF Above
<1> QED
  BY <1>2, <1>4

(* No line comes back but by an access to it; one falls out only of a full *)
(* set, on an access to a line that is not there.                          *)
LEMMA AccessKeepsOut ==
  ASSUME NEW c, NEW t, NEW l, Accessed(c, t, l), NEW y, y # l
  PROVE  /\ Holds(t, y) => Holds(c, y)
         /\ Holds(c, y) /\ ~Holds(t, y) => ~Holds(c, l) /\ Len(c) = Ways
         /\ Len(c) = Ways => Len(t) = Ways
<1>0. /\ Len(c) \in Nat /\ Len(c) <= Ways
      /\ Len(t) \in 1 .. Ways /\ t[1] = l /\ Ways \in Nat
      /\ Len(c) = Ways => Len(t) = Ways
  BY PrimeProbeAssumption DEF Accessed
<1>1. ASSUME NEW k \in 1 .. Len(t), t[k] = y PROVE Holds(c, y)
  <2>1. k \in 2 .. Len(t)
    BY <1>0, <1>1
  <2> QED
    BY <1>1, <2>1, AccessMoves DEF Holds
<1>2. ASSUME NEW k \in 1 .. Len(c), c[k] = y, ~Holds(t, y)
      PROVE  ~Holds(c, l) /\ Len(c) = Ways
  <2>1. ~(k \in 2 .. Len(t) /\ t[k] = y) /\ ~(k + 1 \in 2 .. Len(t) /\ t[k + 1] = y)
    BY <1>0, <1>2 DEF Holds
  <2>2. k = Ways /\ ~Holds(c, l)
    BY <1>2, <2>1, AccessMoves
  <2> QED
    BY <1>0, <2>2
<1> QED
  BY <1>0, <1>1, <1>2 DEF Holds

-----------------------------------------------------------------------------
(* What a cache set keeps of the lines prime has loaded                    *)

(* Way w of set s has been loaded by prime, and timed by probe, in this    *)
(* round; between the two it is pending.                                   *)
Loaded(s, w)  == pc # "prime" \/ set > s \/ (set = s /\ w > way)
Done(s, w)    == \/ pc = "output"
                 \/ pc = "probe" /\ (set > s \/ (set = s /\ w < way))
Pending(s, w) == Loaded(s, w) /\ ~Done(s, w)

(* The lines of set s that can have been used since way w was loaded.      *)
Recent(s, w) ==
  {x \in Lines : \E u \in 0 .. w - 1 : Loaded(s, u) /\ x = Offset(u, s)}
    \cup noise[s]

CacheInv ==
  /\ content \in [SetIds -> Seq(Universe)]
  /\ \A s \in SetIds : Len(content[s]) <= Ways /\ Distinct(content[s])

HistInv ==
  /\ pc \in {"prime", "yield", "probe", "output"}
  /\ noise \in [SetIds -> SUBSET Foreign]
  /\ calm \in [SetIds -> BOOLEAN]
  /\ result \in [Lines -> {"hit", "miss", "unset"}]
  /\ \A s \in SetIds :
       IsFiniteSet(noise[s]) /\ (calm[s] /\ ~Primed(s) => noise[s] = {})

(* A pending way is older than the loaded ways below it, older than the    *)
(* noise of a calm set, and covered by nothing else.                       *)
Ordered(s, w) ==
  /\ \A u \in 0 .. w - 1 :
       Loaded(s, u) => Newer(content[s], Offset(u, s), Offset(w, s))
  /\ calm[s] => \A f \in noise[s] : Newer(content[s], f, Offset(w, s))
  /\ Above(content[s], Offset(w, s), Recent(s, w))
  /\ Holds(content[s], Offset(w, s)) \/ Len(content[s]) = Ways

OrderInv == \A s \in SetIds, w \in WayIds : Pending(s, w) => Ordered(s, w)

Outcome(s, w) == result[s * Ways + w]

(* A miss needs enough noise to cover the way and all that are loaded      *)
(* below it, and takes the ways above it along; a hit in a calm set had    *)
(* room left.                                                              *)
Shown(s, u) ==
  /\ Outcome(s, u) \in {"hit", "miss"}
  /\ Outcome(s, u) = "miss" =>
       /\ Ways - u <= Cardinality(noise[s])
       /\ \A v \in u + 1 .. Ways - 1 :
            IF Done(s, v) THEN Outcome(s, v) = "miss"
            ELSE ~Holds(content[s], Offset(v, s))
  /\ calm[s] /\ Outcome(s, u) = "hit" => u + Cardinality(noise[s]) < Ways

ResultInv == \A s \in SetIds, u \in WayIds : Done(s, u) => Shown(s, u)

Inv == LoopInv /\ CacheInv /\ HistInv /\ OrderInv /\ ResultInv

LEMMA Division ==
  ASSUME NEW a \in Nat, NEW b \in Nat \ {0}
  PROVE  /\ a \div b \in Nat /\ a % b \in 0 .. b - 1
         /\ a = b * (a \div b) + (a % b)
OBVIOUS

(* All lines prime loads in iteration s are in cache set s.                *)
LEMMA SetOfLine ==
  ASSUME NEW w \in WayIds, NEW s \in SetIds
  PROVE  CacheSet(Offset(w, s)) = s
<1> DEFINE a == w * Sets + s
           d == a \div Sets
           m == a % Sets
<1>0. Sets \in Nat \ {0} /\ w \in Nat /\ s \in 0 .. Sets - 1
  BY PrimeProbeAssumption DEF WayIds, SetIds
<1>1. d \in Nat /\ m \in 0 .. Sets - 1 /\ a = Sets * d + m
  <2>1. a \in Nat
    BY <1>0
  <2> QED
    BY <1>0, <2>1, Division
<1>2. w * Sets + s = d * Sets + m
  BY <1>0, <1>1
<1> HIDE DEF a, d, m
<1>3. \A x, y \in Nat : x < y => x * Sets + Sets <= y * Sets
  <2> TAKE x, y \in Nat
  <2> HAVE x < y
  <2>1. (y - x - 1) * Sets \in Nat
    <3>1. y - x - 1 \in Nat
      OBVIOUS
    <3> QED
      BY <1>0, <3>1
  <2>2. y * Sets = x * Sets + Sets + (y - x - 1) * Sets
    BY <1>0
  <2>3. x * Sets \in Nat /\ y * Sets \in Nat
    BY <1>0
  <2> QED
    BY <1>0, <2>1, <2>2, <2>3
<1>4. w * Sets \in Nat /\ d * Sets \in Nat
  BY <1>0, <1>1
<1>5. ~(w < d) /\ ~(d < w)
  BY <1>0, <1>1, <1>2, <1>3, <1>4
<1>6. d = w
  BY <1>0, <1>1, <1>5
<1>7. m = s
  BY <1>0, <1>1, <1>2, <1>4, <1>6
<1> QED
  BY <1>7 DEF m, a, CacheSet, Offset

(* Two cells of the matrix never share an index.                           *)
LEMMA CellInjective ==
  ASSUME NEW s \in SetIds, NEW t \in SetIds, NEW v \in WayIds, NEW w \in WayIds,
         s * Ways + v = t * Ways + w
  PROVE  s = t /\ v = w
<1> USE PrimeProbeAssumption DEF WayIds, SetIds
<1>1. \A x, y \in SetIds : x < y => x * Ways + Ways <= y * Ways
  <2> TAKE x, y \in SetIds
  <2> HAVE x < y
  <2>1. (y - x - 1) * Ways \in Nat
    <3>1. y - x - 1 \in Nat
      OBVIOUS
    <3> QED
      BY <3>1
  <2>2. y * Ways = x * Ways + Ways + (y - x - 1) * Ways
    OBVIOUS
  <2>3. x * Ways \in Nat /\ y * Ways \in Nat
    OBVIOUS
  <2> QED
    BY <2>1, <2>2, <2>3
<1>2. s * Ways \in Nat /\ t * Ways \in Nat
  OBVIOUS
<1>3. ~(s < t) /\ ~(t < s)
  BY <1>1, <1>2
<1> QED
  BY <1>2, <1>3

(* A set that covers a cache set has as many lines as it.                  *)
LEMMA CoverCounts ==
  ASSUME NEW c, Len(c) \in Nat, Distinct(c), NEW S, IsFiniteSet(S),
         \A k \in 1 .. Len(c) : c[k] \in S
  PROVE  Len(c) <= Cardinality(S)
<1> DEFINE f == [k \in 1 .. Len(c) |-> c[k]]
<1>1. f \in Injection(1 .. Len(c), S)
  BY DEF Injection, IsInjective, Distinct
<1>2. Cardinality(1 .. Len(c)) = Len(c)
  <2>1. \A n \in Nat : Cardinality(1 .. n) = n
    BY FS_Interval
  <2> QED
    BY <2>1
<1> HIDE DEF f
<1> QED
  BY <1>1, <1>2, FS_Injection

(* Lines that are all found before position k are less than k.             *)
LEMMA NewerCount ==
  ASSUME NEW c, NEW k \in Nat \ {0}, NEW S,
         \A x \in S : \E j \in 1 .. k - 1 : c[j] = x
  PROVE  Cardinality(S) < k
<1> DEFINE f == [x \in S |-> CHOOSE j \in 1 .. k - 1 : c[j] = x]
<1>1. \A x \in S : f[x] \in 1 .. k - 1 /\ c[f[x]] = x
  OBVIOUS
<1>2. f \in [S -> 1 .. k - 1]
  BY <1>1
<1>3. f \in Injection(S, 1 .. k - 1)
  BY <1>1, <1>2 DEF Injection, IsInjective
<1>4. IsFiniteSet(1 .. k - 1) /\ Cardinality(1 .. k - 1) = k - 1
  BY FS_Interval
<1> HIDE DEF f
<1>5. IsFiniteSet(S) /\ Cardinality(S) <= k - 1
  BY <1>3, <1>4, FS_Injection
<1> QED
  BY <1>5, FS_CardinalityType

(* The ways loaded below w and the noise are different lines.              *)
LEMMA RecentCount ==
  ASSUME NEW s \in SetIds, NEW w \in WayIds, \A u \in 0 .. w - 1 : Loaded(s, u),
         noise[s] \subseteq Foreign, IsFiniteSet(noise[s])
  PROVE  /\ IsFiniteSet(Recent(s, w))
         /\ Cardinality(Recent(s, w)) = w + Cardinality(noise[s])
<1> DEFINE B == {x \in Lines : \E u \in 0 .. w - 1 : Loaded(s, u) /\ x = Offset(u, s)}
           f == [u \in 0 .. w - 1 |-> Offset(u, s)]
<1>0. w \in Nat /\ \A u \in 0 .. w - 1 : u \in WayIds
  BY PrimeProbeAssumption DEF WayIds
<1>1. \A u \in 0 .. w - 1 : Offset(u, s) \in B
  BY <1>0, OffsetInBuffer
<1>2. f \in Bijection(0 .. w - 1, B)
  <2>1. f \in [0 .. w - 1 -> B]
    BY <1>1
  <2>2. \A u, v \in 0 .. w - 1 : f[u] = f[v] => u = v
    BY <1>0, OffsetInjective
  <2>3. \A x \in B : \E u \in 0 .. w - 1 : f[u] = x
    OBVIOUS
  <2> HIDE DEF B, f
  <2> QED
    BY <2>1, <2>2, <2>3 DEF Bijection, Injection, Surjection, IsInjective
<1>3. IsFiniteSet(0 .. w - 1) /\ Cardinality(0 .. w - 1) = w
  BY <1>0, FS_Interval
<1>4. B \cap noise[s] = {}
  BY PrimeProbeAssumption DEF Lines
<1>5. Recent(s, w) = B \cup noise[s]
  BY DEF Recent
<1> HIDE DEF B, f
<1>6. IsFiniteSet(B) /\ Cardinality(B) = w
  BY <1>2, <1>3, FS_Bijection DEF ExistsBijection
<1>7. Cardinality(noise[s]) \in Nat
  BY FS_CardinalityType
<1>8. Cardinality(B \cap noise[s]) = 0
  BY <1>4, FS_EmptySet
<1>9. /\ IsFiniteSet(B \cup noise[s])
      /\ Cardinality(B \cup noise[s]) =
           Cardinality(B) + Cardinality(noise[s]) - Cardinality(B \cap noise[s])
  BY <1>6, FS_Union
<1> QED
  BY <1>0, <1>5, <1>6, <1>7, <1>8, <1>9

(* What the steps of prime and probe do to the ways loaded and timed.      *)
LEMMA PrimeLoads ==
  ASSUME LoopInv, PrimeLine, NEW s \in SetIds, NEW w \in WayIds
  PROVE  /\ Loaded(s, w)' <=> Loaded(s, w) \/ (s = set /\ w = way)
         /\ ~Done(s, w) /\ ~Done(s, w)' /\ ~Loaded(set, way)
         /\ s = set /\ w < way => ~Loaded(s, w)
<1> USE PrimeProbeAssumption
    DEF LoopInv, PrimeLine, SetIds, WayIds, Loaded, Done
<1>1. CASE way - 1 >= 0
  BY <1>1
<1>2. CASE way = 0 /\ set + 1 < Sets
  BY <1>2
<1>3. CASE way = 0 /\ set + 1 = Sets
  BY <1>3
<1> QED
  BY <1>1, <1>2, <1>3

LEMMA ProbeTimes ==
  ASSUME LoopInv, ProbeLine, NEW s \in SetIds, NEW w \in WayIds
  PROVE  /\ Done(s, w)' <=> Done(s, w) \/ (s = set /\ w = way)
         /\ Loaded(s, w) /\ Loaded(s, w)' /\ ~Done(set, way)
         /\ Done(s, w) => set > s \/ (set = s /\ w < way)
<1> USE PrimeProbeAssumption
    DEF LoopInv, ProbeLine, SetIds, WayIds, Loaded, Done
<1>1. CASE way + 1 < Ways
  BY <1>1
<1>2. CASE way + 1 = Ways /\ set + 1 < Sets
  BY <1>2
<1>3. CASE way + 1 = Ways /\ set + 1 = Sets
  BY <1>3
<1> QED
  BY <1>1, <1>2, <1>3

LEMMA YieldLoadsNothing ==
  ASSUME LoopInv, Yield, NEW s \in SetIds, NEW w \in WayIds
  PROVE  Loaded(s, w) /\ Loaded(s, w)' /\ ~Done(s, w) /\ ~Done(s, w)'
BY PrimeProbeAssumption DEF LoopInv, Yield, SetIds, WayIds, Loaded, Done

LEMMA NextRoundForgets ==
  ASSUME LoopInv, NextRound, NEW s \in SetIds, NEW w \in WayIds
  PROVE  ~Loaded(s, w)' /\ ~Done(s, w)'
BY PrimeProbeAssumption DEF LoopInv, NextRound, SetIds, WayIds, Loaded, Done

LEMMA PendingIsObserved ==
  ASSUME LoopInv, NEW s \in SetIds, NEW w \in WayIds, Pending(s, w)
  PROVE  Started(s) /\ ~Probed(s)
BY PrimeProbeAssumption
   DEF LoopInv, SetIds, WayIds, Pending, Loaded, Done, Started, Probed

(* One access of anyone changes one set of the cache as AccessMoves says.  *)
LEMMA CacheStep ==
  ASSUME CacheInv, NEW s \in SetIds, NEW l \in Universe,
         content' = [content EXCEPT ![s] = Touch(s, l)]
  PROVE  /\ CacheInv'
         /\ Accessed(content[s], content'[s], l)
         /\ \A t \in SetIds \ {s} : content'[t] = content[t]
<1>1. /\ content[s] \in Seq(Universe) /\ Len(content[s]) <= Ways
      /\ Distinct(content[s])
  BY DEF CacheInv
<1>2. Touch(s, l) \in Seq(Universe) /\ Accessed(content[s], Touch(s, l), l)
  BY <1>1, TouchIsAccess
<1>3. /\ content'[s] = Touch(s, l)
      /\ \A t \in SetIds \ {s} : content'[t] = content[t]
      /\ content' \in [SetIds -> Seq(Universe)]
  BY <1>2 DEF CacheInv
<1>4. Len(Touch(s, l)) <= Ways
  BY <1>2, PrimeProbeAssumption DEF Accessed
<1>5. Distinct(Touch(s, l))
  BY <1>2, AccessedIsDistinct
<1>6. \A t \in SetIds : Len(content'[t]) <= Ways /\ Distinct(content'[t])
  <2> TAKE t \in SetIds
  <2>1. CASE t = s
    BY <1>3, <1>4, <1>5, <2>1
  <2>2. CASE t # s
    <3>1. content'[t] = content[t]
      BY <1>3, <2>2
    <3> QED
      BY <3>1 DEF CacheInv
  <2> QED
    BY <2>1, <2>2
<1>7. CacheInv'
  BY <1>3, <1>6 DEF CacheInv, Distinct, Universe, Lines, SetIds
<1> QED
  BY <1>2, <1>3, <1>7

LEMMA ScanStep ==
  ASSUME LoopInv, CacheInv, Access(Offset(way, set))
  PROVE  /\ CacheInv'
         /\ Accessed(content[set], content'[set], Offset(way, set))
         /\ \A t \in SetIds \ {set} : content'[t] = content[t]
<1>1. set \in SetIds /\ way \in WayIds
  BY DEF LoopInv
<1>2. Offset(way, set) \in Universe /\ CacheSet(Offset(way, set)) = set
  BY <1>1, OffsetInBuffer, SetOfLine DEF Universe
<1>3. content' = [content EXCEPT ![set] = Touch(set, Offset(way, set))]
  BY <1>2 DEF Access
<1> QED
  BY <1>1, <1>2, <1>3, CacheStep

LEMMA CacheInit == Init => CacheInv
<1> SUFFICES ASSUME Init PROVE CacheInv
  OBVIOUS
<1>1. /\ <<>> \in Seq(Universe) /\ Len(<<>>) = 0
  OBVIOUS
<1>2. Distinct(<<>>)
  BY <1>1 DEF Distinct
<1> QED
  BY <1>1, <1>2, PrimeProbeAssumption DEF Init, CacheInv

LEMMA CacheKept == LoopInv /\ CacheInv /\ [Next]_vars => CacheInv'
<1> SUFFICES ASSUME LoopInv, CacheInv, [Next]_vars PROVE CacheInv'
  OBVIOUS
<1>1. CASE PrimeLine
  BY <1>1, ScanStep DEF PrimeLine
<1>2. CASE ProbeLine
  BY <1>2, ScanStep DEF ProbeLine
<1>3. CASE UNCHANGED content
  BY <1>3 DEF CacheInv, Distinct, Universe, Lines, SetIds
<1>4. ASSUME NEW s \in SetIds, NEW f \in Foreign, ForeignAccess(s, f)
      PROVE  CacheInv'
  <2>1. f \in Universe
    BY DEF Universe
  <2> QED
    BY <1>4, <2>1, CacheStep DEF ForeignAccess
<1> QED
  BY <1>1, <1>2, <1>3, <1>4 DEF Next, Measurement, Yield, NextRound, vars

LEMMA HistInit == Init => HistInv
BY FS_EmptySet DEF Init, HistInv

LEMMA HistKept == LoopInv /\ HistInv /\ [Next]_vars => HistInv'
<1> SUFFICES ASSUME LoopInv, HistInv, [Next]_vars PROVE HistInv'
  OBVIOUS
<1> USE DEF HistInv
<1>1. CASE PrimeLine
  <2>1. /\ UNCHANGED <<noise, calm, result>>
        /\ pc = "prime" /\ pc' \in {"prime", "yield"}
    BY <1>1 DEF PrimeLine, histVars
  <2>2. \A s \in SetIds : Primed(s) => Primed(s)'
    BY <1>1, PrimeProbeAssumption DEF PrimeLine, Primed, LoopInv, SetIds
  <2> QED
    BY <2>1, <2>2
<1>2. CASE Yield
  BY <1>2 DEF Yield, histVars, Primed
<1>3. CASE ProbeLine
  <2>1. /\ UNCHANGED <<noise, calm>>
        /\ pc = "probe" /\ pc' \in {"probe", "output"}
    BY <1>3 DEF ProbeLine, histVars
  <2>2. result' \in [Lines -> {"hit", "miss", "unset"}]
    BY <1>3 DEF ProbeLine
  <2>3. \A s \in SetIds : Primed(s)'
    BY <2>1 DEF Primed
  <2> QED
    BY <2>1, <2>2, <2>3
<1>4. CASE NextRound
  BY <1>4, FS_EmptySet DEF NextRound
<1>5. ASSUME NEW s \in SetIds, NEW f \in Foreign, ForeignAccess(s, f)
      PROVE  HistInv'
  <2>1. UNCHANGED <<pc, set, way, index, result>>
    BY <1>5 DEF ForeignAccess, loopVars
  <2>2. \A t \in SetIds : Primed(t)' = Primed(t)
    BY <2>1 DEF Primed
  <2>3. CASE Started(s) /\ ~Probed(s)
    <3>1. /\ noise' = [noise EXCEPT ![s] = @ \cup {f}]
          /\ calm' = [calm EXCEPT ![s] = @ /\ Primed(s) /\ ~Probing(s)]
      BY <1>5, <2>3 DEF ForeignAccess
    <3>2. noise' \in [SetIds -> SUBSET Foreign] /\ calm' \in [SetIds -> BOOLEAN]
      BY <3>1
    <3>3. \A t \in SetIds : IsFiniteSet(noise'[t])
      <4>1. \A S : IsFiniteSet(S) => IsFiniteSet(S \cup {f})
        BY FS_AddElement
      <4> QED
        BY <3>1, <4>1
    <3>4. ASSUME NEW t \in SetIds, calm'[t], ~Primed(t)' PROVE noise'[t] = {}
      <4>1. t # s
        BY <2>2, <3>1, <3>4
      <4>2. noise'[t] = noise[t] /\ calm'[t] = calm[t]
        BY <3>1, <4>1
      <4> QED
        BY <2>2, <3>4, <4>2
    <3> QED
      BY <2>1, <3>2, <3>3, <3>4
  <2>4. CASE ~(Started(s) /\ ~Probed(s))
    <3>1. UNCHANGED <<noise, calm>>
      BY <1>5, <2>4 DEF ForeignAccess, histVars
    <3> QED
      BY <2>1, <2>2, <3>1
  <2> QED
    BY <2>3, <2>4
<1>6. CASE UNCHANGED vars
  BY <1>6 DEF vars, loopVars, histVars, Primed
<1> QED
  BY <1>1, <1>2, <1>3, <1>4, <1>5, <1>6 DEF Next, Measurement

-----------------------------------------------------------------------------
(* The order of a pending way                                              *)

LEMMA OrderedSame ==
  ASSUME NEW s \in SetIds, NEW w \in WayIds, Ordered(s, w),
         content'[s] = content[s], noise'[s] = noise[s], calm'[s] = calm[s],
         \A u \in 0 .. w - 1 : Loaded(s, u)' <=> Loaded(s, u)
  PROVE  Ordered(s, w)'
<1>1. Recent(s, w)' = Recent(s, w)
  BY DEF Recent, Lines, Offset
<1>2. Above(content'[s], Offset(w, s), Recent(s, w)')
  BY <1>1 DEF Ordered
<1> QED
  BY <1>2 DEF Ordered, Above, Holds, Newer, Offset

(* An access to another line keeps it, when that line is then one of the   *)
(* loaded ways or noise.                                                   *)
LEMMA OrderedKept ==
  ASSUME NEW s \in SetIds, NEW w \in WayIds, Ordered(s, w),
         NEW l, l # Offset(w, s), Accessed(content[s], content'[s], l),
         \A u \in 0 .. w - 1 : Loaded(s, u)' => Loaded(s, u) \/ Offset(u, s) = l,
         calm'[s] => calm[s],
         \A f \in noise'[s] : f \in noise[s] \/ f = l,
         Recent(s, w) \cup {l} \subseteq Recent(s, w)'
  PROVE  Ordered(s, w)'
<1> DEFINE c == content[s]
           t == content'[s]
           y == Offset(w, s)
<1>1. \A x : x = l \/ Newer(c, x, y) => Newer(t, x, y)
  BY AccessKeepsOrder
<1>2. Above(t, y, Recent(s, w) \cup {l})
  BY AccessKeepsAbove DEF Ordered
<1>3. Above(t, y, Recent(s, w)')
  BY <1>2 DEF Above
<1>4. Holds(t, y) \/ Len(t) = Ways
  BY AccessKeepsOut DEF Ordered
<1>5. \A u \in 0 .. w - 1 : Loaded(s, u)' => Newer(t, Offset(u, s), y)
  BY <1>1 DEF Ordered
<1>6. calm'[s] => \A f \in noise'[s] : Newer(t, f, y)
  BY <1>1 DEF Ordered
<1> HIDE DEF c
<1>7. Offset(w, s)' = y /\ \A u \in 0 .. w - 1 : Offset(u, s)' = Offset(u, s)
  BY DEF Offset
<1> QED
  BY <1>3, <1>4, <1>5, <1>6, <1>7 DEF Ordered, Above, Holds, Newer

(* The line just loaded is on top, with nothing above it.                  *)
LEMMA OrderedFresh ==
  ASSUME NEW s \in SetIds, NEW w \in WayIds,
         Accessed(content[s], content'[s], Offset(w, s)),
         \A u \in 0 .. w - 1 : ~Loaded(s, u)',
         calm'[s] => noise'[s] = {}
  PROVE  Ordered(s, w)'
<1> DEFINE t == content'[s]
<1>1. Holds(t, Offset(w, s))
  BY AccessedIsDistinct
<1>2. Len(t) \in Nat /\ t[1] = Offset(w, s)
  BY PrimeProbeAssumption DEF Accessed
<1>3. \A S : Above(t, Offset(w, s), S)
  BY <1>2 DEF Above
<1> QED
  BY <1>1, <1>3 DEF Ordered, Above, Holds, Newer, Offset

LEMMA OrderInit == Init => OrderInv
BY PrimeProbeAssumption
   DEF Init, OrderInv, Pending, Loaded, SetIds, WayIds

LEMMA OrderStep ==
  LoopInv /\ CacheInv /\ HistInv /\ OrderInv /\ [Next]_vars => OrderInv'
<1> SUFFICES ASSUME LoopInv, CacheInv, HistInv, OrderInv, [Next]_vars,
                    NEW s \in SetIds, NEW w \in WayIds, Pending(s, w)'
             PROVE  Ordered(s, w)'
  BY DEF OrderInv, SetIds, WayIds
<1>0. /\ w \in Nat /\ \A u \in 0 .. w - 1 : u \in WayIds /\ u # w
      /\ Pending(s, w) => Ordered(s, w)
  BY PrimeProbeAssumption DEF WayIds, OrderInv
<1>1. CASE PrimeLine
  <2>0. /\ UNCHANGED <<noise, calm>> /\ pc = "prime"
        /\ set \in SetIds /\ way \in WayIds
        /\ Access(Offset(way, set))
    BY <1>1 DEF PrimeLine, histVars, LoopInv
  <2>1. /\ Accessed(content[set], content'[set], Offset(way, set))
        /\ \A t \in SetIds \ {set} : content'[t] = content[t]
    BY <2>0, ScanStep
  <2>2. CASE s # set
    <3>1. \A u \in 0 .. w - 1 : Loaded(s, u)' <=> Loaded(s, u)
      BY <1>0, <1>1, <2>2, PrimeLoads
    <3>2. Pending(s, w)
      BY <1>1, <2>2, PrimeLoads DEF Pending
    <3> QED
      BY <1>0, <2>0, <2>1, <2>2, <3>1, <3>2, OrderedSame
  <2>3. CASE s = set /\ w = way
    <3>1. \A u \in 0 .. w - 1 : ~Loaded(s, u)'
      <4> TAKE u \in 0 .. w - 1
      <4>1. u \in WayIds /\ u # way /\ u < way
        BY <1>0, <2>3
      <4> QED
        BY <1>1, <2>3, <4>1, PrimeLoads
    <3>2. ~Primed(s)
      BY <2>0, <2>3, PrimeProbeAssumption DEF Primed, SetIds
    <3>3. calm'[s] => noise'[s] = {}
      BY <2>0, <3>2 DEF HistInv
    <3> QED
      BY <2>1, <2>3, <3>1, <3>3, OrderedFresh
  <2>4. CASE s = set /\ w # way
    <3>1. Pending(s, w)
      BY <1>1, <2>4, PrimeLoads DEF Pending
    <3>2. Offset(way, set) # Offset(w, s)
      BY <2>0, <2>4, OffsetInjective
    <3> DEFINE l == Offset(way, set)
    <3>8. \A v \in WayIds : Loaded(s, v)' <=> Loaded(s, v) \/ v = way
      BY <1>1, <2>4, PrimeLoads
    <3>3. \A u \in 0 .. w - 1 : Loaded(s, u)' => Loaded(s, u) \/ Offset(u, s) = l
      <4> TAKE u \in 0 .. w - 1
      <4>1. u \in WayIds
        BY <1>0
      <4>2. u = way => Offset(u, s) = l
        BY <2>4
      <4> QED
        BY <3>8, <4>1, <4>2
    <3>4. way \in 0 .. w - 1
      <4>1. ~(w < way)
        BY <1>1, <2>4, <3>1, PrimeLoads DEF Pending
      <4> QED
        BY <1>0, <2>0, <2>4, <4>1 DEF WayIds
    <3>5. \A u \in 0 .. w - 1 : Loaded(s, u) \/ u = way => Loaded(s, u)'
      BY <1>0, <3>8
    <3>6. Offset(way, set) \in Lines
      BY <2>0, OffsetInBuffer
    <3>7. Recent(s, w) \cup {Offset(way, set)} \subseteq Recent(s, w)'
      BY <2>0, <2>4, <3>4, <3>5, <3>6 DEF Recent, Offset, Lines
    <3> QED
      BY <1>0, <2>0, <2>1, <2>4, <3>1, <3>2, <3>3, <3>7, OrderedKept
  <2> QED
    BY <2>2, <2>3, <2>4
<1>2. CASE Yield
  <2>1. UNCHANGED <<noise, calm, content>>
    BY <1>2 DEF Yield, histVars
  <2>2. Pending(s, w) /\ \A u \in 0 .. w - 1 : Loaded(s, u)' <=> Loaded(s, u)
    BY <1>0, <1>2, YieldLoadsNothing DEF Pending
  <2> QED
    BY <1>0, <2>1, <2>2, OrderedSame
<1>3. CASE ProbeLine
  <2>0. /\ UNCHANGED <<noise, calm>>
        /\ set \in SetIds /\ way \in WayIds
        /\ Access(Offset(way, set))
    BY <1>3 DEF ProbeLine, histVars, LoopInv
  <2>1. /\ Accessed(content[set], content'[set], Offset(way, set))
        /\ \A t \in SetIds \ {set} : content'[t] = content[t]
    BY <2>0, ScanStep
  <2>2. Pending(s, w) /\ ~(s = set /\ w = way)
    BY <1>3, ProbeTimes DEF Pending
  <2>3. \A u \in 0 .. w - 1 : Loaded(s, u)' /\ Loaded(s, u)
    BY <1>0, <1>3, ProbeTimes
  <2>4. CASE s # set
    BY <1>0, <2>0, <2>1, <2>2, <2>3, <2>4, OrderedSame
  <2>5. CASE s = set
    <3>1. Offset(way, set) # Offset(w, s)
      BY <2>0, <2>2, OffsetInjective
    <3>2. way \in 0 .. w - 1
      BY <1>3, <2>0, <2>2, <2>5, PrimeProbeAssumption
         DEF Pending, Done, ProbeLine, WayIds, SetIds
    <3>3. Offset(way, set) \in Lines
      BY <2>0, OffsetInBuffer
    <3>4. Recent(s, w) \cup {Offset(way, set)} \subseteq Recent(s, w)'
      BY <2>0, <2>3, <2>5, <3>2, <3>3 DEF Recent, Offset, Lines
    <3> QED
      BY <1>0, <2>0, <2>1, <2>2, <2>3, <2>5, <3>1, <3>4, OrderedKept
  <2> QED
    BY <2>4, <2>5
<1>4. CASE NextRound
  BY <1>4, NextRoundForgets DEF Pending
<1>5. ASSUME NEW t \in SetIds, NEW f \in Foreign, ForeignAccess(t, f)
      PROVE  Ordered(s, w)'
  <2>0. /\ UNCHANGED <<pc, set, way, index>>
        /\ content' = [content EXCEPT ![t] = Touch(t, f)]
    BY <1>5 DEF ForeignAccess, loopVars
  <2>1. /\ Accessed(content[t], content'[t], f)
        /\ \A r \in SetIds \ {t} : content'[r] = content[r]
    <3>1. f \in Universe
      BY DEF Universe
    <3> QED
      BY <2>0, <3>1, CacheStep
  <2>2. Pending(s, w) /\ \A u \in 0 .. w - 1 : Loaded(s, u)' <=> Loaded(s, u)
    BY <2>0 DEF Pending, Loaded, Done
  <2>3. CASE s # t
    <3>1. noise'[s] = noise[s] /\ calm'[s] = calm[s]
      BY <1>5, <2>3 DEF ForeignAccess, histVars, HistInv
    <3> QED
      BY <1>0, <2>1, <2>2, <2>3, <3>1, OrderedSame
  <2>4. CASE s = t
    <3>1. Started(t) /\ ~Probed(t)
      BY <2>2, <2>4, PendingIsObserved
    <3>2. /\ noise' = [noise EXCEPT ![t] = @ \cup {f}]
          /\ calm' = [calm EXCEPT ![t] = @ /\ Primed(t) /\ ~Probing(t)]
      BY <1>5, <3>1 DEF ForeignAccess
    <3>3. noise'[s] = noise[s] \cup {f} /\ (calm'[s] => calm[s])
      BY <2>4, <3>2 DEF HistInv
    <3>4. f # Offset(w, s)
      BY OffsetInBuffer, PrimeProbeAssumption DEF Lines
    <3>5. Recent(s, w) \cup {f} \subseteq Recent(s, w)'
      BY <2>2, <3>3 DEF Recent, Offset, Lines
    <3> QED
      BY <1>0, <2>1, <2>2, <2>4, <3>3, <3>4, <3>5, OrderedKept
  <2> QED
    BY <2>3, <2>4
<1>6. CASE UNCHANGED vars
  <2>1. UNCHANGED <<pc, set, way, content, noise, calm>>
    BY <1>6 DEF vars, loopVars, histVars
  <2>2. Pending(s, w) /\ \A u \in 0 .. w - 1 : Loaded(s, u)' <=> Loaded(s, u)
    BY <2>1 DEF Pending, Loaded, Done
  <2> QED
    BY <1>0, <2>1, <2>2, OrderedSame
<1> QED
  BY <1>1, <1>2, <1>3, <1>4, <1>5, <1>6 DEF Next, Measurement

-----------------------------------------------------------------------------
(* The results                                                             *)

LEMMA CachedIsHeld ==
  ASSUME CacheInv, NEW s \in SetIds, NEW l
  PROVE  Cached(s, l) <=> Holds(content[s], l)
<1>1. content[s] \in Seq(Universe)
  BY DEF CacheInv
<1>2. DOMAIN content[s] = 1 .. Len(content[s])
  BY <1>1, LenProperties
<1> QED
  BY <1>2 DEF Cached, ToSet, Holds

LEMMA ProbeStores ==
  ASSUME LoopInv, CacheInv, HistInv, ProbeLine, NEW s \in SetIds, NEW u \in WayIds
  PROVE  Outcome(s, u)' =
           IF s = set /\ u = way
           THEN IF Holds(content[set], Offset(way, set)) THEN "hit" ELSE "miss"
           ELSE Outcome(s, u)
<1>1. set \in SetIds /\ way \in WayIds /\ index = set * Ways + way
  BY DEF LoopInv, ProbeLine
<1>2. Cached(CacheSet(Offset(way, set)), Offset(way, set))
        <=> Holds(content[set], Offset(way, set))
  BY <1>1, SetOfLine, CachedIsHeld
<1>3. result' = [result EXCEPT ![set * Ways + way] =
                   IF Holds(content[set], Offset(way, set)) THEN "hit" ELSE "miss"]
  BY <1>1, <1>2 DEF ProbeLine
<1>4. s * Ways + u \in Lines /\ set * Ways + way \in Lines
  BY <1>1, IndexInResult
<1>5. s * Ways + u = set * Ways + way => s = set /\ u = way
  BY <1>1, CellInjective
<1>6. result \in [Lines -> {"hit", "miss", "unset"}]
  BY DEF HistInv
<1> QED
  BY <1>3, <1>4, <1>5, <1>6 DEF Outcome

(* What the order of a set says when its way w is timed.                   *)
LEMMA MissIsCovered ==
  ASSUME CacheInv, HistInv, NEW s \in SetIds, NEW w \in WayIds, Ordered(s, w),
         \A u \in 0 .. w - 1 : Loaded(s, u),
         ~Holds(content[s], Offset(w, s))
  PROVE  Ways - w <= Cardinality(noise[s])
<1> DEFINE c == content[s]
<1>0. w \in Nat /\ Ways \in Nat /\ IsFiniteSet(noise[s]) /\ noise[s] \subseteq Foreign
  BY PrimeProbeAssumption DEF WayIds, HistInv
<1>1. Len(c) = Ways /\ Distinct(c)
  BY DEF Ordered, CacheInv
<1>2. \A k \in 1 .. Len(c) : c[k] \in Recent(s, w)
  <2> TAKE k \in 1 .. Len(c)
  <2>1. \A j \in 1 .. k : c[j] # Offset(w, s)
    BY <1>0, <1>1 DEF Holds
  <2> QED
    BY <2>1 DEF Ordered, Above
<1>3. /\ IsFiniteSet(Recent(s, w))
      /\ Cardinality(Recent(s, w)) = w + Cardinality(noise[s])
  BY <1>0, RecentCount
<1>4. Cardinality(noise[s]) \in Nat
  BY <1>0, FS_CardinalityType
<1> HIDE DEF c
<1>5. Len(c) <= Cardinality(Recent(s, w))
  BY <1>0, <1>1, <1>2, <1>3, CoverCounts
<1> QED
  BY <1>0, <1>1, <1>3, <1>4, <1>5

LEMMA HitHasRoom ==
  ASSUME CacheInv, HistInv, NEW s \in SetIds, NEW w \in WayIds, Ordered(s, w),
         \A u \in 0 .. w - 1 : Loaded(s, u),
         Holds(content[s], Offset(w, s)), calm[s]
  PROVE  w + Cardinality(noise[s]) < Ways
<1> DEFINE c == content[s]
<1>0. /\ IsFiniteSet(noise[s]) /\ noise[s] \subseteq Foreign
      /\ w \in Nat /\ Ways \in Nat /\ Len(c) \in Nat /\ Len(c) <= Ways
  BY PrimeProbeAssumption, LenProperties DEF WayIds, HistInv, CacheInv
<1>1. PICK k \in 1 .. Len(c) : c[k] = Offset(w, s)
  BY DEF Holds
<1>2. \A x \in Recent(s, w) : \E j \in 1 .. k - 1 : c[j] = x
  BY <1>1 DEF Recent, Ordered, Newer
<1>3. Cardinality(Recent(s, w)) = w + Cardinality(noise[s])
  BY <1>0, RecentCount
<1>4. Cardinality(noise[s]) \in Nat
  BY <1>0, FS_CardinalityType
<1> HIDE DEF c
<1>5. Cardinality(Recent(s, w)) < k
  BY <1>0, <1>1, <1>2, NewerCount
<1> QED
  BY <1>0, <1>1, <1>3, <1>4, <1>5

LEMMA MissTakesTheRest ==
  ASSUME NEW s \in SetIds, NEW w \in WayIds, NEW v \in WayIds, w < v,
         Ordered(s, v), Loaded(s, w), ~Holds(content[s], Offset(w, s))
  PROVE  ~Holds(content[s], Offset(v, s))
<1>1. w \in 0 .. v - 1
  BY PrimeProbeAssumption DEF WayIds
<1>2. Newer(content[s], Offset(w, s), Offset(v, s))
  BY <1>1 DEF Ordered
<1> SUFFICES ASSUME NEW k \in 1 .. Len(content[s]),
                    content[s][k] = Offset(v, s)
             PROVE  FALSE
  BY DEF Holds
<1>3. PICK j \in 1 .. k - 1 : content[s][j] = Offset(w, s)
  BY <1>2 DEF Newer
<1>4. j \in 1 .. Len(content[s])
  OBVIOUS
<1> QED
  BY <1>3, <1>4 DEF Holds

LEMMA ResultInit == Init => ResultInv
BY DEF Init, ResultInv, Done

(* A result stands while nothing but noise outside of the calm is added.   *)
LEMMA ShownKept ==
  ASSUME NEW s \in SetIds, NEW u \in WayIds, Shown(s, u), IsFiniteSet(noise'[s]),
         \A v \in WayIds : Outcome(s, v)' = Outcome(s, v),
         \A v \in WayIds : Done(s, v)' <=> Done(s, v),
         \A v \in WayIds :
           Holds(content'[s], Offset(v, s)) => Holds(content[s], Offset(v, s)),
         noise[s] \subseteq noise'[s],
         calm'[s] => calm[s] /\ noise'[s] = noise[s]
  PROVE  Shown(s, u)'
<1>0. u \in Nat /\ Ways \in Nat /\ \A v \in u + 1 .. Ways - 1 : v \in WayIds
  BY PrimeProbeAssumption DEF WayIds
<1>1. Outcome(s, u)' = Outcome(s, u)
  OBVIOUS
<1>2. /\ Cardinality(noise[s]) \in Nat /\ Cardinality(noise'[s]) \in Nat
      /\ Cardinality(noise[s]) <= Cardinality(noise'[s])
  BY FS_Subset, FS_CardinalityType
<1>3. ASSUME Outcome(s, u)' = "miss"
      PROVE  /\ Ways - u <= Cardinality(noise'[s])
             /\ \A v \in u + 1 .. Ways - 1 :
                  IF Done(s, v)' THEN Outcome(s, v)' = "miss"
                  ELSE ~Holds(content'[s], Offset(v, s))
  <2>1. /\ Ways - u <= Cardinality(noise[s])
        /\ \A v \in u + 1 .. Ways - 1 :
             IF Done(s, v) THEN Outcome(s, v) = "miss"
             ELSE ~Holds(content[s], Offset(v, s))
    BY <1>1, <1>3 DEF Shown
  <2> QED
    BY <1>0, <1>2, <2>1
<1>4. calm'[s] /\ Outcome(s, u)' = "hit" => u + Cardinality(noise'[s]) < Ways
  BY <1>1 DEF Shown
<1>5. Outcome(s, u)' \in {"hit", "miss"}
  BY <1>1 DEF Shown
<1> QED
  BY <1>3, <1>4, <1>5 DEF Shown, Holds, Offset

LEMMA ResultStep ==
  LoopInv /\ CacheInv /\ HistInv /\ OrderInv /\ ResultInv /\ [Next]_vars
    => ResultInv'
<1> SUFFICES ASSUME LoopInv, CacheInv, HistInv, OrderInv, ResultInv, [Next]_vars,
                    NEW s \in SetIds, NEW u \in WayIds, Done(s, u)'
             PROVE  Shown(s, u)'
  BY DEF ResultInv, SetIds, WayIds
<1>0. /\ u \in Nat /\ Ways \in Nat /\ \A v \in u + 1 .. Ways - 1 : v \in WayIds
      /\ Done(s, u) => Shown(s, u)
      /\ IsFiniteSet(noise[s]) /\ IsFiniteSet(noise'[s])
  <2>1. HistInv'
    BY HistKept
  <2> QED
    BY <2>1, PrimeProbeAssumption DEF WayIds, ResultInv, HistInv, SetIds
<1>1. CASE PrimeLine
  BY <1>1, PrimeLoads
<1>2. CASE Yield
  BY <1>2, YieldLoadsNothing
<1>3. CASE ProbeLine
  <2>0. /\ UNCHANGED <<noise, calm>> /\ way \in WayIds /\ set \in SetIds
        /\ Access(Offset(way, set))
    BY <1>3 DEF ProbeLine, histVars, LoopInv
  <2>1. /\ Accessed(content[set], content'[set], Offset(way, set))
        /\ \A t \in SetIds \ {set} : content'[t] = content[t]
    BY <2>0, ScanStep
  <2>2. /\ \A v \in WayIds : Loaded(s, v)
        /\ \A v \in WayIds : Done(s, v)' <=> Done(s, v) \/ (s = set /\ v = way)
    BY <1>3, ProbeTimes
  <2>3. \A v \in WayIds :
          Outcome(s, v)' =
            IF s = set /\ v = way
            THEN IF Holds(content[set], Offset(way, set)) THEN "hit" ELSE "miss"
            ELSE Outcome(s, v)
    BY <1>3, ProbeStores
  <2>4. \A v \in WayIds \ {way} :
          Holds(content'[set], Offset(v, set)) => Holds(content[set], Offset(v, set))
    <3> TAKE v \in WayIds \ {way}
    <3>1. Offset(v, set) # Offset(way, set)
      BY <2>0, OffsetInjective
    <3> QED
      BY <2>1, <3>1, AccessKeepsOut
  <2>5. CASE s # set
    <3>1. content'[s] = content[s]
      BY <2>1, <2>5
    <3>2. Shown(s, u)
      BY <1>0, <2>2, <2>5
    <3> QED
      BY <1>0, <2>0, <2>2, <2>3, <2>5, <3>1, <3>2, ShownKept
  <2>6. CASE s = set /\ u = way
    <3>1. Pending(s, u) /\ Ordered(s, u)
      BY <1>3, <2>2, <2>6, ProbeTimes DEF Pending, OrderInv
    <3>2. \A v \in 0 .. u - 1 : Loaded(s, v)
      BY <1>0, <2>2 DEF WayIds
    <3>3. ASSUME ~Holds(content[s], Offset(u, s))
          PROVE  /\ Ways - u <= Cardinality(noise'[s])
                 /\ \A v \in u + 1 .. Ways - 1 :
                      ~Done(s, v)' /\ ~Holds(content'[s], Offset(v, s))
      <4>1. Ways - u <= Cardinality(noise[s])
        BY <3>1, <3>2, <3>3, MissIsCovered
      <4>2. ASSUME NEW v \in u + 1 .. Ways - 1
            PROVE  ~Done(s, v)' /\ ~Holds(content'[s], Offset(v, s))
        <5>1. v \in WayIds /\ u < v /\ v # way
          BY <1>0, <2>6
        <5>2. ~Done(s, v)
          BY <1>0, <1>3, <2>0, <2>6, <5>1, PrimeProbeAssumption, ProbeTimes
             DEF WayIds, SetIds
        <5>3. Ordered(s, v)
          BY <2>2, <5>1, <5>2 DEF Pending, OrderInv
        <5>4. ~Holds(content[s], Offset(v, s))
          BY <2>2, <3>3, <5>1, <5>3, MissTakesTheRest
        <5> QED
          BY <2>2, <2>4, <2>6, <5>1, <5>2, <5>4
      <4> QED
        BY <2>0, <4>1, <4>2
    <3>4. ASSUME Holds(content[s], Offset(u, s)), calm'[s]
          PROVE  u + Cardinality(noise'[s]) < Ways
      BY <2>0, <3>1, <3>2, <3>4, HitHasRoom
    <3>5. Outcome(s, u)' =
            IF Holds(content[s], Offset(u, s)) THEN "hit" ELSE "miss"
      BY <2>3, <2>6
    <3> QED
      BY <3>3, <3>4, <3>5 DEF Shown, Holds, Offset
  <2>7. CASE s = set /\ u # way
    <3>1. Done(s, u) /\ Shown(s, u) /\ Outcome(s, u)' = Outcome(s, u)
      BY <1>0, <2>2, <2>3, <2>7
    <3>2. ASSUME Outcome(s, u)' = "miss", NEW v \in u + 1 .. Ways - 1
          PROVE  IF Done(s, v)' THEN Outcome(s, v)' = "miss"
                 ELSE ~Holds(content'[s], Offset(v, s))
      <4>0. v \in WayIds
        BY <1>0
      <4>1. IF Done(s, v) THEN Outcome(s, v) = "miss"
            ELSE ~Holds(content[s], Offset(v, s))
        BY <3>1, <3>2 DEF Shown
      <4>2. CASE v = way
        <5>1. ~Done(s, v)
          BY <1>3, <2>7, <4>0, <4>2, ProbeTimes
        <5> QED
          BY <2>2, <2>3, <2>7, <4>0, <4>1, <4>2, <5>1
      <4>3. CASE v # way
        BY <2>2, <2>3, <2>4, <2>7, <4>0, <4>1, <4>3
      <4> QED
        BY <4>2, <4>3
    <3>3. Outcome(s, u)' = "miss" => Ways - u <= Cardinality(noise'[s])
      BY <2>0, <3>1 DEF Shown
    <3>4. calm'[s] /\ Outcome(s, u)' = "hit" => u + Cardinality(noise'[s]) < Ways
      BY <2>0, <3>1 DEF Shown
    <3>5. Outcome(s, u)' \in {"hit", "miss"}
      BY <3>1 DEF Shown
    <3> QED
      BY <3>2, <3>3, <3>4, <3>5 DEF Shown, Holds, Offset
  <2> QED
    BY <2>5, <2>6, <2>7
<1>4. CASE NextRound
  BY <1>4, NextRoundForgets
<1>5. ASSUME NEW t \in SetIds, NEW f \in Foreign, ForeignAccess(t, f)
      PROVE  Shown(s, u)'
  <2>0. /\ UNCHANGED <<pc, set, way, index, result>>
        /\ content' = [content EXCEPT ![t] = Touch(t, f)]
    BY <1>5 DEF ForeignAccess, loopVars
  <2>1. /\ Accessed(content[t], content'[t], f)
        /\ \A r \in SetIds \ {t} : content'[r] = content[r]
    <3>1. f \in Universe
      BY DEF Universe
    <3> QED
      BY <2>0, <3>1, CacheStep
  <2>2. /\ \A v \in WayIds : Done(s, v)' <=> Done(s, v)
        /\ \A v \in WayIds : Outcome(s, v)' = Outcome(s, v)
    BY <2>0 DEF Done, Outcome
  <2>3. \A v \in WayIds :
          Holds(content'[s], Offset(v, s)) => Holds(content[s], Offset(v, s))
    <3> TAKE v \in WayIds
    <3>1. f # Offset(v, s)
      BY OffsetInBuffer, PrimeProbeAssumption DEF Lines
    <3> QED
      BY <2>1, <3>1, AccessKeepsOut
  <2>4. noise[s] \subseteq noise'[s] /\ (calm'[s] => calm[s] /\ noise'[s] = noise[s])
    <3>1. CASE s = t /\ Started(t) /\ ~Probed(t)
      <4>1. Probing(t)
        BY <2>0, <3>1, PrimeProbeAssumption
           DEF Done, Probed, Probing, LoopInv, WayIds, SetIds
      <4>2. /\ noise' = [noise EXCEPT ![t] = @ \cup {f}]
            /\ calm' = [calm EXCEPT ![t] = @ /\ Primed(t) /\ ~Probing(t)]
        BY <1>5, <3>1 DEF ForeignAccess
      <4> QED
        BY <3>1, <4>1, <4>2 DEF HistInv
    <3>2. CASE ~(s = t /\ Started(t) /\ ~Probed(t))
      <4>1. noise'[s] = noise[s] /\ calm'[s] = calm[s]
        BY <1>5, <3>2 DEF ForeignAccess, histVars, HistInv
      <4> QED
        BY <4>1
    <3> QED
      BY <3>1, <3>2
  <2>5. Shown(s, u)
    BY <1>0, <2>2
  <2> QED
    BY <1>0, <2>2, <2>3, <2>4, <2>5, ShownKept
<1>6. CASE UNCHANGED vars
  <2>1. UNCHANGED <<pc, set, way, content, noise, calm, result>>
    BY <1>6 DEF vars, loopVars, histVars
  <2>2. /\ \A v \in WayIds : Done(s, v)' <=> Done(s, v)
        /\ \A v \in WayIds : Outcome(s, v)' = Outcome(s, v)
    BY <2>1 DEF Done, Outcome
  <2> QED
    BY <1>0, <2>1, <2>2, ShownKept
<1> QED
  BY <1>1, <1>2, <1>3, <1>4, <1>5, <1>6 DEF Next, Measurement

(* A set of numbers has a smallest one.                                    *)
LEMMA SmallestExists ==
  ASSUME NEW M \in SUBSET Nat, M # {}
  PROVE  \E a \in M : \A u \in M : a <= u
<1> DEFINE R == {p \in Nat \X Nat : p[1] < p[2]}
<1>1. IsWellFoundedOn(R, Nat)
  BY NatLessThanWellFounded DEF OpToRel
<1>2. PICK a \in M : \A u \in M : ~(<<u, a>> \in R)
  <2> HIDE DEF R
  <2> QED
    BY <1>1, WFMin
<1>3. ASSUME NEW u \in M, ~(a <= u) PROVE FALSE
  <2>1. <<u, a>> \in R
    BY <1>3
  <2> QED
    BY <1>2, <2>1
<1> QED
  BY <1>3

LEMMA InvInit == Init => Inv
BY LoopInit, CacheInit, HistInit, OrderInit, ResultInit DEF Inv

LEMMA InvStep == Inv /\ [Next]_vars => Inv'
BY LoopStep, CacheKept, HistKept, OrderStep, ResultStep DEF Inv

(* index never runs past the end of the result array.                      *)
LEMMA IndexStep ==
  LoopInv /\ index \in 0 .. Sets * Ways /\ [Next]_vars
    => (index \in 0 .. Sets * Ways)'
<1> SUFFICES ASSUME LoopInv, index \in 0 .. Sets * Ways, [Next]_vars
             PROVE  index' \in 0 .. Sets * Ways
  BY PrimeProbeAssumption
<1>1. Sets * Ways \in Nat
  BY PrimeProbeAssumption
<1>2. CASE ProbeLine
  <2>1. index \in Lines /\ index' = index + 1
    BY <1>2, IndexInResult DEF ProbeLine, LoopInv
  <2> QED
    BY <1>1, <2>1 DEF Lines
<1> QED
  BY <1>1, <1>2
     DEF Next, Measurement, PrimeLine, Yield, NextRound, ForeignAccess,
         loopVars, vars

(* The variables of prime and probe stay in range, and no cache set holds  *)
(* more than Ways lines, or one of them twice.                             *)
THEOREM TypeCorrect == Spec => []TypeOK
<1> DEFINE IndexInv == index \in 0 .. Sets * Ways
<1>1. Init => IndexInv
  BY PrimeProbeAssumption DEF Init
<1>2. Inv /\ IndexInv => TypeOK
  <2> SUFFICES ASSUME Inv, IndexInv PROVE TypeOK
    OBVIOUS
  <2>1. ASSUME NEW s \in SetIds
        PROVE  Len(content[s]) <= Ways /\ IsInjective(content[s])
    <3>1. content[s] \in Seq(Universe) /\ Len(content[s]) <= Ways
          /\ Distinct(content[s])
      BY DEF Inv, CacheInv
    <3>2. DOMAIN content[s] = 1 .. Len(content[s])
      BY <3>1, LenProperties
    <3> QED
      BY <3>1, <3>2 DEF Distinct, IsInjective
  <2> QED
    BY <2>1 DEF TypeOK, Inv, LoopInv, HistInv, CacheInv
<1>3. Inv /\ IndexInv /\ [Next]_vars => IndexInv'
  BY IndexStep DEF Inv
<1> HIDE DEF IndexInv
<1> QED
  BY <1>1, <1>2, <1>3, InvInit, InvStep, PTL DEF Spec

LEMMA ProbedIsShown ==
  ASSUME Inv, NEW s \in SetIds, Probed(s)
  PROVE  \A u \in WayIds : Done(s, u) /\ Shown(s, u)
BY PrimeProbeAssumption
   DEF Inv, LoopInv, ResultInv, SetIds, WayIds, Probed, Done

(* A row that ends in misses from way a on has exactly those misses.       *)
LEMMA MissesAreTheLast ==
  ASSUME Inv, NEW s \in SetIds, Probed(s)
  PROVE  \E a \in 0 .. Ways :
           /\ Misses(s) = a .. Ways - 1
           /\ a < Ways => Ways - a <= Cardinality(noise[s])
<1>0. /\ Ways \in Nat \ {0} /\ WayIds \subseteq Nat
      /\ \A u \in WayIds : \A v \in u + 1 .. Ways - 1 : v \in WayIds
  BY PrimeProbeAssumption DEF WayIds
<1>1. \A u \in WayIds : u \in Misses(s) <=> Outcome(s, u) = "miss"
  BY DEF Misses, Outcome
<1>2. \A u \in Misses(s) : /\ Ways - u <= Cardinality(noise[s])
                           /\ u + 1 .. Ways - 1 \subseteq Misses(s)
  <2> TAKE u \in Misses(s)
  <2>1. u \in WayIds /\ Outcome(s, u) = "miss"
    BY <1>1 DEF Misses
  <2>2. Shown(s, u) /\ \A v \in WayIds : Done(s, v)
    BY <2>1, ProbedIsShown
  <2>3. \A v \in u + 1 .. Ways - 1 : v \in Misses(s)
    BY <1>0, <1>1, <2>1, <2>2 DEF Shown
  <2> QED
    BY <2>1, <2>2, <2>3 DEF Shown
<1>3. Misses(s) \subseteq WayIds
  BY DEF Misses
<1>4. CASE Misses(s) = {}
  <2>1. Misses(s) = Ways .. Ways - 1
    BY <1>0, <1>4
  <2> QED
    BY <1>0, <2>1
<1>5. CASE Misses(s) # {}
  <2>1. PICK a \in Misses(s) : \A u \in Misses(s) : a <= u
    <3> DEFINE M == Misses(s)
    <3>1. M # {} /\ M \subseteq Nat
      BY <1>0, <1>3, <1>5
    <3> HIDE DEF M
    <3>2. \E a \in M : \A u \in M : a <= u
      BY <3>1, SmallestExists
    <3> QED
      BY <3>2 DEF M
  <2>2. a \in WayIds /\ a \in 0 .. Ways - 1
    BY <1>3 DEF WayIds
  <2>3. Misses(s) = a .. Ways - 1
    <3>1. Misses(s) \subseteq a .. Ways - 1
      BY <1>0, <1>3, <2>1, <2>2 DEF WayIds
    <3>2. ASSUME NEW v \in a .. Ways - 1 PROVE v \in Misses(s)
      BY <1>0, <1>2, <2>1, <2>2, <3>2
    <3> QED
      BY <3>1, <3>2
  <2> QED
    BY <1>0, <1>2, <2>1, <2>2, <2>3
<1> QED
  BY <1>4, <1>5

(* Whoever interferes and when, the misses of a row are its highest ways   *)
(* and no more than the foreign lines used in that set: a set nobody else  *)
(* touches shows none.                                                     *)
THEOREM MissesBounded == Spec => []MissesBoundedByNoise
<1>1. Inv => MissesBoundedByNoise
  <2> SUFFICES ASSUME Inv, NEW s \in SetIds, Probed(s)
               PROVE  /\ Cardinality(Misses(s)) <= Cardinality(noise[s])
                      /\ Misses(s) = Ways - Cardinality(Misses(s)) .. Ways - 1
    BY DEF MissesBoundedByNoise
  <2>1. PICK a \in 0 .. Ways :
               /\ Misses(s) = a .. Ways - 1
               /\ a < Ways => Ways - a <= Cardinality(noise[s])
    BY MissesAreTheLast
  <2>2. Ways \in Nat /\ a \in Nat /\ Cardinality(noise[s]) \in Nat
    BY PrimeProbeAssumption, FS_CardinalityType DEF Inv, HistInv
  <2>3. Cardinality(Misses(s)) = Ways - a
    <3>1. Cardinality(a .. Ways - 1) = IF a > Ways - 1 THEN 0 ELSE Ways - 1 - a + 1
      BY <2>2, FS_Interval
    <3> QED
      BY <2>1, <2>2, <3>1
  <2>4. Ways - (Ways - a) = a /\ (Ways - a <= Cardinality(noise[s]))
    BY <2>1, <2>2
  <2> QED
    BY <2>1, <2>3, <2>4
<1> QED
  BY <1>1, InvInit, InvStep, PTL DEF Spec

(* Used only between prime and probe of a set, foreign lines are counted   *)
(* exactly, up to the number of ways.                                      *)
THEOREM CalmSetsCount == Spec => []MissesCountNoise
<1>1. Inv => MissesCountNoise
  <2> SUFFICES ASSUME Inv, NEW s \in SetIds, Probed(s), calm[s]
               PROVE  Misses(s) =
                        Ways - Min({Cardinality(noise[s]), Ways}) .. Ways - 1
    BY DEF MissesCountNoise
  <2> DEFINE n == Cardinality(noise[s])
             m == Min({n, Ways})
  <2>0. Ways \in Nat \ {0} /\ n \in Nat
    BY PrimeProbeAssumption, FS_CardinalityType DEF Inv, HistInv
  <2>1. m = IF n <= Ways THEN n ELSE Ways
    BY <2>0 DEF Min
  <2>2. \A u \in WayIds : u \in Misses(s) <=> u + n >= Ways
    <3> TAKE u \in WayIds
    <3>1. u \in Misses(s) <=> Outcome(s, u) = "miss"
      BY DEF Misses, Outcome
    <3>2. Shown(s, u) /\ u \in Nat
      BY ProbedIsShown, PrimeProbeAssumption DEF WayIds
    <3> HIDE DEF m
    <3> QED
      BY <2>0, <3>1, <3>2 DEF Shown
  <2> HIDE DEF n, m
  <2>3. \A u : u \in Misses(s) => u \in WayIds
    BY DEF Misses
  <2>4. \A u : u \in Misses(s) <=> u \in Ways - m .. Ways - 1
    <3> TAKE u
    <3>1. u \in WayIds <=> u \in 0 .. Ways - 1
      BY DEF WayIds
    <3> QED
      BY <2>0, <2>1, <2>2, <2>3, <3>1
  <2> QED
    BY <2>4 DEF n, m
<1> QED
  BY <1>1, InvInit, InvStep, PTL DEF Spec

(* A timed access of probe throws no line of its set out that still has to *)
(* be timed, if the lines are visited against the order of prime.          *)
THEOREM UnprobedAreSpared == Spec => ProbeSparesTheUnprobed
<1>1. Inv /\ [Next]_vars =>
        [ProbeLine =>
           \A w \in way + 1 .. Ways - 1 :
             LET l == Offset(w, set)
             IN  Cached(CacheSet(l), l) => l \in ToSet(content'[CacheSet(l)])]_vars
  <2> SUFFICES ASSUME Inv, ProbeLine, NEW w \in way + 1 .. Ways - 1,
                      Cached(CacheSet(Offset(w, set)), Offset(w, set))
               PROVE  Offset(w, set) \in ToSet(content'[CacheSet(Offset(w, set))])
    OBVIOUS
  <2>0. LoopInv /\ CacheInv /\ HistInv /\ OrderInv
    BY DEF Inv
  <2>1. /\ set \in SetIds /\ way \in WayIds /\ w \in WayIds /\ way \in 0 .. w - 1
        /\ way # w /\ pc = "probe" /\ Access(Offset(way, set))
    BY <2>0, PrimeProbeAssumption DEF LoopInv, WayIds, ProbeLine
  <2>2. CacheSet(Offset(w, set)) = set
    BY <2>1, SetOfLine
  <2>3. Holds(content[set], Offset(w, set))
    BY <2>0, <2>1, <2>2, CachedIsHeld
  <2>4. /\ CacheInv'
        /\ Accessed(content[set], content'[set], Offset(way, set))
    BY <2>0, <2>1, ScanStep
  <2>5. Pending(set, w) /\ Loaded(set, way)
    BY <2>1, PrimeProbeAssumption DEF Pending, Loaded, Done, WayIds, SetIds
  <2>6. Newer(content[set], Offset(way, set), Offset(w, set))
    BY <2>0, <2>1, <2>5 DEF OrderInv, Ordered
  <2>7. Holds(content[set], Offset(way, set))
    <3>1. PICK k \in 1 .. Len(content[set]) : content[set][k] = Offset(w, set)
      BY <2>3 DEF Holds
    <3>2. PICK j \in 1 .. k - 1 : content[set][j] = Offset(way, set)
      BY <2>6, <3>1 DEF Newer
    <3>3. j \in 1 .. Len(content[set])
      OBVIOUS
    <3> QED
      BY <3>2, <3>3 DEF Holds
  <2>8. Offset(w, set) # Offset(way, set)
    BY <2>1, OffsetInjective
  <2>9. Holds(content'[set], Offset(w, set))
    BY <2>3, <2>4, <2>7, <2>8, AccessKeepsOut
  <2>10. DOMAIN content'[set] = 1 .. Len(content'[set])
    BY <2>1, <2>4, LenProperties DEF CacheInv, SetIds
  <2> QED
    BY <2>2, <2>9, <2>10 DEF ToSet, Holds
<1> QED
  BY <1>1, InvInit, InvStep, PTL DEF Spec, ProbeSparesTheUnprobed
=============================================================================
