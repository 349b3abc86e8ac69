---------------------------- MODULE ToggleSMTProofs ---------------------------
(***************************************************************************)
(* Theorems about ToggleSMT, for every CPU, whichever threads are online   *)
(* when the script begins and whichever of its calls fails.                *)
(***************************************************************************)
EXTENDS ToggleSMT, TLAPS, FiniteSetTheorems

(* What was read is what was online; threads without a topology share one  *)
(* group, which has the key of no physical core.                           *)
ScanInv ==
  /\ 0 \in before
  /\ \A c \in scanned : c \in up <=> c \in before
  /\ \A c \in Cores : group[c] = IF c \in up THEN machine.coreId[c] ELSE Unknown

(* Nothing is switched before everything is read and the prompt answered.  *)
PhaseInv ==
  /\ pc \in {"scan", "prompt"} => choice = "none"
  /\ choice = "none" => handled = {}
  /\ pc = "prompt" \/ choice # "none" => scanned = Cores
  /\ pc = "apply" => choice \in {"e", "d"}
  /\ pc = "done" => choice = "other" \/ handled = Cores
  /\ choice = "other" => pc = "done" /\ handled = {}

(* A thread whose turn has not come is as it was; one whose turn has come  *)
(* is as it is wanted, unless its write is the one that failed.            *)
SwitchInv ==
  \A c \in Cores :
    \/ (c \in online <=> c \in before) /\ (c \notin handled \/ pc = "failed")
    \/ c \in handled /\ (c \in online <=> Wanted(c))

Inv == TypeOK /\ ScanInv /\ PhaseInv /\ SwitchInv

-----------------------------------------------------------------------------
(* The order of the threads                                                *)

LEMMA Keys ==
  /\ Unknown \in Nat /\ Unknown \in 0 .. Unknown
  /\ \A x \in 0 .. Unknown : x \in Nat /\ ~(x < x)
  /\ \A x \in 0 .. Unknown - 1 : x \in 0 .. Unknown /\ x # Unknown
<1>1. Unknown \in Nat
  BY DEF Unknown
<1> QED
  BY <1>1

(* Every group has a first thread.                                         *)
LEMMA LeaderExists ==
  ASSUME TypeOK, NEW c \in Cores
  PROVE  \E l \in Cores : group[l] = group[c] /\ Leads(l)
<1> DEFINE Mates == {d \in Cores : group[d] = group[c]}
           Ranks == {Rank[d] : d \in Mates}
           R == {p \in Nat \X Nat : p[1] < p[2]}
<1>1. Rank \in [Cores -> Nat] /\ group \in [Cores -> 0 .. Unknown]
  BY ToggleAssumption DEF TypeOK
<1>2. Ranks \subseteq Nat /\ Ranks # {}
  BY <1>1
<1>3. IsWellFoundedOn(R, Nat)
  BY NatLessThanWellFounded DEF OpToRel
<1>4. PICK r \in Ranks : \A s \in Ranks : ~(<<s, r>> \in R)
  <2> HIDE DEF R, Ranks
  <2> QED
    BY <1>2, <1>3, WFMin
<1>5. PICK l \in Mates : Rank[l] = r
  OBVIOUS
<1>6. \A d \in Mates : ~(Rank[d] < Rank[l])
  BY <1>1, <1>4, <1>5
<1>7. ASSUME NEW d \in Cores, group[d] = group[l] PROVE ~Precedes(d, l)
  <2>1. d \in Mates /\ ~(group[d] < group[l])
    BY <1>1, <1>5, <1>7, Keys
  <2> QED
    BY <1>6, <2>1 DEF Precedes
<1> QED
  BY <1>5, <1>7 DEF Leads

(* No group has two.                                                       *)
LEMMA LeaderIsUnique ==
  ASSUME TypeOK, NEW c \in Cores, NEW d \in Cores,
         group[c] = group[d], Leads(c), Leads(d)
  PROVE  c = d
<1>1. ~(Rank[c] < Rank[d]) /\ ~(Rank[d] < Rank[c])
  BY DEF Leads, Precedes
<1>2. Rank[c] \in Nat /\ Rank[d] \in Nat
  BY ToggleAssumption
<1>3. Rank[c] = Rank[d]
  BY <1>1, <1>2
<1> QED
  BY <1>3, ToggleAssumption

LEMMA ZeroLeads == TypeOK => Leads(0)
<1> SUFFICES ASSUME TypeOK, NEW d \in Cores, group[d] = group[0]
             PROVE  ~Precedes(d, 0)
  BY DEF Leads
<1>1. /\ Rank[0] \in Nat /\ Rank[d] \in Nat /\ Rank[0] <= Rank[d]
      /\ group[d] \in 0 .. Unknown
  BY ToggleAssumption DEF TypeOK
<1> QED
  BY <1>1, Keys DEF Precedes

(* On threads that were read as online, groups are physical cores.         *)
LEMMA GroupsAreCores ==
  ASSUME Inv, scanned = Cores
  PROVE  /\ up = before
         /\ \A c \in before : group[c] = machine.coreId[c]
         /\ \A c \in before, d \in Cores :
              group[d] = group[c] => d \in before
         /\ \A c \in Cores \ before : group[c] = Unknown
<1>1. up = before
  BY DEF Inv, ScanInv, TypeOK
<1>2. \A c \in Cores : machine.coreId[c] \in 0 .. Unknown - 1
  BY ToggleAssumption DEF Inv, TypeOK
<1>3. before \subseteq Cores
  BY DEF Inv, TypeOK
<1> QED
  BY <1>1, <1>2, <1>3, Keys DEF Inv, ScanInv

-----------------------------------------------------------------------------
(* The invariant                                                           *)

LEMMA InitInv == Init => Inv
<1> SUFFICES ASSUME Init PROVE Inv
  OBVIOUS
<1>1. TypeOK
  BY DEF Init, TypeOK, Unknown
<1>2. ScanInv /\ PhaseInv /\ SwitchInv
  BY DEF Init, ScanInv, PhaseInv, SwitchInv
<1> QED
  BY <1>1, <1>2 DEF Inv

LEMMA ScanStep ==
  ASSUME Inv, NEW c \in Cores, Scan(c)
  PROVE  Inv'
<1>1. /\ pc = "scan" /\ c \notin scanned /\ choice = "none" /\ handled = {}
      /\ UNCHANGED <<machine, before, online, choice, handled>>
      /\ online = before
  <2>1. pc = "scan" /\ c \notin scanned /\ choice = "none" /\ handled = {}
          /\ UNCHANGED <<machine, before, online, choice, handled>>
    BY DEF Scan, Inv, PhaseInv
  <2> QED
    BY <2>1 DEF Inv, SwitchInv, TypeOK
<1>2. SwitchInv'
  BY <1>1 DEF SwitchInv
<1>3. machine.coreId[c] \in 0 .. Unknown - 1
  BY ToggleAssumption DEF Inv, TypeOK
<1>4. CASE /\ scanned' = scanned \cup {c}
           /\ IF c \in online
              THEN /\ up' = up \cup {c}
                   /\ group' = [group EXCEPT ![c] = machine.coreId[c]]
              ELSE UNCHANGED <<up, group>>
           /\ pc' = IF scanned' = Cores THEN "prompt" ELSE pc
  <2>1. group' \in [Cores -> 0 .. Unknown]
    BY <1>3, <1>4, Keys DEF Inv, TypeOK
  <2>2. TypeOK'
    BY <1>1, <1>4, <2>1 DEF Inv, TypeOK
  <2>3. ScanInv'
    BY <1>1, <1>4 DEF Inv, TypeOK, ScanInv
  <2>4. PhaseInv'
    BY <1>1, <1>4 DEF Inv, PhaseInv
  <2> QED
    BY <1>2, <2>2, <2>3, <2>4 DEF Inv
<1>5. CASE pc' = "failed" /\ UNCHANGED <<scanned, up, group>>
  BY <1>1, <1>2, <1>5 DEF Inv, TypeOK, ScanInv, PhaseInv
<1> QED
  BY <1>4, <1>5 DEF Scan, Fail

LEMMA PromptStep == Inv /\ Prompt => Inv'
<1> SUFFICES ASSUME Inv, Prompt PROVE Inv'
  OBVIOUS
<1>1. /\ pc = "prompt" /\ choice = "none" /\ handled = {} /\ scanned = Cores
      /\ UNCHANGED <<machine, before, online, scanned, up, group, handled>>
      /\ choice' \in {"e", "d", "other"}
      /\ pc' = IF choice' = "other" THEN "done" ELSE "apply"
  BY DEF Prompt, Inv, PhaseInv
<1>2. TypeOK' /\ ScanInv' /\ PhaseInv'
  BY <1>1 DEF Inv, TypeOK, ScanInv, PhaseInv
<1>3. SwitchInv'
  BY <1>1 DEF Inv, SwitchInv
<1> QED
  BY <1>2, <1>3 DEF Inv

LEMMA ApplyStep ==
  ASSUME Inv, NEW c \in Cores, Apply(c)
  PROVE  Inv'
<1>1. /\ pc = "apply" /\ choice \in {"e", "d"} /\ scanned = Cores
      /\ c \notin handled /\ handled' = handled \cup {c}
      /\ UNCHANGED <<machine, before, choice, scanned, up, group>>
  BY DEF Apply, Turn, Inv, PhaseInv
<1>2. c \in up <=> c \in before
  BY <1>1, GroupsAreCores
<1>3. c \in online <=> c \in before
  BY <1>1 DEF Inv, SwitchInv
<1>4. \A d \in Cores : Wanted(d)' <=> Wanted(d)
  BY <1>1 DEF Wanted, Leads, Precedes
<1>5. /\ online' \subseteq Cores /\ \A d \in Cores \ {c} :
           d \in online' <=> d \in online
      /\ \/ /\ pc' = IF handled' = Cores THEN "done" ELSE pc
            /\ c \in online' <=> Wanted(c)
         \/ pc' = "failed" /\ (c \in online' <=> c \in before)
  <2>1. CASE /\ Wanted(c) = (c \in up) /\ UNCHANGED online
             /\ pc' = IF handled \cup {c} = Cores THEN "done" ELSE pc
    BY <1>1, <1>2, <1>3, <2>1 DEF Inv, TypeOK
  <2>2. CASE /\ Switch(c)
             /\ pc' = IF handled \cup {c} = Cores THEN "done" ELSE pc
    BY <1>1, <2>2 DEF Switch, Inv, TypeOK
  <2>3. CASE pc' = "failed" /\ UNCHANGED online
    BY <1>3, <2>3 DEF Inv, TypeOK
  <2> QED
    BY <2>1, <2>2, <2>3 DEF Apply
<1>6. TypeOK' /\ ScanInv' /\ PhaseInv'
  BY <1>1, <1>5 DEF Inv, TypeOK, ScanInv, PhaseInv
<1>7. SwitchInv'
  <2> SUFFICES ASSUME NEW d \in Cores
               PROVE  \/ /\ d \in online' <=> d \in before'
                         /\ d \notin handled' \/ pc' = "failed"
                      \/ d \in handled' /\ (d \in online' <=> Wanted(d)')
    BY DEF SwitchInv
  <2>1. CASE d = c
    BY <1>1, <1>4, <1>5, <2>1
  <2>2. CASE d # c
    <3>1. \/ (d \in online <=> d \in before) /\ d \notin handled
          \/ d \in handled /\ (d \in online <=> Wanted(d))
      BY <1>1 DEF Inv, SwitchInv
    <3> QED
      BY <1>1, <1>4, <1>5, <2>2, <3>1
  <2> QED
    BY <2>1, <2>2
<1> QED
  BY <1>6, <1>7 DEF Inv

LEMMA Invariant == Spec => []Inv
<1>1. Inv /\ [Next]_vars => Inv'
  <2> SUFFICES ASSUME Inv, [Next]_vars PROVE Inv'
    OBVIOUS
  <2>1. CASE UNCHANGED vars
    <3>1. \A d \in Cores : Wanted(d)' <=> Wanted(d)
      BY <2>1 DEF vars, Wanted, Leads, Precedes
    <3>2. TypeOK' /\ ScanInv' /\ PhaseInv'
      BY <2>1 DEF vars, Inv, TypeOK, ScanInv, PhaseInv
    <3>3. SwitchInv'
      BY <2>1, <3>1 DEF vars, Inv, SwitchInv
    <3> QED
      BY <3>2, <3>3 DEF Inv
  <2> QED
    BY <2>1, ScanStep, PromptStep, ApplyStep DEF Next, Ended
<1> QED
  BY <1>1, InitInv, PTL DEF Spec

(* Every variable keeps its type; in particular no thread is switched that *)
(* was not read, and none that the CPU does not have.                      *)
THEOREM TypeCorrect == Spec => []TypeOK
<1>1. Inv => TypeOK
  BY DEF Inv
<1> QED
  BY <1>1, Invariant, PTL

-----------------------------------------------------------------------------
(* What the script does to the machine                                     *)

LEMMA AfterTheScan == Inv /\ choice # "none" => scanned = Cores
BY DEF Inv, PhaseInv

(* No write to the online file that thread 0 does not have is ever tried,  *)
(* whatever threads share its core: it comes first in its group, and was   *)
(* online.                                                                 *)
THEOREM ZeroIsNotWritten == Spec => []ZeroIsLeftAlone
<1>1. Inv => ZeroIsLeftAlone
  <2> SUFFICES ASSUME Inv, 0 \in handled PROVE Wanted(0) /\ 0 \in up
    BY DEF ZeroIsLeftAlone
  <2>1. choice # "none"
    BY DEF Inv, PhaseInv
  <2>2. up = before /\ 0 \in before
    BY <2>1, AfterTheScan, GroupsAreCores DEF Inv, ScanInv
  <2> QED
    BY <2>2, ZeroLeads DEF Inv, Wanted
<1> QED
  BY <1>1, Invariant, PTL

(* If core_id names a physical core, each of them keeps a thread that was  *)
(* online: its first one, at every moment of the script and after a failed *)
(* call, however many threads there are per core and in whatever order they*)
(* are numbered.                                                           *)
THEOREM CoresStayLit == Spec => []NoCoreGoesDark
<1>1. Inv => NoCoreGoesDark
  <2> SUFFICES ASSUME Inv, IdsAreUnique, NEW c \in before
               PROVE  Siblings(c) \cap online # {}
    BY DEF NoCoreGoesDark
  <2>0. TypeOK /\ c \in Cores /\ before \subseteq Cores
    BY DEF Inv, TypeOK
  <2>1. CASE handled = {}
    <3>1. c \in online
      BY <2>0, <2>1 DEF Inv, SwitchInv
    <3> QED
      BY <2>0, <3>1 DEF Siblings
  <2>2. CASE handled # {}
    <3>1. scanned = Cores
      BY <2>2, AfterTheScan DEF Inv, PhaseInv
    <3>2. PICK l \in Cores : group[l] = group[c] /\ Leads(l)
      BY <2>0, LeaderExists
    <3>3. l \in before
      BY <3>1, <3>2, GroupsAreCores
    <3>4. machine.coreId[l] = machine.coreId[c]
      BY <3>1, <3>2, <3>3, GroupsAreCores
    <3>5. l \in Siblings(c)
      BY <2>0, <3>4 DEF IdsAreUnique, Siblings
    <3>6. l \in online
      BY <3>2, <3>3 DEF Inv, SwitchInv, Wanted
    <3> QED
      BY <3>5, <3>6
  <2> QED
    BY <2>1, <2>2
<1> QED
  BY <1>1, Invariant, PTL

(* 'd' brings at most one thread back that was offline: the threads whose  *)
(* core is not known form one group, and only its first one is enabled.    *)
THEOREM AtMostOneRevived == Spec => []DisableRevivesOne
<1>1. Inv => DisableRevivesOne
  <2> SUFFICES ASSUME Inv, choice = "d"
               PROVE  Cardinality(online \ before) <= 1
    BY DEF DisableRevivesOne
  <2>0. TypeOK /\ online \subseteq Cores
    BY DEF Inv, TypeOK
  <2>1. \A c \in online \ before : Leads(c) /\ group[c] = Unknown
    BY <2>0, AfterTheScan, GroupsAreCores DEF Inv, SwitchInv, Wanted
  <2>2. \A c, d \in online \ before : c = d
    BY <2>0, <2>1, LeaderIsUnique
  <2>3. CASE online \ before = {}
    BY <2>3, FS_EmptySet
  <2>4. CASE online \ before # {}
    <3>1. PICK c \in online \ before : TRUE
      BY <2>4
    <3>2. online \ before = {c}
      BY <2>2, <3>1
    <3> QED
      BY <3>2, FS_Singleton
  <2> QED
    BY <2>3, <2>4
<1> QED
  BY <1>1, Invariant, PTL

(* When the script comes to its end, 'e' has brought every thread online,  *)
(* and 'd' on a CPU with all threads online has left exactly one for each  *)
(* physical core.                                                          *)
THEOREM ChoiceHolds == Spec => []ChoiceIsCarriedOut
<1>1. Inv => ChoiceIsCarriedOut
  <2> SUFFICES ASSUME Inv, pc = "done", choice \in {"e", "d"}
               PROVE  /\ choice = "e" => online = Cores
                      /\ choice = "d" /\ before = Cores /\ IdsAreUnique =>
                           \A c \in Cores :
                             Cardinality(Siblings(c) \cap online) = 1
    BY DEF ChoiceIsCarriedOut
  <2>0. /\ TypeOK /\ online \subseteq Cores /\ handled = Cores
        /\ scanned = Cores
    BY AfterTheScan DEF Inv, TypeOK, PhaseInv
  <2>1. \A c \in Cores : c \in online <=> Wanted(c)
    BY <2>0 DEF Inv, SwitchInv
  <2>2. ASSUME choice = "e" PROVE online = Cores
    BY <2>0, <2>1, <2>2 DEF Wanted
  <2>3. ASSUME choice = "d", before = Cores, IdsAreUnique, NEW c \in Cores
        PROVE  Cardinality(Siblings(c) \cap online) = 1
    <3>1. \A d \in Cores : group[d] = machine.coreId[d]
      BY <2>0, <2>3, GroupsAreCores
    <3>2. PICK l \in Cores : group[l] = group[c] /\ Leads(l)
      BY <2>0, LeaderExists
    <3>3. \A d \in Cores : d \in Siblings(c) <=> group[d] = group[c]
      BY <2>3, <3>1 DEF Siblings, IdsAreUnique
    <3>4. \A d \in Cores : d \in online <=> Leads(d)
      BY <2>1, <2>3 DEF Wanted
    <3>5. Siblings(c) \cap online = {l}
      BY <2>0, <3>2, <3>3, <3>4, LeaderIsUnique DEF Siblings
    <3> QED
      BY <3>5, FS_Singleton
  <2> QED
    BY <2>2, <2>3
<1> QED
  BY <1>1, Invariant, PTL
=============================================================================
