----------------------------- MODULE SetupProofs -----------------------------
(***************************************************************************)
(* Theorems about Setup, for every machine, command line and set of faults,*)
(* however often the tools of the repository are used meanwhile.           *)
(***************************************************************************)
EXTENDS Setup, TLAPS, FiniteSetTheorems

USE DEF sysVars, searchVars

SearchSteps == {"search", "file", "type"}

(* Past the binding main knows its core; the search stays inside the       *)
(* directories that were counted.                                          *)
TypeInv ==
  /\ TypeOK
  /\ pc = "bind" \/ request.core # -1 => core = request.core
  /\ pc \notin {"bind", "failed"} => core \in Cores
  /\ pc \in SearchSteps => count <= Len(machine[SysCore])
  /\ pc \in {"file", "type"} => i < count

-----------------------------------------------------------------------------
(* Facts about sets of indices, files and errors                           *)

LEMMA MinOfNaturals ==
  ASSUME NEW S \in SUBSET Nat, S # {}
  PROVE  Min(S) \in S /\ \A y \in S : Min(S) <= y
<1> DEFINE R == {p \in Nat \X Nat : p[1] < p[2]}
<1>1. IsWellFoundedOn(R, Nat)
  BY NatLessThanWellFounded DEF OpToRel
<1>2. PICK x \in S : \A y \in S : ~(<<y, x>> \in R)
  <2> HIDE DEF R
  <2> QED
    BY <1>1, WFMin
<1>3. ASSUME NEW y \in S, ~(x <= y) PROVE FALSE
  <2>1. <<y, x>> \in R
    BY <1>3
  <2> QED
    BY <1>2, <2>1
<1> QED
  BY <1>3 DEF Min

LEMMA FileNames ==
  /\ DOMAIN Files = 1 .. 5 /\ Len(Files) = 5
  /\ \A f \in 1 .. 5 : Files[f] \in Fields
  /\ \A f, g \in 1 .. 5 : Files[f] = Files[g] => f = g
  /\ Files[4] = "level" /\ "type" \in Fields
  /\ \A f \in 1 .. 5 : Files[f] # "type"
<1>1. DOMAIN Files = 1 .. 5 /\ Len(Files) = 5
  BY DEF Files
<1> QED
  BY <1>1 DEF Files, Fields

(* What the calls of main return are errors of the table's header.         *)
LEMMA KnownErrors ==
  ASSUME broken \subseteq Faults
  PROVE  /\ \A e \in Errors : Outside(e) \in Errors
         /\ {"none", "set_affinity", "get_cpu_core", "io_sys_cpu", "fmt",
             "cache_not_exists", "rdpmc", "io_rdpmc", "chmod",
             "hdf5_error", "io_hugepage_number", "no_hugepages",
             "mmap"} \subseteq Errors
         /\ \A f \in 1 .. 5 : FileError[f] \in Errors
         /\ file \in 1 .. 5 => FileErrors \subseteq Errors
<1>1. /\ {"none", "set_affinity", "get_cpu_core", "io_sys_cpu", "fmt",
          "cache_not_exists", "rdpmc", "io_rdpmc", "chmod",
          "hdf5_error", "io_hugepage_number", "no_hugepages",
          "mmap"} \subseteq Errors
      /\ {"io_line_size", "io_total_size", "io_set_number", "io_levels",
          "io_associativity"} \subseteq Errors
  BY DEF Errors, Number
<1>2. \A f \in 1 .. 5 : FileError[f] \in Errors
  BY <1>1 DEF FileError
<1>3. file \in 1 .. 5 => FileErrors \subseteq Errors
  BY <1>1, <1>2 DEF FileErrors
<1>4. \A e \in Errors : Outside(e) \in Errors
  BY <1>1 DEF Outside
<1> QED
  BY <1>1, <1>2, <1>3, <1>4

LEMMA MachineType ==
  ASSUME TypeOK, NEW c \in Cores
  PROVE  /\ machine[c] \in Seq(CacheDir) /\ Len(machine[c]) \in Nat \ {0}
         /\ c % ByteLimit \in Cores
         /\ \A k \in Indices(c) : k \in Nat /\ machine[c][k + 1] \in CacheDir
<1>1. machine \in [Cores -> Seq(CacheDir) \ {<<>>}]
  BY SetupAssumption DEF TypeOK
<1>2. machine[c] \in Seq(CacheDir) /\ machine[c] # <<>>
  BY <1>1
<1>3. Len(machine[c]) \in Nat \ {0}
  BY <1>2
<1>4. \A k \in Indices(c) : k \in Nat /\ machine[c][k + 1] \in CacheDir
  BY <1>2, <1>3 DEF Indices
<1> QED
  BY <1>2, <1>3, <1>4, SetupAssumption

LEMMA DirsAreCounted ==
  ASSUME TypeOK, NEW c \in Cores
  PROVE  /\ IsFiniteSet(Indices(c))
         /\ Cardinality(Indices(c)) = Len(machine[c])
         /\ Cardinality(dirs[c]) \in Nat
         /\ Cardinality(dirs[c]) <= Len(machine[c])
<1>1. Len(machine[c]) \in Nat
  BY MachineType
<1>2. /\ IsFiniteSet(Indices(c))
      /\ Cardinality(Indices(c)) = Len(machine[c])
  <2>1. 0 \in Int /\ Len(machine[c]) - 1 \in Int
    BY <1>1
  <2>2. /\ IsFiniteSet(0 .. (Len(machine[c]) - 1))
        /\ Cardinality(0 .. (Len(machine[c]) - 1)) =
             IF 0 > Len(machine[c]) - 1 THEN 0 ELSE Len(machine[c]) - 1 - 0 + 1
    BY <2>1, FS_Interval
  <2> QED
    BY <1>1, <2>2 DEF Indices
<1>3. dirs[c] \in SUBSET Indices(c)
  BY DEF TypeOK
<1>4. IsFiniteSet(dirs[c]) /\ Cardinality(dirs[c]) <= Len(machine[c])
  BY <1>2, <1>3, FS_Subset
<1> QED
  BY <1>2, <1>4, FS_CardinalityType

-----------------------------------------------------------------------------
(* Type correctness                                                        *)

(* Both ways out of EXIT_ON_FAIL.                                          *)
LEMMA ReturnType ==
  ASSUME TypeOK, NEW error \in Errors, NEW entry, NEW continue,
         Return(error, entry, continue)
  PROVE  /\ evals' \in 1 .. 3 /\ errors' \in [1 .. 3 -> Errors]
         /\ \/ /\ error = "none" /\ evals = 1
               /\ pc' = continue /\ UNCHANGED <<evals, errors>>
            \/ /\ error # "none" \/ evals # 1
               /\ errors' = [errors EXCEPT ![evals] = error]
               /\ \/ evals < 3 /\ pc' = entry /\ evals' = evals + 1
                  \/ evals = 3 /\ pc' = "failed" /\ evals' = evals
<1>1. evals \in 1 .. 3 /\ errors \in [1 .. 3 -> Errors]
  BY DEF TypeOK
<1>2. [errors EXCEPT ![evals] = error] \in [1 .. 3 -> Errors]
  BY <1>1
<1> QED
  BY <1>1, <1>2 DEF Return

LEMMA InitType == Init => TypeInv
<1> SUFFICES ASSUME Init PROVE TypeInv
  OBVIOUS
<1>1. request \in Requests /\ machine \in Machines /\ broken \subseteq Faults
  BY DEF Init
<1>2. core \in Nat \cup {-1}
  BY <1>1, SetupAssumption DEF Init, Request
<1>3. errors \in [1 .. 3 -> Errors]
  BY KnownErrors, <1>1 DEF Init
<1>4. /\ online \subseteq Cores /\ mode \in 0 .. 2 /\ huge \in BOOLEAN
      /\ changes \in 0 .. MaxChanges
      /\ DOMAIN dirs = Cores /\ \A c \in Cores : dirs[c] \subseteq Indices(c)
  BY SetupAssumption DEF Init
<1>6. core = request.core
  BY DEF Init
<1>5. /\ info \in [Fields -> Nat \cup {Unread, Gone}] /\ file \in DOMAIN Files
      /\ pc = "bind" /\ evals = 1 /\ count = 0 /\ i = 0
  BY FileNames DEF Init
<1> QED
  BY <1>1, <1>2, <1>3, <1>4, <1>5, <1>6 DEF TypeInv, TypeOK, Steps, SearchSteps

(* Binding picks a core that is online.                                    *)
LEMMA BindType == TypeInv /\ Bind => TypeInv'
<1> SUFFICES ASSUME TypeInv, Bind PROVE TypeInv'
  OBVIOUS
<1>0. TypeOK /\ broken \subseteq Faults
  BY DEF TypeInv, TypeOK
<1>1. CASE request.core # -1
  <2> DEFINE error == IF request.core \in online THEN Outside("set_affinity")
                                                 ELSE "set_affinity"
  <2>1. error \in Errors
    BY <1>0, KnownErrors
  <2>2. Return(error, "bind", "count") /\ core' = core
    BY <1>1 DEF Bind
  <2>3. error = "none" => request.core \in online
    OBVIOUS
  <2> HIDE DEF error
  <2>4. /\ evals' \in 1 .. 3 /\ errors' \in [1 .. 3 -> Errors]
        /\ \/ error = "none" /\ evals = 1 /\ pc' = "count"
           \/ pc' \in {"bind", "failed"}
    BY <1>0, <2>1, <2>2, ReturnType
  <2> QED
    BY <1>0, <1>1, <2>2, <2>3, <2>4
       DEF Bind, TypeInv, TypeOK, Steps, Ends, SearchSteps, SysCore, Indices
<1>2. CASE request.core = -1
  <2>1. Outside("get_cpu_core") \in Errors
    BY <1>0, KnownErrors
  <2>2. /\ Return(Outside("get_cpu_core"), "bind", "count")
        /\ IF pc' = "count" THEN core' \in online ELSE UNCHANGED core
    BY <1>2 DEF Bind
  <2>3. /\ evals' \in 1 .. 3 /\ errors' \in [1 .. 3 -> Errors]
        /\ pc' \in {"bind", "count", "failed"}
    BY <1>0, <2>1, <2>2, ReturnType
  <2>4. core' \in Nat \cup {-1} /\ (pc' = "count" => core' \in Cores)
    BY <1>0, <2>2, SetupAssumption DEF TypeOK
  <2> QED
    BY <1>0, <1>2, <2>2, <2>3, <2>4
       DEF Bind, TypeInv, TypeOK, Steps, Ends, SearchSteps, SysCore, Indices
<1> QED
  BY <1>1, <1>2

(* The core and the machine are settled once the search begins, so that an *)
(* action after Bind has to show the following only.                       *)
LEMMA TypeKept ==
  ASSUME TypeInv, pc # "bind",
         UNCHANGED <<request, machine, broken, sysVars, core>>,
         pc' \in (Steps \cup Ends) \ {"bind"},
         evals' \in 1 .. 3, errors' \in [1 .. 3 -> Errors],
         count' \in Nat, i' \in 0 .. count', file' \in DOMAIN Files,
         info' \in [Fields -> Nat \cup {Unread, Gone}],
         pc = "failed" => pc' = "failed",
         pc' \in SearchSteps => count' <= Len(machine[SysCore]),
         pc' \in {"file", "type"} => i' < count'
  PROVE  TypeInv'
BY DEF TypeInv, TypeOK, SysCore, Indices

(* What EndSearch leaves behind.                                           *)
LEMMA EndSearchType ==
  ASSUME TypeOK, NEW error \in Errors, EndSearch(error)
  PROVE  /\ evals' \in 1 .. 3 /\ errors' \in [1 .. 3 -> Errors]
         /\ pc' \in {"count", "info", "root", "failed"}
         /\ pc' \in {"info", "root"} => error = "none" /\ evals = 1
<1> DEFINE goal == IF request.mode = "info" THEN "info" ELSE "root"
<1>1. Return(error, "count", goal)
  BY DEF EndSearch
<1>2. goal \in {"info", "root"}
  OBVIOUS
<1> HIDE DEF goal
<1> QED
  BY <1>1, <1>2, ReturnType

LEMMA SearchType ==
  TypeInv /\ (CountCaches \/ Search \/ ReadFile \/ ReadType) => TypeInv'
<1> SUFFICES ASSUME TypeInv, CountCaches \/ Search \/ ReadFile \/ ReadType
             PROVE  TypeInv'
  OBVIOUS
<1> USE DEF SearchSteps, Steps, Ends
<1>0. /\ TypeOK /\ broken \subseteq Faults
      /\ evals \in 1 .. 3 /\ errors \in [1 .. 3 -> Errors]
      /\ count \in Nat /\ i \in 0 .. count /\ file \in 1 .. 5
      /\ info \in [Fields -> Nat \cup {Unread, Gone}]
      /\ DOMAIN Files = 1 .. 5 /\ Len(Files) = 5
  BY FileNames DEF TypeInv, TypeOK
<1>1. CASE CountCaches
  <2>1. SysCore \in Cores
    BY <1>0, <1>1, MachineType DEF CountCaches, TypeInv, SysCore
  <2>2. /\ Cardinality(dirs[SysCore]) \in Nat
        /\ Cardinality(dirs[SysCore]) <= Len(machine[SysCore])
    BY <1>0, <2>1, DirsAreCounted
  <2>3. /\ pc = "count" /\ i' = 0
        /\ UNCHANGED <<request, machine, broken, sysVars, core, file, info>>
    BY <1>1 DEF CountCaches
  <2>4. CASE /\ count' = Cardinality(dirs[SysCore])
             /\ pc' = "search" /\ UNCHANGED <<evals, errors>>
    BY <1>0, <2>2, <2>3, <2>4, TypeKept
  <2>5. CASE EndSearch("io_sys_cpu") /\ count' = 0
    <3>1. "io_sys_cpu" \in Errors
      BY <1>0, KnownErrors
    <3> QED
      BY <1>0, <2>3, <2>5, <3>1, EndSearchType, TypeKept
  <2> QED
    BY <1>1, <2>4, <2>5 DEF CountCaches
<1>2. CASE Search
  <2>1. /\ pc = "search" /\ count <= Len(machine[SysCore])
        /\ UNCHANGED <<request, machine, broken, sysVars, core, count, i, info>>
    BY <1>2 DEF Search, TypeInv
  <2>2. CASE i < count
    <3>1. pc' = "file" /\ file' = 1 /\ UNCHANGED <<evals, errors>>
      BY <1>2, <2>2 DEF Search, MoreCaches
    <3> QED
      BY <1>0, <2>1, <2>2, <3>1, TypeKept
  <2>3. CASE ~(i < count)
    <3>1. PICK fits \in LevelFits :
            EndSearch(IF fits THEN "none" ELSE "cache_not_exists")
      BY <1>2, <2>3 DEF Search, MoreCaches
    <3>2. (IF fits THEN "none" ELSE "cache_not_exists") \in Errors
      BY <1>0, KnownErrors
    <3>3. file' = file
      BY <1>2, <2>3 DEF Search, MoreCaches
    <3>4. /\ evals' \in 1 .. 3 /\ errors' \in [1 .. 3 -> Errors]
          /\ pc' \in {"count", "info", "root", "failed"}
      BY <1>0, <3>1, <3>2, EndSearchType
    <3> QED
      BY <1>0, <2>1, <3>3, <3>4, TypeKept
  <2> QED
    BY <2>2, <2>3
<1>3. CASE ReadFile
  <2>1. /\ pc = "file" /\ count <= Len(machine[SysCore]) /\ i < count
        /\ UNCHANGED <<request, machine, broken, sysVars, core, count, i>>
    BY <1>3 DEF ReadFile, TypeInv
  <2>2. CASE FileErrors = {}
    <3>1. /\ info' = [info EXCEPT ![Files[file]] = i]
          /\ pc' \in {"file", "type"} /\ UNCHANGED <<evals, errors>>
          /\ file' = IF file < 5 THEN file + 1 ELSE file
      BY <1>0, <1>3, <2>2 DEF ReadFile, NextFile
    <3>2. info' \in [Fields -> Nat \cup {Unread, Gone}]
      <4>1. i \in Nat \cup {Unread, Gone}
        BY <1>0
      <4> QED
        BY <1>0, <3>1, <4>1
    <3> QED
      BY <1>0, <2>1, <3>1, <3>2, TypeKept
  <2>3. CASE FileErrors # {}
    <3>1. PICK e \in FileErrors : EndSearch(e)
      BY <1>3, <2>3 DEF ReadFile
    <3>2. e \in Errors
      BY <1>0, <3>1, KnownErrors
    <3>3. UNCHANGED <<file, info>>
      BY <1>3, <2>3 DEF ReadFile
    <3>4. /\ evals' \in 1 .. 3 /\ errors' \in [1 .. 3 -> Errors]
          /\ pc' \in {"count", "info", "root", "failed"}
      BY <1>0, <3>1, <3>2, EndSearchType
    <3> QED
      BY <1>0, <2>1, <3>3, <3>4, TypeKept
  <2> QED
    BY <2>2, <2>3
<1>4. CASE ReadType
  <2>1. /\ pc = "type" /\ count <= Len(machine[SysCore]) /\ i < count
        /\ UNCHANGED <<request, machine, broken, sysVars, core, count, file>>
    BY <1>4 DEF ReadType, TypeInv
  <2>2. info' \in [Fields -> Nat \cup {Unread, Gone}]
    BY <1>0, <1>4 DEF ReadType
  <2>3. CASE EndSearch("none") /\ UNCHANGED i
    <3>1. "none" \in Errors
      BY <1>0, KnownErrors
    <3>2. /\ evals' \in 1 .. 3 /\ errors' \in [1 .. 3 -> Errors]
          /\ pc' \in {"count", "info", "root", "failed"}
      BY <1>0, <2>3, <3>1, EndSearchType
    <3> QED
      BY <1>0, <2>1, <2>2, <2>3, <3>2, TypeKept
  <2>4. CASE pc' = "search" /\ i' = i + 1 /\ UNCHANGED <<evals, errors>>
    BY <1>0, <2>1, <2>2, <2>4, TypeKept
  <2>5. CASE pc' = "crashed" /\ UNCHANGED <<i, evals, errors>>
    BY <1>0, <2>1, <2>2, <2>5, TypeKept
  <2> QED
    BY <1>4, <2>3, <2>4, <2>5 DEF ReadType
<1> QED
  BY <1>1, <1>2, <1>3, <1>4

LEMMA ChecksType ==
  TypeInv /\ (CheckRoot \/ CheckRdpmc \/ OpenOutput \/ AllocBuffer)
    => TypeInv'
<1> SUFFICES ASSUME TypeInv,
                    CheckRoot \/ CheckRdpmc \/ OpenOutput \/ AllocBuffer
             PROVE  TypeInv'
  OBVIOUS
<1>0. /\ TypeOK /\ broken \subseteq Faults
      /\ evals \in 1 .. 3 /\ errors \in [1 .. 3 -> Errors]
      /\ count \in Nat /\ i \in 0 .. count /\ file \in DOMAIN Files
      /\ info \in [Fields -> Nat \cup {Unread, Gone}]
  BY DEF TypeInv, TypeOK
<1>1. CASE CheckRoot
  BY <1>0, <1>1, TypeKept DEF CheckRoot, SearchSteps, Steps, Ends
<1>2. /\ RdpmcError \in Errors /\ OutputError \in Errors
      /\ AllocError \in Errors
  BY <1>0, KnownErrors DEF RdpmcError, OutputError, AllocError
<1>3. CASE CheckRdpmc
  <2>1. /\ evals' \in 1 .. 3 /\ errors' \in [1 .. 3 -> Errors]
        /\ pc' \in {"rdpmc", "ready", "open", "unknown", "failed"}
    BY <1>0, <1>2, <1>3, ReturnType DEF CheckRdpmc, Branch
  <2> QED
    BY <1>0, <1>3, <2>1, TypeKept DEF CheckRdpmc, SearchSteps, Steps, Ends
<1>4. CASE OpenOutput
  <2>1. /\ evals' \in 1 .. 3 /\ errors' \in [1 .. 3 -> Errors]
        /\ pc' \in {"open", "alloc", "failed"}
    BY <1>0, <1>2, <1>4, ReturnType DEF OpenOutput
  <2> QED
    BY <1>0, <1>4, <2>1, TypeKept DEF OpenOutput, SearchSteps, Steps, Ends
<1>5. CASE AllocBuffer
  <2>1. /\ evals' \in 1 .. 3 /\ errors' \in [1 .. 3 -> Errors]
        /\ pc' \in {"alloc", "ready", "failed"}
    BY <1>0, <1>2, <1>5, ReturnType DEF AllocBuffer
  <2> QED
    BY <1>0, <1>5, <2>1, TypeKept DEF AllocBuffer, SearchSteps, Steps, Ends
<1> QED
  BY <1>1, <1>3, <1>4, <1>5

(* The kernel removes and adds directories the machine has.                *)
LEMMA EnvironmentType == TypeInv /\ Environment => TypeInv'
<1> SUFFICES ASSUME TypeInv, Environment PROVE TypeInv'
  OBVIOUS
<1>0. TypeOK
  BY DEF TypeInv
<1>1. /\ UNCHANGED programVars
      /\ online' \subseteq Cores /\ mode' \in 0 .. 2 /\ huge' \in BOOLEAN
      /\ changes' \in 0 .. MaxChanges
  <2>1. CASE \/ SwitchRdpmc \/ SwitchHugepages
             \/ \E c \in Switched : Unplug(c) \/ Plug(c)
    <3>1. /\ Switched \subseteq Cores /\ MaxChanges \in Nat
          /\ changes \in 0 .. MaxChanges /\ mode \in 0 .. 2
          /\ online \subseteq Cores /\ huge \in BOOLEAN
      BY <1>0, SetupAssumption DEF TypeOK
    <3>2. /\ Change /\ mode' \in 0 .. 2 /\ online' \subseteq Cores
          /\ huge' \in BOOLEAN
      BY <2>1, <3>1 DEF SwitchRdpmc, SwitchHugepages, Unplug, Plug
    <3> QED
      BY <3>1, <3>2 DEF Change
  <2>2. CASE \E c \in Switched : RemoveDir(c) \/ AddDir(c)
    BY <1>0, <2>2 DEF RemoveDir, AddDir, TypeOK
  <2> QED
    BY <2>1, <2>2 DEF Environment
<1>2. DOMAIN dirs' = Cores /\ \A c \in Cores : dirs'[c] \subseteq Indices(c)
  <2>1. DOMAIN dirs = Cores /\ \A c \in Cores : dirs[c] \subseteq Indices(c)
    BY <1>0 DEF TypeOK
  <2>2. CASE dirs' = dirs
    BY <2>1, <2>2
  <2>3. ASSUME NEW c \in Switched, RemoveDir(c)
        PROVE  DOMAIN dirs' = Cores
                 /\ \A d \in Cores : dirs'[d] \subseteq Indices(d)
    BY <2>1, <2>3, SetupAssumption DEF RemoveDir
  <2>4. ASSUME NEW c \in Switched, AddDir(c)
        PROVE  DOMAIN dirs' = Cores
                 /\ \A d \in Cores : dirs'[d] \subseteq Indices(d)
    <3>1. c \in Cores
      BY SetupAssumption
    <3> DEFINE missing == Indices(c) \ dirs[c]
    <3>2. missing # {} /\ missing \in SUBSET Nat
      BY <1>0, <2>1, <2>4, <3>1, MachineType DEF AddDir
    <3>3. Min(missing) \in missing
      BY <3>2, MinOfNaturals
    <3>4. dirs' = [dirs EXCEPT ![c] = dirs[c] \cup {Min(missing)}]
      BY <2>4 DEF AddDir
    <3> HIDE DEF missing
    <3>5. Min(missing) \in Indices(c)
      BY <3>3 DEF missing
    <3> QED
      BY <2>1, <3>1, <3>4, <3>5
  <2> QED
    BY <2>2, <2>3, <2>4
       DEF Environment, SwitchRdpmc, SwitchHugepages, Unplug, Plug
<1> QED
  BY <1>0, <1>1, <1>2 DEF programVars, TypeInv, TypeOK, SysCore, Indices

LEMMA StepType == TypeInv /\ [Next]_vars => TypeInv'
<1> SUFFICES ASSUME TypeInv, [Next]_vars PROVE TypeInv'
  OBVIOUS
<1>1. CASE UNCHANGED vars
  BY <1>1 DEF vars, TypeInv, TypeOK, SysCore, Indices
<1> QED
  BY <1>1, BindType, SearchType, ChecksType, EnvironmentType
     DEF Next, Program, Ended

(* Every variable keeps its type: whatever the tools do meanwhile, main    *)
(* looks at no index outside the machine and returns only known errors.    *)
THEOREM TypeCorrect == Spec => []TypeOK
<1>1. TypeInv => TypeOK
  BY DEF TypeInv
<1> QED
  BY <1>1, InitType, StepType, PTL DEF Spec

-----------------------------------------------------------------------------
(* One cache                                                               *)

(* The number files were all read from directory k.                        *)
Whole(k) == \A f \in DOMAIN Files : info[Files[f]] = k

(* While the search is at a directory, the files it has read there are the *)
(* ones cache_info_t holds; when it ends well, they are of one directory of*)
(* the wanted level.                                                       *)
GeometryInv ==
  /\ pc = "file" => \A f \in DOMAIN Files : f < file => info[Files[f]] = i
  /\ pc = "type" => Whole(i)
  /\ pc = "search" /\ i > 0 => Whole(i - 1)
  /\ Found /\ count > 0 =>
       \E k \in Indices(SysCore) :
         Whole(k) /\ machine[SysCore][k + 1].level = Level

(* Nothing of this moves while main is past the search, or the world acts. *)
LEMMA GeometryKept ==
  ASSUME GeometryInv, UNCHANGED <<machine, request, core, count, info>>,
         \/ UNCHANGED <<pc, i, file>>
         \/ pc' \notin SearchSteps /\ (Found' => Found)
  PROVE  GeometryInv'
BY DEF GeometryInv, SearchSteps, Whole, Found, Indices, SysCore, Level

LEMMA GeometryStep == TypeInv /\ GeometryInv /\ [Next]_vars => GeometryInv'
<1> SUFFICES ASSUME TypeInv, GeometryInv, [Next]_vars PROVE GeometryInv'
  OBVIOUS
<1> USE DEF SearchSteps
<1>0. /\ TypeOK /\ broken \subseteq Faults
      /\ count \in Nat /\ i \in 0 .. count /\ file \in 1 .. 5
      /\ info \in [Fields -> Nat \cup {Unread, Gone}]
      /\ DOMAIN Files = 1 .. 5 /\ Len(Files) = 5
  BY FileNames DEF TypeInv, TypeOK
<1>e. "none" \in Errors /\ "cache_not_exists" \in Errors
      /\ "io_sys_cpu" \in Errors /\ FileErrors \subseteq Errors
  BY <1>0, KnownErrors
<1>1. CASE Bind
  <2>1. pc' \in {"bind", "count", "failed"}
    BY <1>1 DEF Bind, Return
  <2> QED
    BY <2>1 DEF GeometryInv, Found
<1>2. CASE CountCaches
  <2>1. \/ pc' = "search" /\ i' = 0
        \/ pc' \in {"count", "failed"}
    BY <1>0, <1>2, <1>e, EndSearchType DEF CountCaches
  <2> QED
    BY <2>1 DEF GeometryInv, Found
<1>3. CASE Search
  <2>1. /\ pc = "search" /\ count <= Len(machine[SysCore])
        /\ SysCore \in Cores
        /\ UNCHANGED <<request, machine, core, count, i, info>>
    BY <1>0, <1>3, MachineType DEF Search, TypeInv, SysCore
  <2>2. CASE i < count
    BY <1>0, <1>3, <2>2 DEF Search, MoreCaches, GeometryInv, Found
  <2>3. CASE ~(i < count)
    <3>1. PICK fits \in LevelFits :
            EndSearch(IF fits THEN "none" ELSE "cache_not_exists")
      BY <1>3, <2>3 DEF Search, MoreCaches
    <3>2. /\ pc' \in {"count", "info", "root", "failed"}
          /\ pc' \in {"info", "root"} => fits
      BY <1>0, <1>e, <3>1, EndSearchType
    <3>3. ASSUME Found', count > 0
          PROVE  /\ i - 1 \in Indices(SysCore) /\ Whole(i - 1)
                 /\ machine[SysCore][i - 1 + 1].level = Level
      <4>1. i = count /\ i - 1 \in Nat /\ Whole(i - 1)
        BY <1>0, <2>1, <2>3, <3>3 DEF GeometryInv
      <4>2. i - 1 \in Indices(SysCore)
        BY <1>0, <2>1, <4>1, MachineType DEF Indices
      <4>3. info["level"] = i - 1
        BY <1>0, <4>1, FileNames DEF Whole
      <4>4. fits
        BY <3>2, <3>3 DEF Found
      <4>5. LevelFits = {machine[SysCore][i - 1 + 1].level = Level}
        BY <4>1, <4>3 DEF LevelFits, Value, Unread
      <4> QED
        BY <3>1, <4>1, <4>2, <4>4, <4>5
    <3>4. Found' /\ count > 0 =>
            \E k \in Indices(SysCore) :
              Whole(k) /\ machine[SysCore][k + 1].level = Level
      BY <3>3
    <3> QED
      BY <2>1, <3>2, <3>4
         DEF GeometryInv, Whole, Indices, SysCore, Level
  <2> QED
    BY <2>2, <2>3
<1>4. CASE ReadFile
  <2>1. CASE FileErrors = {}
    <3>1. /\ info' = [info EXCEPT ![Files[file]] = i] /\ pc = "file"
          /\ i' = i /\ pc' = IF file < 5 THEN "file" ELSE "type"
          /\ file' = IF file < 5 THEN file + 1 ELSE file
      BY <1>0, <1>4, <2>1 DEF ReadFile, NextFile
    <3>2. \A f \in 1 .. 5 : f <= file => info'[Files[f]] = i
      BY <1>0, <3>1, FileNames DEF GeometryInv
    <3> QED
      BY <1>0, <3>1, <3>2 DEF GeometryInv, Whole, Found
  <2>2. CASE FileErrors # {}
    <3>1. PICK e \in FileErrors : EndSearch(e)
      BY <1>4, <2>2 DEF ReadFile
    <3>2. e # "none"
      BY <1>0, FileNames DEF FileErrors, FileError
    <3>3. pc' \in {"count", "failed"}
      BY <1>0, <1>e, <3>1, <3>2, EndSearchType
    <3> QED
      BY <3>3 DEF GeometryInv, Found
  <2> QED
    BY <2>1, <2>2
<1>5. CASE ReadType
  <2>1. /\ pc = "type" /\ Whole(i) /\ i < count
        /\ count <= Len(machine[SysCore]) /\ SysCore \in Cores
        /\ UNCHANGED <<request, machine, core, count>>
    BY <1>0, <1>5, MachineType DEF ReadType, GeometryInv, TypeInv, SysCore
  <2>2. \A f \in 1 .. 5 : info'[Files[f]] = info[Files[f]]
    BY <1>0, <1>5, FileNames DEF ReadType
  <2>4. CASE Wanted /\ EndSearch("none") /\ UNCHANGED i
    <3>1. pc' \in {"count", "info", "root", "failed"}
      BY <1>0, <1>e, <2>4, EndSearchType
    <3>2. i \in Indices(SysCore)
      BY <1>0, <2>1, MachineType DEF Indices
    <3>3. info["level"] = i
      BY <1>0, <2>1, FileNames DEF Whole
    <3>4. machine[SysCore][i + 1].level = Level
      BY <1>0, <2>4, <3>3 DEF Wanted, Value, Unread
    <3>5. \A f \in DOMAIN Files : info'[Files[f]] = i
      BY <1>0, <2>1, <2>2 DEF Whole
    <3> QED
      BY <2>1, <3>1, <3>2, <3>4, <3>5
         DEF GeometryInv, Whole, Indices, SysCore, Level
  <2>5. CASE pc' = "search" /\ i' = i + 1
    <3>1. \A f \in DOMAIN Files : info'[Files[f]] = i' - 1
      BY <1>0, <2>1, <2>2, <2>5 DEF Whole
    <3> QED
      BY <2>5, <3>1 DEF GeometryInv, Whole, Found
  <2>6. CASE pc' = "crashed"
    BY <2>6 DEF GeometryInv, Found
  <2> QED
    BY <1>5, <2>4, <2>5, <2>6 DEF ReadType
<1>6. CASE CheckRoot
  BY <1>6, GeometryKept DEF CheckRoot, Found
<1>7. CASE CheckRdpmc
  BY <1>7, GeometryKept DEF CheckRdpmc, Branch, Return, Found
<1>8. CASE OpenOutput
  BY <1>8, GeometryKept DEF OpenOutput, Return, Found
<1>9. CASE AllocBuffer
  BY <1>9, GeometryKept DEF AllocBuffer, Return, Found
<1>10. CASE Environment
  BY <1>10, GeometryKept
     DEF Environment, SwitchRdpmc, SwitchHugepages, Unplug, Plug, Change,
         RemoveDir, AddDir, programVars
<1>11. CASE UNCHANGED vars
  BY <1>11, GeometryKept DEF vars
<1> QED
  BY <1>1, <1>2, <1>3, <1>4, <1>5, <1>6, <1>7, <1>8, <1>9, <1>10, <1>11
     DEF Next, Program, Ended

(* Whatever happens to the cores and their directories while they are read,*)
(* a search that ends well has the geometry of one cache of the wanted     *)
(* level, and alloc_aligned, prime and probe compute with numbers that fit *)
(* together.                                                               *)
THEOREM GeometryHolds == Spec => []GeometryIsWhole
<1>1. Init => GeometryInv
  BY DEF Init, GeometryInv, Found
<1>2. TypeInv /\ GeometryInv => GeometryIsWhole
  <2> SUFFICES ASSUME TypeInv, GeometryInv, Found, count > 0
               PROVE  /\ Value("total_size") = Value("line_size")
                           * Value("set_count") * Value("ways")
                      /\ Value("level") = Level
    BY DEF GeometryIsWhole
  <2>1. SysCore \in Cores /\ TypeOK
    BY MachineType DEF TypeInv, Found, SysCore
  <2>2. PICK k \in Indices(SysCore) :
          Whole(k) /\ machine[SysCore][k + 1].level = Level
    BY DEF GeometryInv
  <2>3. k \in Nat /\ k + 1 \in DOMAIN machine[SysCore]
    BY <2>1, <2>2, MachineType DEF Indices
  <2>4. \A f \in DOMAIN Files : Value(Files[f]) = machine[SysCore][k + 1][Files[f]]
    BY <2>2, <2>3 DEF Whole, Value, Unread
  <2>5. machine \in Machines
    BY <2>1 DEF TypeOK
  <2>6. machine[SysCore][k + 1].total_size =
          machine[SysCore][k + 1].line_size * machine[SysCore][k + 1].set_count
            * machine[SysCore][k + 1].ways
    BY <2>1, <2>3, <2>5, SetupAssumption
  <2> QED
    BY <2>2, <2>4, <2>6 DEF Files
<1> QED
  BY <1>1, <1>2, InitType, StepType, GeometryStep, PTL DEF Spec

-----------------------------------------------------------------------------
(* A machine nobody touches                                                *)

(* What the call that is evaluated returns, every time it is.              *)
BindError ==
  IF request.core = -1 THEN Outside("get_cpu_core")
  ELSE IF request.core \in online THEN Outside("set_affinity")
  ELSE "set_affinity"

FileBreaks ==
  broken \cap ({FileError[f] : f \in DOMAIN Files} \cup {"fmt"})

SearchError ==
  IF "io_sys_cpu" \in broken \/ SysCore \notin online THEN "io_sys_cpu"
  ELSE IF FileBreaks # {} THEN CHOOSE e \in FileBreaks : TRUE
  ELSE IF Hits = {} /\ ~LastFits THEN "cache_not_exists"
  ELSE "none"

CallError ==
  CASE pc = "bind"                          -> BindError
    [] pc \in SearchSteps \cup {"count"}    -> SearchError
    [] pc = "rdpmc"                         -> RdpmcError
    [] pc = "open"                          -> OutputError
    [] pc = "alloc"                         -> AllocError
    [] OTHER                                -> "none"

(* cache_info_new has returned what it should.                             *)
Searched ==
  core \in online /\ SearchError = "none" /\ (Hits # {} => info.type = Min(Hits))

(* Where the search is: no directory before i is a hit, and no file before *)
(* the one it is at can fail.                                              *)
SearchInv ==
  pc \in SearchSteps =>
    /\ SysCore \in online /\ "io_sys_cpu" \notin broken
    /\ count = Len(machine[SysCore])
    /\ \A k \in Hits : i <= k
    /\ pc = "type" \/ i > 0 => FileBreaks = {}
    /\ pc = "file" =>
         /\ \A f \in DOMAIN Files : f < file => FileError[f] \notin broken
         /\ file > 1 => "fmt" \notin broken

(* A failed call fails the same way each time it is evaluated.             *)
RepeatInv ==
  /\ pc # "failed" /\ evals = 1 => errors = [e \in 1 .. 3 |-> "none"]
  /\ pc \in Steps /\ evals > 1 =>
       /\ CallError # "none"
       /\ \A e \in 1 .. evals - 1 : errors[e] = CallError
  /\ pc \in Ends \ {"failed"} => evals = 1

(* Behind has_root_access.                                                 *)
Rooted == {"rdpmc", "unknown", "open", "alloc", "ready"}

(* How main got where it is.                                               *)
ProgressInv ==
  /\ pc \notin {"bind", "failed"} => core \in online
  /\ Found => Searched
  /\ pc = "info" => request.mode = "info"
  /\ pc \in {"root", "exit"} \cup Rooted => request.mode # "info"
  /\ pc = "exit" => ~request.root
  /\ pc \in Rooted => request.root
  /\ pc \in Rooted \ {"rdpmc"} => RdpmcError = "none"
  /\ pc \in {"open", "alloc"} => request.mode = "profile"
  /\ pc = "unknown" => request.mode = "other"
  /\ pc = "ready" =>
       \/ request.mode = "bench"
       \/ request.mode = "profile" /\ AllocError = "none"
  /\ pc # "crashed"
  /\ pc = "failed" =>
       /\ errors[1] # "none" /\ errors[2] = errors[1] /\ errors[3] = errors[1]
       /\ \/ errors[1] = BindError
          \/ core \in online /\ errors[1] = SearchError
          \/ Searched /\ errors[1] = RdpmcError
          \/ Searched /\ RdpmcError = "none" /\ errors[1] = OutputError
          \/ /\ Searched /\ RdpmcError = "none" /\ errors[1] = AllocError
             /\ request.mode = "profile"

UntouchedInv ==
  /\ \A d, e \in broken : d = e
  /\ changes = 0 =>
       /\ \A c \in Cores : dirs[c] = IF c \in online THEN Indices(c) ELSE {}
       /\ SearchInv /\ RepeatInv /\ ProgressInv

(* The terms of the invariant that only a change of the world, or a step of*)
(* the binding, can change.                                                *)
LEMMA ErrorsAreFixed ==
  ASSUME UNCHANGED <<request, machine, broken, online, mode, huge, core>>
  PROVE  /\ BindError' = BindError /\ SearchError' = SearchError
         /\ RdpmcError' = RdpmcError /\ OutputError' = OutputError
         /\ AllocError' = AllocError
         /\ FileBreaks' = FileBreaks /\ Hits' = Hits /\ SysCore' = SysCore
         /\ Level' = Level /\ LastFits' = LastFits
BY DEF BindError, SearchError, RdpmcError, OutputError, AllocError, FileBreaks,
       Hits, SysCore, Level, LastFits, Outside, Indices

(* One evaluation of the call EXIT_ON_FAIL is at, if it returns what it    *)
(* returned before.                                                        *)
LEMMA RepeatStep ==
  ASSUME TypeInv, RepeatInv, pc \in Steps, NEW error \in Errors,
         error = CallError, NEW entry, NEW continue,
         Return(error, entry, continue)
  PROVE  \/ /\ evals = 1 /\ error = "none" /\ pc' = continue
            /\ UNCHANGED <<evals, errors>>
            /\ errors = [e \in 1 .. 3 |-> "none"]
         \/ /\ error # "none" /\ evals' > 1 /\ pc' = entry
            /\ \A e \in 1 .. evals' - 1 : errors'[e] = error
         \/ /\ error # "none" /\ pc' = "failed"
            /\ errors'[1] = error /\ errors'[2] = error /\ errors'[3] = error
<1>0. TypeOK /\ evals \in 1 .. 3 /\ errors \in [1 .. 3 -> Errors]
  BY DEF TypeInv, TypeOK
<1>1. pc # "failed"
  BY DEF Steps
<1>2. evals > 1 => error # "none" /\ \A e \in 1 .. evals - 1 : errors[e] = error
  BY DEF RepeatInv
<1>3. CASE error = "none" /\ evals = 1
  BY <1>0, <1>1, <1>3, ReturnType DEF RepeatInv
<1>4. CASE ~(error = "none" /\ evals = 1)
  <2>1. /\ error # "none"
        /\ errors' = [errors EXCEPT ![evals] = error]
        /\ \/ evals < 3 /\ pc' = entry /\ evals' = evals + 1
           \/ evals = 3 /\ pc' = "failed"
    BY <1>0, <1>2, <1>4, ReturnType
  <2>2. \A e \in 1 .. evals : errors'[e] = error
    BY <1>0, <1>2, <2>1
  <2> QED
    BY <1>0, <2>1, <2>2
<1> QED
  BY <1>3, <1>4

(* The end of an evaluation of cache_info_new.                             *)
LEMMA EndSearchStep ==
  ASSUME TypeInv, UntouchedInv, changes = 0,
         pc \in SearchSteps \cup {"count"}, EndSearch(SearchError),
         SearchError \in Errors,
         UNCHANGED <<request, machine, broken, sysVars, core>>,
         SearchError = "none" /\ Hits # {} => info'.type = Min(Hits)
  PROVE  UntouchedInv'
<1> DEFINE goal == IF request.mode = "info" THEN "info" ELSE "root"
<1>0. /\ SearchInv /\ RepeatInv /\ ProgressInv
      /\ CallError = SearchError /\ pc \in Steps
      /\ core \in online
  <2>1. SearchInv /\ RepeatInv /\ ProgressInv
    BY DEF UntouchedInv
  <2>2. CallError = SearchError /\ pc \in Steps
    BY DEF CallError, SearchSteps, Steps
  <2>3. core \in online
    BY <2>1 DEF ProgressInv, SearchSteps
  <2> QED
    BY <2>1, <2>2, <2>3
<1>1. /\ BindError' = BindError /\ SearchError' = SearchError
      /\ RdpmcError' = RdpmcError /\ OutputError' = OutputError
      /\ AllocError' = AllocError /\ Hits' = Hits
  BY ErrorsAreFixed
<1>2. Return(SearchError, "count", goal)
  BY DEF EndSearch
<1>3. \/ /\ evals = 1 /\ SearchError = "none" /\ pc' = goal
         /\ UNCHANGED <<evals, errors>>
         /\ errors = [e \in 1 .. 3 |-> "none"]
      \/ /\ SearchError # "none" /\ evals' > 1 /\ pc' = "count"
         /\ \A e \in 1 .. evals' - 1 : errors'[e] = SearchError
      \/ /\ SearchError # "none" /\ pc' = "failed" /\ errors'[1] = SearchError
         /\ errors'[2] = SearchError /\ errors'[3] = SearchError
  BY <1>0, <1>2, RepeatStep
<1>4. evals' \in 1 .. 3
  BY EndSearchType DEF TypeInv
<1>5. CASE evals = 1 /\ SearchError = "none" /\ pc' = goal
             /\ UNCHANGED <<evals, errors>>
             /\ errors = [e \in 1 .. 3 |-> "none"]
  <2>1. Searched'
    BY <1>0, <1>1, <1>5 DEF Searched
  <2>2. /\ pc' \in {"info", "root"}
        /\ pc' = "info" => request.mode = "info"
        /\ pc' = "root" => request.mode # "info"
    BY <1>0, <1>5
  <2>3. SearchInv' /\ RepeatInv'
    BY <1>5, <2>2 DEF SearchInv, RepeatInv, SearchSteps
  <2>4. ProgressInv'
    BY <1>0, <2>1, <2>2 DEF ProgressInv, Rooted
  <2> QED
    BY <2>3, <2>4 DEF UntouchedInv, Indices
<1>6. CASE SearchError # "none" /\ evals' > 1 /\ pc' = "count"
             /\ \A e \in 1 .. evals' - 1 : errors'[e] = SearchError
  <2>1. CallError' = SearchError
    BY <1>1, <1>6 DEF CallError
  <2>2. SearchInv' /\ RepeatInv'
    <3>1. CallError' # "none" /\ \A e \in 1 .. evals' - 1 : errors'[e] = CallError'
      BY <1>6, <2>1
    <3>2. evals' # 1 /\ pc' \notin Ends /\ pc' \notin SearchSteps
      BY <1>6 DEF Ends, SearchSteps
    <3> QED
      BY <3>1, <3>2 DEF SearchInv, RepeatInv
  <2>3. ProgressInv'
    BY <1>0, <1>6 DEF ProgressInv, Found, Rooted
  <2> QED
    BY <2>2, <2>3 DEF UntouchedInv, Indices
<1>7. CASE SearchError # "none" /\ pc' = "failed" /\ errors'[1] = SearchError
             /\ errors'[2] = SearchError /\ errors'[3] = SearchError
  <2>1. SearchInv' /\ RepeatInv'
    BY <1>7 DEF SearchInv, RepeatInv, SearchSteps, Steps
  <2>2. ProgressInv'
    BY <1>0, <1>1, <1>7 DEF ProgressInv, Found, Rooted
  <2> QED
    BY <2>1, <2>2 DEF UntouchedInv, Indices
<1> QED
  BY <1>3, <1>5, <1>6, <1>7

LEMMA BindStep == TypeInv /\ UntouchedInv /\ Bind => UntouchedInv'
<1> SUFFICES ASSUME TypeInv, UntouchedInv, Bind, changes = 0
             PROVE  UntouchedInv'
  BY DEF Bind, UntouchedInv
<1>0. /\ RepeatInv /\ pc = "bind" /\ pc \in Steps /\ core = request.core
      /\ UNCHANGED <<request, machine, broken, sysVars, searchVars>>
      /\ BindError \in Errors /\ CallError = BindError
  <2>1. BindError \in Errors
    BY KnownErrors DEF TypeInv, TypeOK, BindError
  <2>2. CallError = BindError
    BY DEF Bind, CallError, SearchSteps
  <2> QED
    BY <2>1, <2>2 DEF Bind, UntouchedInv, TypeInv, Steps
<1>1. /\ Return(BindError, "bind", "count")
      /\ pc' = "count" /\ BindError = "none" => core' \in online
      /\ pc' # "count" => core' = core
  <2>1. CASE request.core # -1
    BY <1>0, <2>1 DEF Bind, BindError
  <2>2. CASE request.core = -1
    BY <1>0, <2>2 DEF Bind, BindError
  <2> QED
    BY <2>1, <2>2
<1>2. \/ /\ evals = 1 /\ BindError = "none" /\ pc' = "count"
         /\ UNCHANGED <<evals, errors>>
         /\ errors = [e \in 1 .. 3 |-> "none"]
      \/ /\ BindError # "none" /\ evals' > 1 /\ pc' = "bind"
         /\ \A e \in 1 .. evals' - 1 : errors'[e] = BindError
      \/ /\ BindError # "none" /\ pc' = "failed" /\ errors'[1] = BindError
         /\ errors'[2] = BindError /\ errors'[3] = BindError
  BY <1>0, <1>1, RepeatStep
<1>3. evals' \in 1 .. 3
  BY <1>0, <1>1, ReturnType DEF TypeInv
<1>4. CASE evals = 1 /\ BindError = "none" /\ pc' = "count"
             /\ UNCHANGED <<evals, errors>>
             /\ errors = [e \in 1 .. 3 |-> "none"]
  <2>1. SearchInv' /\ RepeatInv'
    BY <1>4 DEF SearchInv, RepeatInv, SearchSteps, Ends
  <2>2. ProgressInv'
    BY <1>0, <1>1, <1>4 DEF ProgressInv, Found, Rooted
  <2> QED
    BY <1>0, <2>1, <2>2 DEF UntouchedInv, Indices
<1>5. CASE pc' # "count" /\ BindError' = BindError
  <2>1. CASE BindError # "none" /\ evals' > 1 /\ pc' = "bind"
               /\ \A e \in 1 .. evals' - 1 : errors'[e] = BindError
    <3>1. CallError' = BindError
      BY <1>5, <2>1 DEF CallError, SearchSteps
    <3>2. SearchInv' /\ RepeatInv'
      <4>1. CallError' # "none"
              /\ \A e \in 1 .. evals' - 1 : errors'[e] = CallError'
        BY <2>1, <3>1
      <4>2. evals' # 1 /\ pc' \notin Ends /\ pc' \notin SearchSteps
        BY <2>1 DEF Ends, SearchSteps
      <4> QED
        BY <4>1, <4>2 DEF SearchInv, RepeatInv
    <3>3. ProgressInv'
      BY <2>1 DEF ProgressInv, Found, Rooted
    <3> QED
      BY <1>0, <3>2, <3>3 DEF UntouchedInv, Indices
  <2>2. CASE BindError # "none" /\ pc' = "failed" /\ errors'[1] = BindError
               /\ errors'[2] = BindError /\ errors'[3] = BindError
    <3>1. SearchInv' /\ RepeatInv'
      BY <2>2 DEF SearchInv, RepeatInv, SearchSteps, Steps
    <3>2. ProgressInv'
      BY <1>5, <2>2 DEF ProgressInv, Found, Rooted
    <3> QED
      BY <1>0, <3>1, <3>2 DEF UntouchedInv, Indices
  <2> QED
    BY <1>2, <1>5, <2>1, <2>2
<1>6. pc' # "count" => BindError' = BindError
  BY <1>0, <1>1, ErrorsAreFixed
<1> QED
  BY <1>2, <1>4, <1>5, <1>6

(* What an untouched machine looks like to the search.                     *)
LEMMA UntouchedSearch ==
  ASSUME TypeInv, UntouchedInv, changes = 0, pc \in SearchSteps \cup {"count"}
  PROVE  /\ SysCore \in Cores /\ Len(machine[SysCore]) \in Nat \ {0}
         /\ Hits \subseteq Indices(SysCore)
         /\ dirs[SysCore] = IF SysCore \in online THEN Indices(SysCore) ELSE {}
         /\ Cardinality(Indices(SysCore)) = Len(machine[SysCore])
         /\ \A e \in FileBreaks : FileBreaks = {e}
         /\ SearchInv
<1>1. SysCore \in Cores
  BY MachineType DEF TypeInv, SysCore, SearchSteps
<1>2. Len(machine[SysCore]) \in Nat \ {0}
  BY <1>1, MachineType DEF TypeInv
<1>3. Cardinality(Indices(SysCore)) = Len(machine[SysCore])
  BY <1>1, DirsAreCounted DEF TypeInv
<1>4. /\ dirs[SysCore] = IF SysCore \in online THEN Indices(SysCore) ELSE {}
      /\ SearchInv
  BY <1>1 DEF UntouchedInv
<1>5. \A e \in FileBreaks : FileBreaks = {e}
  BY DEF UntouchedInv, FileBreaks
<1>6. Hits \subseteq Indices(SysCore)
  BY DEF Hits
<1> QED
  BY <1>1, <1>2, <1>3, <1>4, <1>5, <1>6

(* A step inside the search changes its place only.                        *)
LEMMA InsideSearch ==
  ASSUME TypeInv, UntouchedInv, changes = 0,
         pc \in SearchSteps \cup {"count"}, pc' \in SearchSteps, SearchInv',
         UNCHANGED <<request, machine, broken, sysVars, core, evals, errors>>
  PROVE  UntouchedInv'
<1>1. RepeatInv /\ ProgressInv
  BY DEF UntouchedInv
<1>2. SearchError' = SearchError
  BY ErrorsAreFixed
<1>3. CallError' = SearchError /\ CallError = SearchError
  BY <1>2 DEF CallError, SearchSteps
<1>4. RepeatInv'
  BY <1>1, <1>3 DEF RepeatInv, SearchSteps, Steps, Ends
<1>5. ProgressInv'
  BY <1>1 DEF ProgressInv, SearchSteps, Found, Rooted
<1> QED
  BY <1>4, <1>5 DEF UntouchedInv, Indices

LEMMA CountStep == TypeInv /\ UntouchedInv /\ CountCaches => UntouchedInv'
<1> SUFFICES ASSUME TypeInv, UntouchedInv, CountCaches, changes = 0
             PROVE  UntouchedInv'
  BY DEF CountCaches, UntouchedInv
<1>0. /\ SysCore \in Cores /\ Len(machine[SysCore]) \in Nat \ {0}
      /\ Hits \subseteq Indices(SysCore)
      /\ dirs[SysCore] = IF SysCore \in online THEN Indices(SysCore) ELSE {}
      /\ Cardinality(Indices(SysCore)) = Len(machine[SysCore])
      /\ pc = "count"
      /\ UNCHANGED <<request, machine, broken, sysVars, core, file, info>>
  BY UntouchedSearch DEF CountCaches
<1>1. "io_sys_cpu" \in Errors
  BY KnownErrors DEF TypeInv, TypeOK
<1>2. CASE "io_sys_cpu" \notin broken /\ SysCore \in online
  <2>1. /\ count' = Len(machine[SysCore]) /\ i' = 0
        /\ pc' = "search" /\ UNCHANGED <<evals, errors>>
    BY <1>0, <1>2 DEF CountCaches, Outside
  <2>2. \A k \in Hits : 0 <= k
    BY <1>0 DEF Indices
  <2>3. Hits' = Hits /\ SysCore' = SysCore
    BY <1>0, ErrorsAreFixed
  <2>4. SearchInv'
    BY <1>0, <1>2, <2>1, <2>2, <2>3 DEF SearchInv
  <2> QED
    BY <1>0, <2>1, <2>4, InsideSearch DEF SearchSteps
<1>3. CASE "io_sys_cpu" \in broken \/ SysCore \notin online
  <2>1. SearchError = "io_sys_cpu"
    BY <1>3 DEF SearchError
  <2>2. EndSearch("io_sys_cpu")
    BY <1>0, <1>3 DEF CountCaches, Outside
  <2>3. EndSearch(SearchError) /\ SearchError \in Errors
    BY <1>1, <2>1, <2>2
  <2> QED
    BY <1>0, <2>1, <2>3, EndSearchStep
<1> QED
  BY <1>2, <1>3

LEMMA LoopStep ==
  TypeInv /\ GeometryInv /\ UntouchedInv /\ Search => UntouchedInv'
<1> SUFFICES ASSUME TypeInv, GeometryInv, UntouchedInv, Search, changes = 0
             PROVE  UntouchedInv'
  BY DEF Search, UntouchedInv
<1>0. /\ SysCore \in Cores /\ Len(machine[SysCore]) \in Nat \ {0}
      /\ Hits \subseteq Indices(SysCore) /\ SearchInv
      /\ pc = "search" /\ count = Len(machine[SysCore]) /\ i \in 0 .. count
      /\ UNCHANGED <<request, machine, broken, sysVars, core, count, i, info>>
  BY UntouchedSearch DEF Search, SearchInv, SearchSteps, TypeInv, TypeOK
<1>1. CASE i < count
  <2>1. pc' = "file" /\ file' = 1 /\ UNCHANGED <<evals, errors>>
    BY <1>1 DEF Search, MoreCaches
  <2>2. Hits' = Hits /\ SysCore' = SysCore /\ FileBreaks' = FileBreaks
    BY <1>0, ErrorsAreFixed
  <2>3. SearchInv'
    BY <1>0, <2>1, <2>2, FileNames DEF SearchInv, SearchSteps
  <2> QED
    BY <1>0, <2>1, <2>3, InsideSearch DEF SearchSteps
<1>2. CASE ~(i < count)
  <2>1. i = count /\ i > 0 /\ FileBreaks = {} /\ Whole(i - 1)
    BY <1>0, <1>2 DEF SearchInv, SearchSteps, GeometryInv
  <2>2. Hits = {}
    BY <1>0, <2>1 DEF SearchInv, SearchSteps, Indices
  <2>3. info["level"] = Len(machine[SysCore]) - 1
    BY <1>0, <2>1, FileNames DEF Whole
  <2>4. LevelFits = {LastFits}
    BY <1>0, <2>3 DEF LevelFits, LastFits, Value, Unread
  <2>5. EndSearch(IF LastFits THEN "none" ELSE "cache_not_exists")
    BY <1>2, <2>4 DEF Search, MoreCaches
  <2>6. SearchError = IF LastFits THEN "none" ELSE "cache_not_exists"
    BY <1>0, <2>1, <2>2 DEF SearchError, SearchInv, SearchSteps
  <2>7. SearchError \in Errors
    BY <2>6, KnownErrors DEF TypeInv, TypeOK
  <2> QED
    BY <1>0, <2>2, <2>5, <2>6, <2>7, EndSearchStep DEF SearchSteps
<1> QED
  BY <1>1, <1>2

LEMMA ReadFileStep == TypeInv /\ UntouchedInv /\ ReadFile => UntouchedInv'
<1> SUFFICES ASSUME TypeInv, UntouchedInv, ReadFile, changes = 0
             PROVE  UntouchedInv'
  BY DEF ReadFile, UntouchedInv
<1>0. /\ SysCore \in Cores /\ Len(machine[SysCore]) \in Nat \ {0}
      /\ \A e \in FileBreaks : FileBreaks = {e}
      /\ dirs[SysCore] = IF SysCore \in online THEN Indices(SysCore) ELSE {}
      /\ pc = "file" /\ SearchInv
      /\ UNCHANGED <<request, machine, broken, sysVars, core, count, i>>
  BY UntouchedSearch DEF ReadFile, SearchSteps
<1>1. /\ i \in 0 .. count /\ i < count /\ count \in Nat /\ file \in 1 .. 5
      /\ broken \subseteq Faults
      /\ DOMAIN Files = 1 .. 5 /\ Len(Files) = 5
  BY <1>0, FileNames DEF TypeInv, TypeOK
<1>2. /\ SysCore \in online /\ "io_sys_cpu" \notin broken
      /\ count = Len(machine[SysCore]) /\ \A k \in Hits : i <= k
      /\ \A f \in 1 .. 5 : f < file => FileError[f] \notin broken
      /\ file > 1 => "fmt" \notin broken
      /\ i > 0 => FileBreaks = {}
  BY <1>0, <1>1 DEF SearchInv, SearchSteps
<1>3. FileErrors = broken \cap {FileError[file], "fmt"}
  BY <1>0, <1>1, <1>2 DEF FileErrors, Indices
<1>4. CASE FileErrors = {}
  <2>1. /\ pc' = IF file < 5 THEN "file" ELSE "type"
        /\ file' = IF file < 5 THEN file + 1 ELSE file
        /\ UNCHANGED <<evals, errors>>
    BY <1>1, <1>4 DEF ReadFile, NextFile
  <2>2. /\ \A f \in 1 .. 5 : f <= file => FileError[f] \notin broken
        /\ "fmt" \notin broken
    BY <1>1, <1>2, <1>3, <1>4
  <2>3. file = 5 => FileBreaks = {}
    BY <1>1, <2>2 DEF FileBreaks
  <2>4. Hits' = Hits /\ SysCore' = SysCore /\ FileBreaks' = FileBreaks
    BY <1>0, ErrorsAreFixed
  <2>5. SearchInv'
    BY <1>0, <1>1, <1>2, <2>1, <2>2, <2>3, <2>4 DEF SearchInv, SearchSteps
  <2> QED
    BY <1>0, <2>1, <2>5, InsideSearch DEF SearchSteps
<1>5. CASE FileErrors # {}
  <2>1. PICK e \in FileErrors : EndSearch(e)
    BY <1>5 DEF ReadFile
  <2>2. e \in FileBreaks /\ e \in Errors /\ e # "none"
    <3>1. e \in FileBreaks
      BY <1>1, <1>3, <2>1 DEF FileBreaks
    <3>2. FileErrors \subseteq Errors
      BY <1>1, KnownErrors
    <3>3. e # "none"
      BY <1>1, <1>3, <2>1 DEF FileError
    <3> QED
      BY <2>1, <3>1, <3>2, <3>3
  <2>3. SearchError = e
    <3>1. FileBreaks = {e}
      BY <1>0, <2>2
    <3>2. (CHOOSE d \in {e} : TRUE) = e
      OBVIOUS
    <3> QED
      BY <1>2, <3>1, <3>2 DEF SearchError
  <2>4. EndSearch(SearchError)
    BY <2>1, <2>3
  <2> QED
    BY <1>0, <2>2, <2>3, <2>4, EndSearchStep DEF SearchSteps
<1> QED
  BY <1>4, <1>5

LEMMA ReadTypeStep ==
  TypeInv /\ GeometryInv /\ UntouchedInv /\ ReadType => UntouchedInv'
<1> SUFFICES ASSUME TypeInv, GeometryInv, UntouchedInv, ReadType, changes = 0
             PROVE  UntouchedInv'
  BY DEF ReadType, UntouchedInv
<1>0. /\ SysCore \in Cores /\ Len(machine[SysCore]) \in Nat \ {0}
      /\ Hits \subseteq Indices(SysCore)
      /\ dirs[SysCore] = IF SysCore \in online THEN Indices(SysCore) ELSE {}
      /\ pc = "type" /\ SearchInv /\ Whole(i)
      /\ UNCHANGED <<request, machine, broken, sysVars, core, count, file>>
  BY UntouchedSearch DEF ReadType, SearchSteps, GeometryInv
<1>1. /\ i \in Nat /\ i < count /\ "type" \in Fields
      /\ info \in [Fields -> Nat \cup {Unread, Gone}]
  BY <1>0, FileNames DEF TypeInv, TypeOK
<1>2. /\ SysCore \in online /\ "io_sys_cpu" \notin broken
      /\ count = Len(machine[SysCore]) /\ \A k \in Hits : i <= k
      /\ FileBreaks = {}
  BY <1>0 DEF SearchInv, SearchSteps
<1>3. i \in dirs[SysCore] /\ i \in Indices(SysCore)
  BY <1>0, <1>1, <1>2 DEF Indices
<1>4. Wanted <=> i \in Hits
  <2>1. info["level"] = i
    BY <1>0, FileNames DEF Whole
  <2>2. Value("level") = machine[SysCore][i + 1].level
    BY <1>1, <2>1 DEF Value, Unread
  <2> QED
    BY <1>3, <2>2 DEF Wanted, Hits
<1>5. CASE i \in Hits
  <2>1. EndSearch("none") /\ info'.type = i
    BY <1>1, <1>3, <1>4, <1>5 DEF ReadType
  <2>2. SearchError = "none"
    BY <1>2, <1>5 DEF SearchError
  <2>3. Min(Hits) = i
    <3>1. Hits \in SUBSET Nat /\ Hits # {}
      BY <1>0, <1>5 DEF Indices
    <3> DEFINE m == Min(Hits)
    <3>2. m \in Hits /\ m <= i
      BY <1>5, <3>1, MinOfNaturals
    <3> HIDE DEF m
    <3>3. m \in Nat /\ i <= m
      BY <1>2, <3>1, <3>2
    <3>4. m = i
      BY <1>1, <3>2, <3>3
    <3> QED
      BY <3>4 DEF m
  <2>4. EndSearch(SearchError) /\ SearchError \in Errors
    BY <2>1, <2>2, KnownErrors DEF TypeInv, TypeOK
  <2> QED
    BY <1>0, <2>1, <2>3, <2>4, EndSearchStep DEF SearchSteps
<1>6. CASE i \notin Hits
  <2>1. pc' = "search" /\ i' = i + 1 /\ UNCHANGED <<evals, errors>>
    BY <1>3, <1>4, <1>6 DEF ReadType
  <2>2. \A k \in Hits : i + 1 <= k
    BY <1>0, <1>1, <1>2, <1>6 DEF Indices
  <2>3. Hits' = Hits /\ SysCore' = SysCore /\ FileBreaks' = FileBreaks
    BY <1>0, ErrorsAreFixed
  <2>4. SearchInv'
    BY <1>0, <1>2, <2>1, <2>2, <2>3 DEF SearchInv
  <2> QED
    BY <1>0, <2>1, <2>4, InsideSearch DEF SearchSteps
<1> QED
  BY <1>5, <1>6

LEMMA ChecksStep ==
  TypeInv /\ UntouchedInv
    /\ (CheckRoot \/ CheckRdpmc \/ OpenOutput \/ AllocBuffer) => UntouchedInv'
<1> SUFFICES ASSUME TypeInv, UntouchedInv, changes = 0,
                    CheckRoot \/ CheckRdpmc \/ OpenOutput \/ AllocBuffer
             PROVE  UntouchedInv'
  BY DEF CheckRoot, CheckRdpmc, OpenOutput, AllocBuffer, UntouchedInv
<1> DEFINE checks == {"root", "rdpmc", "open", "alloc"}
<1>0. /\ RepeatInv /\ ProgressInv /\ evals \in 1 .. 3
      /\ pc \in checks /\ Searched /\ core \in online
      /\ request.mode # "info"
      /\ UNCHANGED <<request, machine, broken, sysVars, core, searchVars>>
  <2>1. pc \in checks /\ RepeatInv /\ ProgressInv
    BY DEF CheckRoot, CheckRdpmc, OpenOutput, AllocBuffer, UntouchedInv
  <2> QED
    BY <2>1 DEF ProgressInv, Found, Rooted, CheckRoot, CheckRdpmc, OpenOutput,
                AllocBuffer, TypeInv, TypeOK
<1>1. /\ BindError' = BindError /\ SearchError' = SearchError
      /\ RdpmcError' = RdpmcError /\ OutputError' = OutputError
      /\ AllocError' = AllocError /\ Hits' = Hits
  BY <1>0, ErrorsAreFixed
<1>2. Searched'
  BY <1>0, <1>1 DEF Searched
<1>3. /\ RdpmcError \in Errors /\ OutputError \in Errors
      /\ AllocError \in Errors
  BY KnownErrors DEF RdpmcError, OutputError, AllocError, TypeInv, TypeOK
<1>4. CASE CheckRoot
  <2>1. evals = 1 /\ UNCHANGED <<evals, errors>> /\ pc = "root"
    BY <1>0, <1>4 DEF CheckRoot, RepeatInv, CallError, SearchSteps, Steps
  <2>2. pc' = IF request.root THEN "rdpmc" ELSE "exit"
    BY <1>4 DEF CheckRoot
  <2>3. SearchInv' /\ RepeatInv'
    BY <1>0, <2>1, <2>2 DEF SearchInv, RepeatInv, SearchSteps
  <2>4. ProgressInv'
    BY <1>0, <1>2, <2>1, <2>2 DEF ProgressInv, Rooted
  <2> QED
    BY <1>0, <2>3, <2>4 DEF UntouchedInv, Indices
(* The three checks that EXIT_ON_FAIL may evaluate again.                  *)
<1>5. ASSUME NEW error \in Errors, NEW entry, NEW continue,
             \/ /\ entry = "rdpmc" /\ continue = Branch /\ error = RdpmcError
             \/ entry = "open" /\ continue = "alloc" /\ error = OutputError
             \/ entry = "alloc" /\ continue = "ready" /\ error = AllocError,
             pc = entry, Return(error, entry, continue)
      PROVE  UntouchedInv'
  <2>1. error = CallError /\ pc \in Steps
    BY <1>5 DEF CallError, SearchSteps, Steps
  <2>2. \/ /\ evals = 1 /\ error = "none" /\ pc' = continue
           /\ UNCHANGED <<evals, errors>>
           /\ errors = [e \in 1 .. 3 |-> "none"]
        \/ /\ error # "none" /\ evals' > 1 /\ pc' = entry
           /\ \A e \in 1 .. evals' - 1 : errors'[e] = error
        \/ /\ error # "none" /\ pc' = "failed"
           /\ errors'[1] = error /\ errors'[2] = error /\ errors'[3] = error
    BY <1>0, <1>5, <2>1, RepeatStep
  <2>3. /\ request.root /\ (pc # "rdpmc" => RdpmcError = "none")
        /\ pc \in {"open", "alloc"} => request.mode = "profile"
    BY <1>0, <1>5 DEF ProgressInv, Rooted
  <2>4. evals' \in 1 .. 3
    BY <1>5, ReturnType DEF TypeInv
  <2>5. CASE evals = 1 /\ error = "none" /\ pc' = continue
               /\ UNCHANGED <<evals, errors>>
               /\ errors = [e \in 1 .. 3 |-> "none"]
    <3>1. continue \in {"ready", "open", "unknown", "alloc"}
      BY <1>5 DEF Branch
    <3>2. SearchInv' /\ RepeatInv'
      BY <2>5, <3>1 DEF SearchInv, RepeatInv, SearchSteps
    <3>3. /\ RdpmcError = "none" /\ request.root
          /\ continue \in {"open", "alloc"} => request.mode = "profile"
          /\ continue = "unknown" => request.mode = "other"
          /\ continue = "ready" =>
               \/ request.mode = "bench"
               \/ request.mode = "profile" /\ AllocError = "none"
      <4>1. request \in Request
        BY SetupAssumption DEF TypeInv, TypeOK
      <4> QED
        BY <1>0, <1>5, <2>3, <2>5, <4>1 DEF Branch, Request
    <3>4. ProgressInv'
      BY <1>0, <1>1, <1>2, <2>5, <3>1, <3>3 DEF ProgressInv, Rooted
    <3> QED
      BY <1>0, <3>2, <3>4 DEF UntouchedInv, Indices
  <2>6. CASE error # "none" /\ evals' > 1 /\ pc' = entry
               /\ \A e \in 1 .. evals' - 1 : errors'[e] = error
    <3>1. CallError' = error
      BY <1>1, <1>5, <2>6 DEF CallError, SearchSteps
    <3>2. CallError' # "none"
            /\ \A e \in 1 .. evals' - 1 : errors'[e] = CallError'
      BY <2>6, <3>1
    <3>3. evals' # 1 /\ pc' \notin Ends /\ pc' \notin SearchSteps
      BY <1>5, <2>6 DEF Ends, SearchSteps
    <3>4. SearchInv' /\ RepeatInv'
      BY <3>2, <3>3 DEF SearchInv, RepeatInv
    <3>5. ProgressInv'
      BY <1>0, <1>1, <1>2, <1>5, <2>3, <2>6 DEF ProgressInv, Rooted
    <3> QED
      BY <1>0, <3>4, <3>5 DEF UntouchedInv, Indices
  <2>7. CASE error # "none" /\ pc' = "failed"
               /\ errors'[1] = error /\ errors'[2] = error /\ errors'[3] = error
    <3>1. SearchInv' /\ RepeatInv'
      BY <2>7 DEF SearchInv, RepeatInv, SearchSteps, Steps
    <3>2. ProgressInv'
      BY <1>0, <1>1, <1>2, <1>5, <2>3, <2>7 DEF ProgressInv, Found, Rooted
    <3> QED
      BY <1>0, <3>1, <3>2 DEF UntouchedInv, Indices
  <2> QED
    BY <2>2, <2>5, <2>6, <2>7
<1>6. CASE CheckRdpmc
  BY <1>3, <1>5, <1>6 DEF CheckRdpmc
<1>7. CASE OpenOutput
  BY <1>3, <1>5, <1>7 DEF OpenOutput
<1>8. CASE AllocBuffer
  BY <1>3, <1>5, <1>8 DEF AllocBuffer
<1> QED
  BY <1>4, <1>6, <1>7, <1>8

(* On an untouched machine the tools have not begun, and the kernel has no *)
(* directory to remove or to add.                                          *)
LEMMA WorldStep ==
  TypeInv /\ UntouchedInv /\ Environment => UntouchedInv'
<1> SUFFICES ASSUME TypeInv, UntouchedInv, Environment, changes' = 0
             PROVE  FALSE
  BY DEF UntouchedInv, Environment, SwitchRdpmc, SwitchHugepages, Unplug, Plug,
         Change, RemoveDir, AddDir, programVars
<1>1. changes \in Nat /\ Switched \subseteq Cores
  BY SetupAssumption DEF TypeInv, TypeOK
<1>2. CASE \/ SwitchRdpmc \/ SwitchHugepages
           \/ \E c \in Switched : Unplug(c) \/ Plug(c)
  BY <1>1, <1>2 DEF SwitchRdpmc, SwitchHugepages, Unplug, Plug, Change
<1>3. CASE \E c \in Switched : RemoveDir(c) \/ AddDir(c)
  BY <1>1, <1>3 DEF RemoveDir, AddDir, UntouchedInv
<1> QED
  BY <1>2, <1>3 DEF Environment

LEMMA UntouchedStep ==
  TypeInv /\ GeometryInv /\ UntouchedInv /\ [Next]_vars => UntouchedInv'
<1> SUFFICES ASSUME TypeInv, GeometryInv, UntouchedInv, [Next]_vars
             PROVE  UntouchedInv'
  OBVIOUS
<1>1. CASE UNCHANGED vars
  <2>1. /\ BindError' = BindError /\ SearchError' = SearchError
        /\ RdpmcError' = RdpmcError /\ OutputError' = OutputError
        /\ AllocError' = AllocError
        /\ FileBreaks' = FileBreaks /\ Hits' = Hits /\ SysCore' = SysCore
    BY <1>1, ErrorsAreFixed DEF vars
  <2>2. CallError' = CallError /\ Searched' = Searched /\ Found' = Found
    BY <1>1, <2>1 DEF vars, CallError, Searched, Found
  <2>3. SearchInv' = SearchInv
    BY <1>1, <2>1 DEF vars, SearchInv
  <2>4. RepeatInv' = RepeatInv /\ ProgressInv' = ProgressInv
    BY <1>1, <2>1, <2>2 DEF vars, RepeatInv, ProgressInv
  <2> QED
    BY <1>1, <2>3, <2>4 DEF vars, UntouchedInv, Indices
<1> QED
  BY <1>1, BindStep, CountStep, LoopStep, ReadFileStep, ReadTypeStep,
     ChecksStep, WorldStep DEF Next, Program, Ended

LEMMA InitUntouched == Init => UntouchedInv
<1> SUFFICES ASSUME Init PROVE UntouchedInv
  OBVIOUS
<1>1. \A d, e \in broken : d = e
  BY DEF Init
<1>2. \A c \in Cores : dirs[c] = IF c \in online THEN Indices(c) ELSE {}
  BY DEF Init
<1>3. SearchInv /\ RepeatInv /\ ProgressInv
  BY DEF Init, SearchInv, RepeatInv, ProgressInv, SearchSteps, Ends, Found,
     Rooted
<1> QED
  BY <1>1, <1>2, <1>3 DEF UntouchedInv

LEMMA SetupInvariant == Spec => [](TypeInv /\ UntouchedInv)
<1>1. Init => GeometryInv
  BY DEF Init, GeometryInv, Found
<1> QED
  BY <1>1, InitType, InitUntouched, StepType, GeometryStep, UntouchedStep, PTL
     DEF Spec

-----------------------------------------------------------------------------
(* What the user sees of an untouched machine                              *)

(* Nothing is broken: what the calls return then.                          *)
LEMMA HealthyErrors ==
  ASSUME broken = {}
  PROVE  /\ BindError = IF request.core \in online \cup {-1}
                        THEN "none" ELSE "set_affinity"
         /\ SearchError = IF SysCore \notin online THEN "io_sys_cpu"
                          ELSE IF Hits = {} /\ ~LastFits
                               THEN "cache_not_exists" ELSE "none"
         /\ RdpmcError = IF mode = 2 THEN "none" ELSE "rdpmc"
         /\ OutputError = "none"
         /\ AllocError = IF huge THEN "none" ELSE "no_hugepages"
BY DEF BindError, SearchError, RdpmcError, OutputError, AllocError, FileBreaks,
       Outside

(* A run that ends well has kept no error of any call.                     *)
LEMMA HowItEnds ==
  ASSUME UntouchedInv, pc \in Ends, changes = 0
  PROVE  \/ pc = "failed"
         \/ /\ pc \in {"info", "exit", "unknown", "ready"} /\ Searched
            /\ errors[1] = "none"
BY DEF UntouchedInv, RepeatInv, ProgressInv, Ends, Found

(* On a machine nobody touches the search finds the first data or unified  *)
(* cache of the level on the core that was asked for, whatever caches the  *)
(* core has and in whatever order sysfs numbers them; without one it fails,*)
(* except that a last directory of the level is taken, whatever its type.  *)
THEOREM SearchExact == Spec => []SearchIsExact
<1>1. TypeInv /\ UntouchedInv => SearchIsExact
  <2> SUFFICES ASSUME TypeInv, UntouchedInv, pc \in Ends, changes = 0,
                      broken = {}, errors[1] # "set_affinity",
                      core < ByteLimit
               PROVE  IF Hits # {}
                      THEN errors[1] # "cache_not_exists"
                             /\ info.type = Min(Hits)
                      ELSE LastFits <=> errors[1] # "cache_not_exists"
    BY DEF SearchIsExact
  <2>1. core \in online => SysCore = core
    <3>1. core \in online => core \in Nat /\ ByteLimit \in Nat \ {0}
      BY SetupAssumption DEF TypeInv, TypeOK
    <3>2. \A x \in Nat, n \in Nat \ {0} : x < n => x % n = x
      OBVIOUS
    <3> QED
      BY <3>1, <3>2 DEF SysCore
  <2>2. CASE Searched /\ errors[1] # "cache_not_exists"
    <3>1. Hits # {} \/ LastFits
      BY <2>2, HealthyErrors DEF Searched
    <3> QED
      BY <2>2, <3>1 DEF Searched
  <2>3. CASE pc = "failed"
    <3>1. /\ errors[1] # "none"
          /\ \/ errors[1] = BindError
             \/ core \in online /\ errors[1] = SearchError
             \/ Searched /\ errors[1] = RdpmcError
             \/ Searched /\ RdpmcError = "none" /\ errors[1] = OutputError
             \/ Searched /\ errors[1] = AllocError
      BY <2>3 DEF UntouchedInv, ProgressInv
    <3>2. CASE core \in online /\ errors[1] = SearchError
      BY <2>1, <3>1, <3>2, HealthyErrors
    <3>3. CASE Searched /\ errors[1] \in {RdpmcError, AllocError}
      BY <2>2, <3>3, HealthyErrors
    <3> QED
      BY <3>1, <3>2, <3>3, HealthyErrors
  <2> QED
    BY <2>2, <2>3, HowItEnds
<1> QED
  BY <1>1, SetupInvariant, PTL

(* On a machine nobody touches and where no call fails for other reasons,  *)
(* main gets as far as the workload and profile(), or benchmark(), if and  *)
(* only if the preparations were made: the core, its cache, the rights,    *)
(* rdpmc and, for profile(), huge pages.                                   *)
THEOREM SetupExact == Spec => []SetupIsExact
<1> DEFINE prepared ==
             /\ request.mode \in {"profile", "bench"} /\ request.root
             /\ mode = 2
             /\ request.core \in online \cup {-1} /\ SysCore \in online
             /\ Hits # {} \/ LastFits
             /\ request.mode = "profile" => huge
<1>1. TypeInv /\ UntouchedInv => SetupIsExact
  <2> SUFFICES ASSUME TypeInv, UntouchedInv, pc \in Ends, changes = 0,
                      broken = {}
               PROVE  pc # "crashed" /\ (pc = "ready" <=> prepared)
    BY DEF SetupIsExact
  <2>0. ProgressInv
    BY DEF UntouchedInv
  <2>1. pc # "crashed"
    BY <2>0 DEF ProgressInv
  <2>2. ASSUME pc = "ready" PROVE prepared
    <3>1. /\ core \in online /\ Searched /\ RdpmcError = "none"
          /\ request.root
          /\ \/ request.mode = "bench"
             \/ request.mode = "profile" /\ AllocError = "none"
      BY <2>0, <2>2 DEF ProgressInv, Found, Rooted
    <3>2. request.core = -1 \/ core = request.core
      BY <2>2 DEF TypeInv
    <3> QED
      BY <3>1, <3>2, HealthyErrors DEF Searched
  <2>3. ASSUME prepared PROVE pc = "ready"
    <3>1. /\ BindError = "none" /\ SearchError = "none"
          /\ RdpmcError = "none" /\ OutputError = "none"
          /\ request.mode = "profile" => AllocError = "none"
      BY <2>3, HealthyErrors
    <3>2. pc # "failed"
      BY <2>0, <3>1 DEF ProgressInv
    <3>3. pc # "info" /\ pc # "exit" /\ pc # "unknown"
      BY <2>0, <2>3 DEF ProgressInv
    <3> QED
      BY <3>2, <3>3, HowItEnds
  <2> QED
    BY <2>1, <2>2, <2>3
<1> QED
  BY <1>1, SetupInvariant, PTL

(* The errors of these calls whose number nobody else in the table has.    *)
OwnText ==
  {"set_affinity", "get_cpu_core", "io_sys_cpu", "cache_not_exists",
   "io_line_size", "io_total_size", "io_set_number", "io_levels",
   "io_associativity", "rdpmc", "io_rdpmc", "io_hugepage_number",
   "no_hugepages", "mmap"}

LEMMA TextIsFound ==
  ASSUME NEW error, NEW n \in 1 .. 31, Table[n] = error,
         \A k \in 1 .. 31 : Number[Table[k]] = Number[error] <=> k = n
  PROVE  Decode(error) = error
<1> DEFINE hits == {k \in DOMAIN Table : Number[Table[k]] = Number[error]}
<1>1. DOMAIN Table = 1 .. 31
  BY DEF Table
<1>2. hits = {n}
  BY <1>1
<1>3. Min({n}) = n
  BY MinOfNaturals
<1> QED
  BY <1>2, <1>3 DEF Decode

LEMMA DecodeIsOwn == \A e \in OwnText : Decode(e) = e
<1>1. \A k \in 1 .. 31 : Number[Table[k]] = -6 <=> k = 6
  BY DEF Table, Number
<1>2. \A k \in 1 .. 31 : Number[Table[k]] = -12 <=> k = 11
  BY DEF Table, Number
<1>3. \A k \in 1 .. 31 : Number[Table[k]] = -22 <=> k = 19
  BY DEF Table, Number
<1>4. \A k \in 1 .. 31 : Number[Table[k]] = -25 <=> k = 23
  BY DEF Table, Number
<1>5. \A k \in 1 .. 31 : Number[Table[k]] = -29 <=> k = 24
  BY DEF Table, Number
<1>6. \A k \in 1 .. 31 : Number[Table[k]] = -28 <=> k = 25
  BY DEF Table, Number
<1>7. \A k \in 1 .. 31 : Number[Table[k]] = -30 <=> k = 26
  BY DEF Table, Number
<1>8. \A k \in 1 .. 31 : Number[Table[k]] = -32 <=> k = 27
  BY DEF Table, Number
<1>9. \A k \in 1 .. 31 : Number[Table[k]] = -33 <=> k = 28
  BY DEF Table, Number
<1>10. \A k \in 1 .. 31 : Number[Table[k]] = -35 <=> k = 30
  BY DEF Table, Number
<1>11. \A k \in 1 .. 31 : Number[Table[k]] = -36 <=> k = 31
  BY DEF Table, Number
<1>12. \A k \in 1 .. 31 : Number[Table[k]] = -34 <=> k = 29
  BY DEF Table, Number
<1>13. \A k \in 1 .. 31 : Number[Table[k]] = -13 <=> k = 12
  BY DEF Table, Number
<1>14. \A k \in 1 .. 31 : Number[Table[k]] = -11 <=> k = 10
  BY DEF Table, Number
<1>15. /\ Number["set_affinity"] = -6 /\ Number["cache_not_exists"] = -12
       /\ Number["get_cpu_core"] = -22 /\ Number["io_sys_cpu"] = -25
       /\ Number["io_total_size"] = -29 /\ Number["io_line_size"] = -28
       /\ Number["io_set_number"] = -30 /\ Number["io_levels"] = -32
       /\ Number["io_associativity"] = -33 /\ Number["io_rdpmc"] = -35
       /\ Number["rdpmc"] = -36 /\ Number["io_hugepage_number"] = -34
       /\ Number["no_hugepages"] = -13 /\ Number["mmap"] = -11
  BY DEF Number
<1>16. /\ Table[6] = "set_affinity" /\ Table[11] = "cache_not_exists"
       /\ Table[19] = "get_cpu_core" /\ Table[23] = "io_sys_cpu"
       /\ Table[24] = "io_total_size" /\ Table[25] = "io_line_size"
       /\ Table[26] = "io_set_number" /\ Table[27] = "io_levels"
       /\ Table[28] = "io_associativity" /\ Table[30] = "io_rdpmc"
       /\ Table[31] = "rdpmc" /\ Table[29] = "io_hugepage_number"
       /\ Table[12] = "no_hugepages" /\ Table[10] = "mmap"
  BY DEF Table
<1>17. ASSUME NEW e \in OwnText
       PROVE  \E n \in 1 .. 31 : /\ Table[n] = e
                                 /\ \A k \in 1 .. 31 :
                                      Number[Table[k]] = Number[e] <=> k = n
  BY <1>1, <1>2, <1>3, <1>4, <1>5, <1>6, <1>7, <1>8, <1>9, <1>10, <1>11,
     <1>12, <1>13, <1>14, <1>15, <1>16 DEF OwnText
<1> QED
  BY <1>17, TextIsFound

(* On a machine nobody touches the second and the third evaluation of a    *)
(* failed call return what the first returned, so that its message is about*)
(* the error that stopped the program.                                     *)
THEOREM MessageIsRight == Spec => []MessageFits
<1>1. TypeInv /\ UntouchedInv => MessageFits
  <2> SUFFICES ASSUME TypeInv, UntouchedInv, pc = "failed", changes = 0,
                      errors[1] \notin {"fmt", "chmod", "hdf5_error"}
               PROVE  Decode(errors[2]) = errors[1]
                        /\ Decode(errors[3]) = errors[1]
    BY DEF MessageFits
  <2>1. /\ errors[1] # "none" /\ errors[2] = errors[1] /\ errors[3] = errors[1]
        /\ errors[1] \in {BindError, SearchError, RdpmcError, OutputError,
                          AllocError}
    BY DEF UntouchedInv, ProgressInv
  <2>2. BindError \in OwnText \cup {"none"}
    BY DEF BindError, Outside, OwnText
  <2>3. SearchError \in OwnText \cup {"none", "fmt"}
    <3>1. \A f \in DOMAIN Files : FileError[f] \in OwnText
      BY FileNames DEF FileError, OwnText
    <3>2. FileBreaks \subseteq OwnText \cup {"fmt"}
      BY <3>1 DEF FileBreaks
    <3> QED
      BY <3>2 DEF SearchError, OwnText
  <2>4. RdpmcError \in OwnText \cup {"none"}
    BY DEF RdpmcError, Outside, OwnText
  <2>5. OutputError \in {"none", "chmod", "hdf5_error"}
    BY DEF OutputError, Outside
  <2>6. AllocError \in OwnText \cup {"none"}
    BY DEF AllocError, Outside, OwnText
  <2>7. errors[1] \in OwnText
    BY <2>1, <2>2, <2>3, <2>4, <2>5, <2>6
  <2> QED
    BY <2>1, <2>7, DecodeIsOwn
<1> QED
  BY <1>1, SetupInvariant, PTL
=============================================================================
