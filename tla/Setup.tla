-------------------------------- MODULE Setup --------------------------------
(***************************************************************************)
(* How main() of src/src/main.c finds out about the machine before it      *)
(* measures: it binds itself to a core, searches the core's cache in sysfs *)
(* (src/src/sys_info.c), checks that rdpmc may be used, opens its output   *)
(* and allocates its buffer in huge pages.  Profiler has the same calls as *)
(* steps that succeed or fail; here each file is read on its own, and what *)
(* EXIT_ON_FAIL prints is modelled.                                        *)
(*                                                                         *)
(* Meanwhile somebody may use the tools of the repository: toggleSMT.py    *)
(* takes a core offline or back online, on which the kernel (external)     *)
(* removes or adds the directories of its caches one by one, toggleRDPMC.py*)
(* changes the mode of rdpmc and toggleHugepages.py the number of huge     *)
(* pages, of which only is kept whether there are any.                     *)
(*                                                                         *)
(* A field of cache_info_t is abstracted to the index directory it was     *)
(* read from.                                                              *)
(***************************************************************************)
EXTENDS Naturals, Sequences, FiniteSets, FiniteSetsExt, ErrorTable

CONSTANTS
  Cores,      (* core numbers                                              *)
  ByteLimit,  (* 2^8: cache_info_new takes core and level as uint8_t       *)
  Machines,   (* the caches of every core, by index                        *)
  Requests,   (* the command lines considered                              *)
  Faults,     (* errors with reasons outside of this model                 *)
  Switched,   (* the cores that toggleSMT.py switches during a run         *)
  MaxChanges  (* bound: writes of the three tools during the run           *)

(* One directory index<n> of sysfs; total_size is in bytes.                *)
CacheDir ==
  [line_size : Nat, total_size : Nat, set_count : Nat, level : Nat,
   ways : Nat, type : {"data", "instruction", "unified", "other"}]

Request ==
  [mode : {"info", "profile", "bench", "other"}, core : Nat \cup {-1}, level : Nat,
   root : BOOLEAN, file : BOOLEAN]

ASSUME SetupAssumption ==
  /\ Cores \subseteq Nat /\ ByteLimit \in Nat \ {0}
  /\ \A c \in Cores : c % ByteLimit \in Cores
  /\ Machines \subseteq [Cores -> Seq(CacheDir) \ {<<>>}]
  /\ \A m \in Machines : \A c \in Cores : \A k \in DOMAIN m[c] :
       m[c][k].total_size =
         m[c][k].line_size * m[c][k].set_count * m[c][k].ways
  /\ Requests \subseteq Request /\ Faults \subseteq Errors
  /\ Switched \subseteq Cores \ {0} /\ MaxChanges \in Nat

(* The files of cache_info_fill in the order they are read, the type last. *)
Files == <<"line_size", "total_size", "set_count", "level", "ways">>

FileError ==
  <<"io_line_size", "io_total_size", "io_set_number", "io_levels",
    "io_associativity">>

Fields == {Files[f] : f \in DOMAIN Files} \cup {"type"}

Unread == -1  (* a field nothing was assigned to yet                       *)
Gone == -2    (* the type file could be opened, but not read               *)

VARIABLES
  request,    (* the command line                                          *)
  machine,    (* the caches of the cores                                   *)
  broken,     (* the outside failures of this run                          *)
  online,     (* the cores that are online                                 *)
  dirs,       (* the index directories present for each core               *)
  mode,       (* the content of the rdpmc file                             *)
  huge,       (* nr_hugepages is not 0                                     *)
  changes,    (* history: how often a tool was used during the run         *)
  pc, evals,  (* the next call of main and which evaluation of it this is  *)
  errors,     (* what the evaluations of the failed call returned          *)
  core,       (* arguments.cpu                                             *)
  count, i,   (* locals of cache_info_new                                  *)
  file,       (* the file cache_info_fill is at                            *)
  info        (* main's cache                                              *)

sysVars    == <<online, dirs, mode, huge, changes>>
searchVars == <<count, i, file, info>>

vars == <<request, machine, broken, sysVars, pc, evals, errors, core,
          searchVars>>

Indices(c) == 0 .. Len(machine[c]) - 1

Steps ==
  {"bind", "count", "search", "file", "type", "root", "rdpmc", "open", "alloc"}

Ends == {"ready", "info", "unknown", "failed", "exit", "crashed"}

TypeOK ==
  /\ request \in Requests /\ machine \in Machines /\ broken \subseteq Faults
  /\ online \subseteq Cores /\ mode \in 0 .. 2 /\ huge \in BOOLEAN
  /\ changes \in 0 .. MaxChanges
  /\ DOMAIN dirs = Cores /\ \A c \in Cores : dirs[c] \subseteq Indices(c)
  /\ pc \in Steps \cup Ends /\ evals \in 1 .. 3
  /\ errors \in [1 .. 3 -> Errors]
  /\ core \in Nat \cup {-1}
  /\ count \in Nat /\ i \in 0 .. count /\ file \in DOMAIN Files
  /\ info \in [Fields -> Nat \cup {Unread, Gone}]

(* The core whose directory is looked at: its number as uint8_t.           *)
SysCore == core % ByteLimit

Level == request.level % ByteLimit

(* The value of a field; one that was not read matches nothing.            *)
Value(f) ==
  IF info[f] = Unread THEN Unread ELSE machine[SysCore][info[f] + 1][f]

-----------------------------------------------------------------------------

Init ==
  /\ request \in Requests /\ machine \in Machines
  /\ broken \in {{}} \cup {{e} : e \in Faults}
  /\ \/ online = Cores
     \/ \E c \in Switched : online = Cores \ {c}
  /\ dirs = [c \in Cores |-> IF c \in online THEN Indices(c) ELSE {}]
  /\ mode \in 0 .. 2 /\ huge \in BOOLEAN /\ changes = 0
  /\ pc = "bind" /\ evals = 1 /\ errors = [e \in 1 .. 3 |-> "none"]
  /\ core = request.core
  /\ count = 0 /\ i = 0 /\ file = 1
  /\ info = [f \in Fields |-> Unread]

(* Mutant of Return: the call is evaluated until it succeeds.              *)
ReturnUnbounded(error, entry, continue) ==
  IF error = "none"
  THEN pc' = continue /\ UNCHANGED <<evals, errors>>
  ELSE /\ errors' = [errors EXCEPT ![1] = error]
       /\ pc' = entry /\ evals' = evals + 1

(* EXIT_ON_FAIL: a failed call is evaluated again for the text and for the *)
(* number of the message, whatever that returns.                           *)
Return(error, entry, continue) ==
  IF error = "none" /\ evals = 1
  THEN pc' = continue /\ UNCHANGED <<evals, errors>>
  ELSE /\ errors' = [errors EXCEPT ![evals] = error]
       /\ IF evals < 3
          THEN pc' = entry /\ evals' = evals + 1
          ELSE pc' = "failed" /\ UNCHANGED evals

(* The first of these errors that is a failure of this run.                *)
Outside(e) == IF e \in broken THEN e ELSE "none"

(* focus_cpu_core(this_pid, -c), or get_current_cpu_core for -c -1.        *)
Bind ==
  /\ pc = "bind"
  /\ IF request.core # -1
     THEN /\ Return(IF request.core \in online THEN Outside("set_affinity")
                                               ELSE "set_affinity",
                    "bind", "count")
          /\ UNCHANGED core
     ELSE /\ Return(Outside("get_cpu_core"), "bind", "count")
          /\ IF pc' = "count" THEN core' \in online ELSE UNCHANGED core
  /\ UNCHANGED <<request, machine, broken, sysVars, searchVars>>

(* What cache_info_new returns to main.                                    *)
EndSearch(error) ==
  Return(error, "count", IF request.mode = "info" THEN "info" ELSE "root")

(* cache_count.                                                            *)
CountCaches ==
  /\ pc = "count"
  /\ IF Outside("io_sys_cpu") = "none"
          /\ (SysCore \in online \/ dirs[SysCore] # {})
     THEN /\ count' = Cardinality(dirs[SysCore])
          /\ pc' = "search" /\ UNCHANGED <<evals, errors>>
     ELSE EndSearch("io_sys_cpu") /\ count' = 0
  /\ i' = 0
  /\ UNCHANGED <<request, machine, broken, sysVars, core, file, info>>

MoreCaches == i < count

(* info->level, if nothing was read into it, is whatever the stack held.   *)
LevelFits ==
  IF info.level = Unread THEN BOOLEAN ELSE {Value("level") = Level}

(* The loop test of cache_info_new, and its check after the loop.          *)
Search ==
  /\ pc = "search"
  /\ IF MoreCaches
     THEN pc' = "file" /\ file' = 1 /\ UNCHANGED <<evals, errors>>
     ELSE /\ \E fits \in LevelFits :
               EndSearch(IF fits THEN "none" ELSE "cache_not_exists")
          /\ UNCHANGED file
  /\ UNCHANGED <<request, machine, broken, sysVars, core, count, i, info>>

NextFile == IF file < Len(Files) THEN "file" ELSE "type"

(* The errors READ_PROP_PUT may return for the current file.  A directory  *)
(* that vanishes under an open file leaves nothing to scan.                *)
FileErrors ==
  IF i \notin dirs[SysCore] THEN {FileError[file], "fmt"}
  ELSE broken \cap {FileError[file], "fmt"}

(* Mutant of ReadFile: its error is not forwarded.                         *)
ReadFileUnchecked ==
  /\ pc = "file"
  /\ IF FileErrors = {} THEN info' = [info EXCEPT ![Files[file]] = i]
                        ELSE UNCHANGED info
  /\ pc' = NextFile
  /\ file' = IF file < Len(Files) THEN file + 1 ELSE file
  /\ UNCHANGED <<request, machine, broken, sysVars, evals, errors, core,
                 count, i>>

(* READ_PROP_PUT in cache_info_fill.                                       *)
ReadFile ==
  /\ pc = "file"
  /\ IF FileErrors = {}
     THEN /\ info' = [info EXCEPT ![Files[file]] = i]
          /\ pc' = NextFile
          /\ file' = IF file < Len(Files) THEN file + 1 ELSE file
          /\ UNCHANGED <<evals, errors>>
     ELSE (\E e \in FileErrors : EndSearch(e)) /\ UNCHANGED <<file, info>>
  /\ UNCHANGED <<request, machine, broken, sysVars, core, count, i>>

(* Mutant of Wanted: unified caches are forgotten, so that the search goes *)
(* on after one.                                                           *)
WantedData ==
  /\ machine[SysCore][i + 1].type = "data"
  /\ Value("level") = Level

(* A data or unified cache of the level ends the search.                   *)
Wanted ==
  /\ machine[SysCore][i + 1].type \in {"data", "unified"}
  /\ Value("level") = Level

(* The type file.  Its fopen is not checked: a directory that has vanished *)
(* by now crashes the program, one that vanishes after it leaves no type.  *)
ReadType ==
  /\ pc = "type"
  /\ IF i \in dirs[SysCore] /\ Wanted
     THEN EndSearch("none") /\ UNCHANGED i
     ELSE \/ pc' = "search" /\ i' = i + 1 /\ UNCHANGED <<evals, errors>>
          \/ /\ i \notin dirs[SysCore]
             /\ pc' = "crashed" /\ UNCHANGED <<i, evals, errors>>
  /\ info' = [info EXCEPT !.type = IF i \in dirs[SysCore] THEN i ELSE Gone]
  /\ UNCHANGED <<request, machine, broken, sysVars, core, count, file>>

-----------------------------------------------------------------------------

(* has_root_access; without it main leaves by exit().                      *)
CheckRoot ==
  /\ pc = "root"
  /\ pc' = IF request.root THEN "rdpmc" ELSE "exit"
  /\ UNCHANGED <<request, machine, broken, sysVars, evals, errors, core,
                 searchVars>>

(* can_use_rdpmc: only mode 2 lets a program without a perf event of its   *)
(* own use the instruction.                                                *)
RdpmcError ==
  IF "io_rdpmc" \in broken \/ mode = 2 THEN Outside("io_rdpmc") ELSE "rdpmc"

(* Where main goes with the caches and the rights it needs: a benchmark    *)
(* begins at once.                                                         *)
Branch ==
  CASE request.mode = "bench"   -> "ready"
    [] request.mode = "profile" -> "open"
    [] OTHER                    -> "unknown"

CheckRdpmc ==
  /\ pc = "rdpmc"
  /\ Return(RdpmcError, "rdpmc", Branch)
  /\ UNCHANGED <<request, machine, broken, sysVars, core, searchVars>>

(* outputc_stdout or outputc_hd5_file: chmod is tried and reported first.  *)
OutputError ==
  IF ~request.file THEN "none"
  ELSE IF "chmod" \in broken THEN "chmod" ELSE Outside("hdf5_error")

OpenOutput ==
  /\ pc = "open"
  /\ Return(OutputError, "open", "alloc")
  /\ UNCHANGED <<request, machine, broken, sysVars, core, searchVars>>

(* Mutant of AllocError: a number of 0 is not looked at.                   *)
AllocErrorUnlessRead ==
  IF "io_hugepage_number" \in broken THEN "io_hugepage_number"
                                     ELSE Outside("mmap")

(* alloc_aligned reads the number of huge pages.  Whether the pages are    *)
(* free and fall right is the business of AlignedAlloc, here of the faults.*)
AllocError ==
  IF "io_hugepage_number" \in broken THEN "io_hugepage_number"
  ELSE IF ~huge THEN "no_hugepages" ELSE Outside("mmap")

AllocBuffer ==
  /\ pc = "alloc"
  /\ Return(AllocError, "alloc", "ready")
  /\ UNCHANGED <<request, machine, broken, sysVars, core, searchVars>>

-----------------------------------------------------------------------------
(* The tools, and the kernel that follows them.                            *)

Running == pc \in Steps

programVars == <<request, machine, broken, pc, evals, errors, core, searchVars>>

(* Somebody uses one of the tools.                                         *)
Change ==
  /\ Running /\ changes < MaxChanges
  /\ changes' = changes + 1
  /\ UNCHANGED programVars

(* toggleSMT.py, the writes of disable() and enable().                     *)
Unplug(c) ==
  /\ c \in online
  /\ online' = online \ {c}
  /\ Change /\ UNCHANGED <<dirs, mode, huge>>

Plug(c) ==
  /\ c \notin online
  /\ online' = online \cup {c}
  /\ Change /\ UNCHANGED <<dirs, mode, huge>>

(* The directories go and come in the order of their numbers.              *)
RemoveDir(c) ==
  /\ c \notin online /\ dirs[c] # {}
  /\ dirs' = [dirs EXCEPT ![c] = @ \ {Min(@)}]
  /\ Running /\ UNCHANGED <<programVars, online, mode, huge, changes>>

AddDir(c) ==
  /\ c \in online /\ dirs[c] # Indices(c)
  /\ dirs' = [dirs EXCEPT ![c] = @ \cup {Min(Indices(c) \ @)}]
  /\ Running /\ UNCHANGED <<programVars, online, mode, huge, changes>>

(* toggleRDPMC.py accepts 0, 1 and 2.                                      *)
SwitchRdpmc ==
  /\ mode' \in (0 .. 2) \ {mode}
  /\ Change /\ UNCHANGED <<online, dirs, huge>>

(* toggleHugepages.py accepts 0 and more.                                  *)
SwitchHugepages ==
  /\ huge' = ~huge
  /\ Change /\ UNCHANGED <<online, dirs, mode>>

-----------------------------------------------------------------------------

Program ==
  \/ Bind \/ CountCaches \/ Search \/ ReadFile \/ ReadType \/ CheckRoot
  \/ CheckRdpmc \/ OpenOutput \/ AllocBuffer

Environment ==
  \/ SwitchRdpmc \/ SwitchHugepages
  \/ \E c \in Switched : Unplug(c) \/ Plug(c) \/ RemoveDir(c) \/ AddDir(c)

Ended == pc \in Ends /\ UNCHANGED vars

Next == Program \/ Environment \/ Ended

Spec == Init /\ [][Next]_vars

-----------------------------------------------------------------------------
(* Properties                                                              *)

(* cache_info_new has returned without an error.                           *)
Found ==
  pc \in {"info", "root", "exit", "rdpmc", "unknown", "open", "alloc", "ready"}

(* The caches the search is for.                                           *)
Hits ==
  {k \in Indices(SysCore) :
     /\ machine[SysCore][k + 1].type \in {"data", "unified"}
     /\ machine[SysCore][k + 1].level = Level}

(* Without a hit the last cache is taken if it has the level.              *)
LastFits == machine[SysCore][Len(machine[SysCore])].level = Level

(* The geometry that alloc_aligned, prime and probe compute with fits      *)
(* together and is of the wanted level, whatever happened to the core while*)
(* its files were read: no successful search mixes up two caches.  (If all *)
(* directories had gone when they were counted, info is unread.)           *)
GeometryIsWhole ==
  Found /\ count > 0 =>
    /\ Value("total_size") =
         Value("line_size") * Value("set_count") * Value("ways")
    /\ Value("level") = Level

(* On a machine nobody touches, the search finds the first data or unified *)
(* cache of the level on the core that was asked for, if there is one, as  *)
(* long as both numbers fit into a byte.  If there is none it fails, except*)
(* that an instruction cache with the last index is taken for one.         *)
SearchIsExact ==
  /\ pc \in Ends /\ changes = 0 /\ broken = {} /\ errors[1] # "set_affinity"
  /\ core < ByteLimit /\ request.level < ByteLimit
  => IF Hits # {}
     THEN errors[1] # "cache_not_exists" /\ info.type = Min(Hits)
     ELSE LastFits <=> errors[1] # "cache_not_exists"

(* On a machine nobody touches and where no call fails for other reasons   *)
(* (among them: alloc_aligned finds no fitting page), main gets as far as  *)
(* the workload and profile(), or benchmark(), exactly if the preparations *)
(* were made: the core is online (and so is the one its byte names), it has*)
(* the cache, the user is root, rdpmc is open to all and, for profile(),   *)
(* there are huge pages.                                                   *)
SetupIsExact ==
  pc \in Ends /\ changes = 0 /\ broken = {} =>
    /\ pc # "crashed"
    /\ pc = "ready" <=>
         /\ request.mode \in {"profile", "bench"} /\ request.root /\ mode = 2
         /\ request.core \in online \cup {-1} /\ SysCore \in online
         /\ Hits # {} \/ LastFits
         /\ request.mode = "profile" => huge

(* The text of the message is decoded from the second or the third         *)
(* evaluation (C leaves the order of the two open), not from the one that  *)
(* failed.  On a machine nobody touches it still belongs to the error, if  *)
(* the table has the error and its number is its own.                      *)
MessageFits ==
  pc = "failed" /\ changes = 0
    /\ errors[1] \notin {"fmt", "chmod", "hdf5_error"} =>
      \A e \in {2, 3} : Decode(errors[e]) = errors[1]
=============================================================================
