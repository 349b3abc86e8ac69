----------------------------- MODULE ToggleSMT ------------------------------
(***************************************************************************)
(* src/tools/toggleSMT.py: read which threads of the CPU are online and    *)
(* which physical core each belongs to, group them, and switch either all  *)
(* of them on or all but one of each group off, with one write to sysfs    *)
(* per thread.  A failed read or write ends the script where it is.        *)
(*                                                                         *)
(* The kernel is external: a thread that is offline has no topology, and   *)
(* thread 0 has no online file, so that it can be read as online only.     *)
(***************************************************************************)
EXTENDS Naturals, FiniteSets

CONSTANTS
  Cores,     (* numbers of the CPU's threads, cpu0 among them              *)
  Rank,      (* the position of each number in the order of strings        *)
  Machines,  (* [package, coreId]: functions from threads to numbers       *)
  Faults     (* the calls that may fail                                    *)

Calls == {"read", "write"}

(* The sort key of the group of the threads whose core is not known.       *)
Unknown == 9999

ASSUME ToggleAssumption ==
  /\ Cores \subseteq Nat /\ 0 \in Cores /\ IsFiniteSet(Cores)
  /\ Rank \in [Cores -> Nat]
  /\ \A c, d \in Cores : Rank[c] = Rank[d] => c = d
  /\ \A c \in Cores : Rank[0] <= Rank[c]
  /\ Machines \subseteq [package : [Cores -> Nat],
                         coreId  : [Cores -> 0 .. Unknown - 1]]
  /\ Faults \subseteq Calls

VARIABLES
  machine,  (* the topology of the CPU                                     *)
  before,   (* history: the threads that were online when the script began *)
  online,   (* the threads that are online now                             *)
  pc,       (* what the script is doing                                    *)
  choice,   (* the answer to the prompt                                    *)
  scanned,  (* the threads read so far                                     *)
  up,       (* TheoreticalCpuCore.online: those read as online             *)
  group,    (* TheoreticalCpuCore.physical_id                              *)
  handled   (* the threads enable() or disable() was called for            *)

vars == <<machine, before, online, pc, choice, scanned, up, group, handled>>

TypeOK ==
  /\ machine \in Machines
  /\ before \subseteq Cores /\ online \subseteq Cores
  /\ pc \in {"scan", "prompt", "apply", "done", "failed"}
  /\ choice \in {"none", "e", "d", "other"}
  /\ scanned \subseteq Cores /\ up \subseteq scanned
  /\ group \in [Cores -> 0 .. Unknown]
  /\ handled \subseteq scanned

-----------------------------------------------------------------------------

Init ==
  /\ machine \in Machines
  /\ before \in {s \in SUBSET Cores : 0 \in s}
  /\ online = before
  /\ pc = "scan" /\ choice = "none"
  /\ scanned = {} /\ up = {}
  /\ group = [c \in Cores |-> Unknown]
  /\ handled = {}

Fail(call) ==
  call \in Faults /\ pc' = "failed"

(* Mutant of Scan: the thread counts as online before its topology is read.*)
ScanOnlineFirst(c) ==
  /\ pc = "scan" /\ c \notin scanned
  /\ up' = IF c \in online THEN up \cup {c} ELSE up
  /\ \/ /\ scanned' = scanned \cup {c}
        /\ group' = IF c \in online
                    THEN [group EXCEPT ![c] = machine.coreId[c]] ELSE group
        /\ pc' = IF scanned' = Cores THEN "prompt" ELSE pc
     \/ Fail("read") /\ UNCHANGED <<scanned, group>>
  /\ UNCHANGED <<machine, before, online, choice, handled>>

(* Mutant of Scan: each thread without a topology is a group of its own.   *)
ScanUngrouped(c) ==
  /\ pc = "scan" /\ c \notin scanned
  /\ scanned' = scanned \cup {c}
  /\ up' = IF c \in online THEN up \cup {c} ELSE up
  /\ group' = [group EXCEPT ![c] = IF c \in online THEN machine.coreId[c]
                                                   ELSE Unknown - c]
  /\ pc' = IF scanned' = Cores THEN "prompt" ELSE pc
  /\ UNCHANGED <<machine, before, online, choice, handled>>

(* One directory of /sys/devices/system/cpu, in the order of listdir.      *)
Scan(c) ==
  /\ pc = "scan" /\ c \notin scanned
  /\ \/ /\ scanned' = scanned \cup {c}
        /\ IF c \in online
           THEN /\ up' = up \cup {c}
                /\ group' = [group EXCEPT ![c] = machine.coreId[c]]
           ELSE UNCHANGED <<up, group>>
        /\ pc' = IF scanned' = Cores THEN "prompt" ELSE pc
     \/ Fail("read") /\ UNCHANGED <<scanned, up, group>>
  /\ UNCHANGED <<machine, before, online, choice, handled>>

Prompt ==
  /\ pc = "prompt"
  /\ choice' \in {"e", "d", "other"}
  /\ pc' = IF choice' = "other" THEN "done" ELSE "apply"
  /\ UNCHANGED <<machine, before, online, scanned, up, group, handled>>

(* Mutant of Precedes: the threads of a core are left in the order they    *)
(* were read, here the reverse one.                                        *)
PrecedesUnsorted(c, d) ==
  group[c] < group[d] \/ (group[c] = group[d] /\ Rank[c] > Rank[d])

(* The physical cores are sorted by number, their threads by name: the     *)
(* latter while the status is printed.                                     *)
Precedes(c, d) ==
  group[c] < group[d] \/ (group[c] = group[d] /\ Rank[c] < Rank[d])

(* Mutant of Leads: all physical cores share the default list of           *)
(* theoretical cores.                                                      *)
LeadsShared(c) == \A d \in Cores : ~Precedes(d, c)

(* theoretical_cores[0] of its physical core.                              *)
Leads(c) == \A d \in Cores : group[d] = group[c] => ~Precedes(d, c)

(* The core whose turn it is.                                              *)
Turn(c) == c \notin handled /\ \A d \in Cores \ handled : ~Precedes(d, c)

(* enable() for all threads, or for the first one of each physical core.   *)
Wanted(c) == choice = "e" \/ Leads(c)

(* Mutant of Switch: disable() writes a 1.                                 *)
SwitchOn(c) == online' = online \cup {c}

(* The write of enable() or disable().                                     *)
Switch(c) ==
  online' = IF Wanted(c) THEN online \cup {c} ELSE online \ {c}

(* enable() and disable() write only if the thread was read as being in    *)
(* the other state.  cpu0 has no file to write to.                         *)
Apply(c) ==
  /\ pc = "apply" /\ Turn(c)
  /\ \/ /\ Wanted(c) = (c \in up) /\ UNCHANGED online
        /\ pc' = IF handled \cup {c} = Cores THEN "done" ELSE pc
     \/ /\ Wanted(c) # (c \in up) /\ c # 0 /\ Switch(c)
        /\ pc' = IF handled \cup {c} = Cores THEN "done" ELSE pc
     \/ /\ Wanted(c) # (c \in up) /\ (c = 0 \/ "write" \in Faults)
        /\ pc' = "failed" /\ UNCHANGED online
  /\ handled' = handled \cup {c}
  /\ UNCHANGED <<machine, before, choice, scanned, up, group>>

Ended == pc \in {"done", "failed"} /\ UNCHANGED vars

Next == Prompt \/ (\E c \in Cores : Scan(c) \/ Apply(c)) \/ Ended

Spec == Init /\ [][Next]_vars

-----------------------------------------------------------------------------
(* Properties                                                              *)

(* The threads that share a physical core with thread c.                   *)
Siblings(c) ==
  {d \in Cores : /\ machine.package[d] = machine.package[c]
                 /\ machine.coreId[d] = machine.coreId[c]}

(* core_id alone names a physical core.                                    *)
IdsAreUnique ==
  \A c, d \in Cores :
    machine.coreId[c] = machine.coreId[d] =>
      machine.package[c] = machine.package[d]

(* No physical core loses its last thread, not even for the time between   *)
(* two writes or after a failed one.                                       *)
NoCoreGoesDark ==
  IdsAreUnique =>
    \A c \in before : Siblings(c) \cap online # {}

(* When the script comes to its end, 'e' has brought all threads online,   *)
(* and 'd' on a CPU with all threads online has left one per physical core.*)
ChoiceIsCarriedOut ==
  /\ pc = "done" /\ choice = "e" => online = Cores
  /\ pc = "done" /\ choice = "d" /\ before = Cores /\ IdsAreUnique =>
       \A c \in Cores : Cardinality(Siblings(c) \cap online) = 1

(* 'd' brings at most one thread back that was offline: all of those form  *)
(* one group, since their physical core is not known.                      *)
DisableRevivesOne ==
  choice = "d" => Cardinality(online \ before) <= 1

(* No write to the online file that thread 0 does not have is ever tried:  *)
(* it leads its group, because its name sorts first.                       *)
ZeroIsLeftAlone == 0 \in handled => (Wanted(0) <=> 0 \in up)
=============================================================================
