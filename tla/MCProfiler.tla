----------------------------- MODULE MCProfiler -----------------------------
(***************************************************************************)
(* Command lines for the runs of Profiler, and what the bench mode prints  *)
(* for up to four results.                                                 *)
(***************************************************************************)
EXTENDS Profiler, Statistics

CONSTANT Limits  (* the values of --iter *)

TwoCores == {0, 1}

Plain ==
  [mode |-> "info", iter |-> 0, seconds |-> FALSE, cpu |-> 1,
   pid |-> FALSE, program |-> FALSE, file |-> FALSE]

(* A profile run as the help text allows it: on a core of its own or       *)
(* without a promise that anybody binds the process (-c -1), and with at   *)
(* most one of --pid and --program.                                        *)
ProfileRequests(cpus, limits) ==
  {r \in [mode : {"profile"}, iter : limits, seconds : BOOLEAN, cpu : cpus,
           pid : BOOLEAN, program : BOOLEAN, file : BOOLEAN] :
     ~(r.pid /\ r.program)}

(* -4, the least int if they end at 4, which is taken as 4.                *)
NegativeLimit == -4

(* The alarm is left to the bound requests with the other limits.          *)
UntimedRequests ==
  {r \in ProfileRequests({-1}, {2}) \cup ProfileRequests({1}, {NegativeLimit}) :
     ~r.seconds}

(* The other modes; bench on every core and unbound.                       *)
OtherRequests ==
  {Plain, [Plain EXCEPT !.mode = "other"]}
    \cup {[Plain EXCEPT !.mode = "bench", !.cpu = c] : c \in {-1, 0, 1}}

DocumentedRequests ==
  ProfileRequests({1}, Limits) \cup UntimedRequests \cup OtherRequests

(* Without a binding and a file, and the modes that measure nothing or no  *)
(* cache.                                                                  *)
LiveRequests ==
  {r \in ProfileRequests({-1}, Limits) : ~r.pid /\ ~r.file} \cup OtherRequests

(* What the parser lets through although the help text excludes it.        *)
BothRequests ==
  {[Plain EXCEPT !.mode = "profile", !.iter = 1, !.pid = TRUE,
                 !.program = TRUE]}

AllFaults == Calls

(* The failures that repeat run_program and profile(), where a stop request*)
(* could get lost.                                                         *)
LoopFaults == {"perf", "spawn", "output_write", "cache_info"}

(* Calls that fail for reasons outside the program.                        *)
SpawnFault == {"spawn"}

NoFaults == {}

(* The operators of Statistics against their reference, for few results.   *)
ASSUME PrintedNumbers ==
  \A n \in 1 .. 4 :
    MedianIsInTheMiddle(n, 0 .. 3) /\ VarianceIsTooSmall(n, 0 .. 3)
=============================================================================
