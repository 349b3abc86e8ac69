------------------------------ MODULE Profiler ------------------------------
(***************************************************************************)
(* One run of the profiler program: main() of src/src/main.c with the      *)
(* functions it calls in profile.c, sys_action.c and output.c, the signal  *)
(* handlers that interrupt it, and the two processes it deals with, the    *)
(* spawned workload (--program) and a process named by --pid.              *)
(*                                                                         *)
(* A step is one call of main or of profile(); signals, the workload and   *)
(* the kernel act between any two of them.  alloc_aligned is one step here *)
(* and a module of its own (AlignedAlloc); the two meet in AllocReturns.   *)
(***************************************************************************)
EXTENDS Integers, FiniteSets, AllocReturns

CONSTANTS
  Cpus,        (* CPU cores, 0 among them                                  *)
  Requests,    (* the command lines considered                             *)
  Faults,      (* the calls that may fail                                  *)
  IntLimit,    (* 2^31: an int is below it, and at least minus it          *)
  MaxMatrices  (* bound: no measurement starts after this many matrices    *)

Modes == {"info", "bench", "profile", "other"}

Calls == {"sigaction", "affinity", "cache_info", "root", "rdpmc", "perf",
          "output_create", "alloc", "spawn", "output_write", "unmap",
          "malloc", "output_close", "pid_reuse"}

(* The parsed arguments_t: iter is what atoi made of --iter, cpu = -1 means*)
(* that the process is bound by somebody else, pid and program tell whether*)
(* the option was given, file whether -o was, seconds whether an alarm was *)
(* asked for.                                                              *)
Request ==
  [mode : Modes, iter : -IntLimit .. IntLimit - 1, seconds : BOOLEAN, cpu : Cpus \cup {-1},
   pid : BOOLEAN, program : BOOLEAN, file : BOOLEAN]

ASSUME ProfilerAssumption ==
  /\ Cpus \subseteq Nat
  /\ 0 \in Cpus
  /\ Requests \subseteq Request
  /\ Faults \subseteq Calls
  /\ IntLimit \in Nat \ {0}
  /\ MaxMatrices \in Nat

(* The argument of EXIT_ON_FAIL is evaluated up to three times.            *)
Evals == 1 .. 3

(* Values of arguments.pid: none, the child spawned by evaluation 1, 2 or  *)
(* 3, or the process named on the command line.                            *)
NoPid == 0
Target == 4

VARIABLES
  args,        (* the command line, as parsed                              *)
  pc,          (* the call main or profile() is about to make              *)
  evals,       (* which evaluation of EXIT_ON_FAIL's argument is running   *)
  exitCode,    (* what the process exited with                             *)
  terminated,  (* the flag of sys_action.c                                 *)
  alarm,       (* an alarm(2) is pending                                   *)
  core,        (* the core the profiler runs on                            *)
  bound,       (* the profiler has set its own affinity                    *)
  cpu,         (* arguments.cpu                                            *)
  targetCore,  (* the core the --pid process is bound to, -1 if none       *)
  pid,         (* arguments.pid                                            *)
  child,       (* the spawned processes, by the evaluation that did it     *)
  sigchld,     (* a SIGCHLD is pending                                     *)
  killed,      (* who received the SIGKILL of main                         *)
  buffer,      (* what main's buffer points to                             *)
  perf,        (* the perf events, by the evaluation that opened them      *)
  j,           (* loop counter of profile()                                *)
  output,      (* output->type                                             *)
  file,        (* the HDF5 file                                            *)
  next,        (* output->iter: name of the next data set                  *)
  saved,       (* names of the data sets HDF5 was given a matrix for       *)
  blank,       (* names of the data sets created but never written         *)
  matrices,    (* history: matrices output so far, over all evaluations    *)
  late         (* history: those output after terminated was set           *)

driverVars == <<evals, exitCode>>
signalVars == <<terminated, alarm>>
cpuVars    == <<core, bound, cpu, targetCore>>
procVars   == <<pid, child, sigchld, killed>>
outVars    == <<output, file, next, saved, blank>>
loopVars   == <<j, matrices, late>>

vars == <<args, pc, driverVars, signalVars, cpuVars, procVars, buffer, perf,
          outVars, loopVars>>

ChildState == {"none", "running", "zombie", "free", "recycled"}

Steps == {"handlers", "bind", "cache", "root", "rdpmc", "open", "alloc",
          "workload", "alarm", "enable", "loop", "measure", "write",
          "disable", "bench_enable", "bench_measure", "bench_disable",
          "kill", "close", "free", "exited", "crashed"}

TypeOK ==
  /\ args \in Requests
  /\ pc \in Steps
  /\ evals \in Evals
  /\ exitCode \in {"none", "success", "failure"}
  /\ terminated \in BOOLEAN /\ alarm \in BOOLEAN
  /\ core \in Cpus /\ cpu \in Cpus \cup {-1}
  /\ bound \in BOOLEAN /\ targetCore \in Cpus \cup {-1}
  /\ pid \in 0 .. 4
  /\ child \in [Evals -> ChildState]
  /\ sigchld \in BOOLEAN
  /\ killed \subseteq {"child", "target", "stranger"}
  /\ buffer \in BufferState
  /\ perf \in [Evals -> {"closed", "off", "on"}]
  /\ j \in Nat
  /\ output \in {"uninitialized", "stdout", "hdf5"}
  /\ file \in {"none", "open", "closed", "damaged"}
  /\ next \in Nat /\ saved \subseteq Nat /\ blank \subseteq Nat
  /\ matrices \in Nat /\ late \in Nat

-----------------------------------------------------------------------------

Init ==
  /\ args \in Requests
  /\ pc = "handlers" /\ evals = 1 /\ exitCode = "none"
  /\ terminated = FALSE /\ alarm = FALSE
  /\ core \in Cpus /\ bound = FALSE /\ cpu = args.cpu /\ targetCore = -1
  /\ pid = IF args.pid THEN Target ELSE NoPid
  /\ child = [e \in Evals |-> "none"]
  /\ sigchld = FALSE /\ killed = {}
  /\ buffer = "null"
  /\ perf = [e \in Evals |-> "closed"]
  /\ j = 0
  /\ output = "uninitialized" /\ file = "none"
  /\ next = 0 /\ saved = {} /\ blank = {}
  /\ matrices = 0 /\ late = 0

Ended == pc \in {"exited", "crashed"}

(* The outcomes of a call: it succeeds, or fails if it may.                *)
Outcome(call) == IF call \in Faults THEN BOOLEAN ELSE {TRUE}

(* Mutant of Return: nothing ends the repeated evaluation.                 *)
ReturnUnbounded(ok, entry, continue) ==
  IF ok /\ evals = 1
  THEN pc' = continue /\ UNCHANGED driverVars
  ELSE pc' = entry /\ evals' = evals + 1 /\ UNCHANGED exitCode

(* EXIT_ON_FAIL(call, message): the first evaluation of the argument       *)
(* decides whether main goes on; if it failed, the argument is evaluated   *)
(* twice more, for decode_error and for the printed code, and main jumps   *)
(* to FINALIZE whatever those two return.  entry is where one evaluation   *)
(* starts.                                                                 *)
Return(ok, entry, continue) ==
  IF ok /\ evals = 1
  THEN pc' = continue /\ UNCHANGED driverVars
  ELSE IF evals < 3
       THEN pc' = entry /\ evals' = evals + 1 /\ UNCHANGED exitCode
       ELSE pc' = "close" /\ UNCHANGED driverVars

(* exit(EXIT_FAILURE), which skips FINALIZE.                               *)
ExitFailure ==
  pc' = "exited" /\ exitCode' = "failure" /\ UNCHANGED evals

-----------------------------------------------------------------------------
(* main: set up                                                            *)

InstallHandlers ==
  /\ pc = "handlers"
  /\ \/ pc' = "bind" /\ UNCHANGED driverVars
     \/ "sigaction" \in Faults /\ ExitFailure
  /\ UNCHANGED <<args, signalVars, cpuVars, procVars, buffer, perf, outVars,
                 loopVars>>

(* -c ID binds the process; -c -1 only records the core it is on now.      *)
(* The assignment arguments.cpu = core follows the macro, so a failed      *)
(* first evaluation never reaches it.                                      *)
BindSelf ==
  /\ pc = "bind"
  /\ \E ok \in Outcome("affinity") :
       /\ Return(ok, "bind", "cache")
       /\ IF args.cpu > -1
          THEN /\ core' = IF ok THEN args.cpu ELSE core
               /\ bound' = (bound \/ ok)
               /\ UNCHANGED cpu
          ELSE /\ cpu' = IF ok /\ evals = 1 THEN core ELSE cpu
               /\ UNCHANGED <<core, bound>>
  /\ UNCHANGED <<args, signalVars, targetCore, procVars, buffer, perf,
                 outVars, loopVars>>

ReadCacheInfo ==
  /\ pc = "cache"
  /\ \E ok \in Outcome("cache_info") :
       Return(ok, "cache", IF args.mode = "info" THEN "close" ELSE "root")
  /\ UNCHANGED <<args, signalVars, cpuVars, procVars, buffer, perf, outVars,
                 loopVars>>

CheckRoot ==
  /\ pc = "root"
  /\ \/ pc' = "rdpmc" /\ UNCHANGED driverVars
     \/ "root" \in Faults /\ ExitFailure
  /\ UNCHANGED <<args, signalVars, cpuVars, procVars, buffer, perf, outVars,
                 loopVars>>

CheckRdpmc ==
  /\ pc = "rdpmc"
  /\ \E ok \in Outcome("rdpmc") :
       Return(ok, "rdpmc", CASE args.mode = "bench"   -> "bench_enable"
                             [] args.mode = "profile" -> "open"
                             [] OTHER                 -> "close")
  /\ UNCHANGED <<args, signalVars, cpuVars, procVars, buffer, perf, outVars,
                 loopVars>>

(* outputc_stdout, or outputc_hd5_file: chmod is tried whether H5Fcreate   *)
(* worked or not, and *output is filled in only when both did.  A file     *)
(* that an earlier evaluation left open cannot be truncated again.         *)
OpenOutput ==
  /\ pc = "open"
  /\ IF ~args.file
     THEN /\ output' = "stdout" /\ UNCHANGED file
          /\ Return(TRUE, "open", "alloc")
     ELSE \E create, chmod \in Outcome("output_create") :
            /\ create => file # "open"
            /\ file' = IF create THEN "open" ELSE file
            /\ output' = IF create /\ chmod THEN "hdf5" ELSE output
            /\ Return(create /\ chmod, "open", "alloc")
  /\ UNCHANGED <<args, signalVars, cpuVars, procVars, buffer, perf, next,
                 saved, blank, loopVars>>

AllocBuffer ==
  /\ pc = "alloc"
  /\ \E r \in AllocReturn(buffer) :
       /\ (r.ok /\ r.buffer = "aligned") \/ "alloc" \in Faults
       /\ buffer' = r.buffer
       /\ Return(r.ok, "alloc", "workload")
  /\ UNCHANGED <<args, signalVars, cpuVars, procVars, perf, outVars,
                 loopVars>>

(* Mutant of BindTarget: the result of focus_cpu_core is not checked.      *)
BindTargetUnchecked ==
  /\ pc = "workload" /\ pid = Target
  /\ \E ok \in Outcome("affinity") :
       targetCore' = IF ok THEN cpu ELSE targetCore
  /\ pc' = "alarm"
  /\ UNCHANGED <<args, driverVars, signalVars, core, bound, cpu, procVars,
                 buffer, perf, outVars, loopVars>>

(* --pid: move that process to the measured core.                          *)
BindTarget ==
  /\ pc = "workload" /\ pid = Target
  /\ \E ok \in Outcome("affinity") :
       /\ targetCore' = IF ok THEN cpu ELSE targetCore
       /\ Return(ok, "workload", "alarm")
  /\ UNCHANGED <<args, signalVars, core, bound, cpu, procVars, buffer, perf,
                 outVars, loopVars>>

(* run_program: posix_spawnp stores the new process's PID.  When only the  *)
(* exec failed, the helper process that libc reaped itself leaves a        *)
(* SIGCHLD behind.                                                         *)
RunProgram ==
  /\ pc = "workload" /\ pid # Target /\ args.program
  /\ \E ok \in Outcome("spawn") :
       /\ IF ok
          THEN /\ child' = [child EXCEPT ![evals] = "running"]
               /\ pid' = evals
               /\ UNCHANGED sigchld
          ELSE /\ sigchld' \in {sigchld, TRUE}
               /\ UNCHANGED <<child, pid>>
       /\ Return(ok, "workload", "alarm")
  /\ UNCHANGED <<args, signalVars, cpuVars, killed, buffer, perf, outVars,
                 loopVars>>

NoWorkload ==
  /\ pc = "workload" /\ pid # Target /\ ~args.program
  /\ pc' = "alarm"
  /\ UNCHANGED <<args, driverVars, signalVars, cpuVars, procVars, buffer,
                 perf, outVars, loopVars>>

SetAlarm ==
  /\ pc = "alarm"
  /\ pc' = "enable"
  /\ alarm' = args.seconds
  /\ UNCHANGED <<args, driverVars, terminated, cpuVars, procVars, buffer,
                 perf, outVars, loopVars>>

-----------------------------------------------------------------------------
(* profile() and benchmark()                                               *)

(* Mutant of CounterCpu: profile counts on core 0 as benchmark does.       *)
CounterCpuZero == 0

(* The core whose cycle counter is enabled: profile passes on              *)
(* arguments.cpu, benchmark always asks for core 0.                        *)
CounterCpu == IF args.mode = "bench" THEN 0 ELSE cpu

(* enable_cpu_cycle_counter: the event may fail to open, or fail to start  *)
(* once open.  Nothing ever closes it.                                     *)
EnableCounter(entry, continue) ==
  /\ pc = entry
  /\ \/ /\ perf' = [perf EXCEPT ![evals] = "on"]
        /\ j' = 0
        /\ pc' = continue
        /\ UNCHANGED driverVars
     \/ /\ "perf" \in Faults
        /\ \E state \in {"closed", "off"} :
             perf' = [perf EXCEPT ![evals] = state]
        /\ Return(FALSE, entry, continue)
        /\ UNCHANGED j
  /\ UNCHANGED <<args, signalVars, cpuVars, procVars, buffer, outVars,
                 matrices, late>>

DisableCounter(here, entry) ==
  /\ pc = here
  /\ \E ok \in Outcome("perf") :
       /\ perf' = IF ok THEN [perf EXCEPT ![evals] = "off"] ELSE perf
       /\ Return(ok, entry, "kill")
  /\ UNCHANGED <<args, signalVars, cpuVars, procVars, buffer, outVars,
                 loopVars>>

(* profile() takes arguments.iter as uint32_t: a negative number becomes a *)
(* large limit.  Its loop counter is an int, which gcc compares as uint32_t*)
(* too, so that j stands for that.                                         *)
Limit == args.iter % (2 * IntLimit)

(* Mutants of MayContinue: one iteration too many, one too few, terminated *)
(* not looked at.                                                          *)
MayContinueInclusive == (j <= Limit \/ Limit = 0) /\ ~terminated

MayContinueButLast == (j + 1 < Limit \/ Limit = 0) /\ ~terminated

MayContinueDeaf == j < Limit \/ Limit = 0

MayContinue == (j < Limit \/ Limit = 0) /\ ~terminated

(* The loop condition.  MaxMatrices cuts off runs without a limit: such a  *)
(* run then only waits for a signal.                                       *)
LoopTest ==
  /\ pc = "loop"
  /\ IF MayContinue
     THEN matrices < MaxMatrices /\ pc' = "measure"
     ELSE pc' = "disable"
  /\ UNCHANGED <<args, driverVars, signalVars, cpuVars, procVars, buffer,
                 perf, outVars, loopVars>>

(* prime, sched_yield and probe touch the whole buffer: a pointer that is  *)
(* not a live mapping ends the process.                                    *)
Measure ==
  /\ pc = "measure"
  /\ pc' = IF buffer \in Mapped THEN "write" ELSE "crashed"
  /\ UNCHANGED <<args, driverVars, signalVars, cpuVars, procVars, buffer,
                 perf, outVars, loopVars>>

(* Mutant of DatasetName: ++output->iter instead of output->iter++.        *)
DatasetNameAfter == next + 1

DatasetName == next

(* One data set of the HDF5 file: its name is used up before it is         *)
(* created.  A failure before, in or after H5Dwrite is reported alike.     *)
WriteDataset(ok) ==
  /\ next' = next + 1
  /\ \/ /\ ok
        /\ saved' = saved \cup {DatasetName} /\ UNCHANGED blank
     \/ /\ ~ok
        /\ \/ UNCHANGED <<saved, blank>>
           \/ blank' = blank \cup {DatasetName} /\ UNCHANGED saved
           \/ saved' = saved \cup {DatasetName} /\ UNCHANGED blank

WriteMatrix ==
  /\ pc = "write"
  /\ \E ok \in Outcome("output_write") :
       /\ IF output = "hdf5"
          THEN WriteDataset(ok)
          ELSE UNCHANGED <<next, saved, blank>>
       /\ IF ok
          THEN /\ matrices' = matrices + 1
               /\ late' = IF terminated THEN late + 1 ELSE late
               /\ j' = IF Limit = 0 THEN j ELSE j + 1
               /\ pc' = "loop"
               /\ UNCHANGED driverVars
          ELSE Return(FALSE, "enable", "loop") /\ UNCHANGED loopVars
  /\ UNCHANGED <<args, signalVars, cpuVars, procVars, buffer, perf, output,
                 file>>

(* benchmark() reads the counter a fixed number of times and never looks   *)
(* at terminated.  The array for the results is not checked.               *)
BenchMeasure ==
  /\ pc = "bench_measure"
  /\ \E ok \in Outcome("malloc") :
       pc' = IF ok THEN "bench_disable" ELSE "crashed"
  /\ UNCHANGED <<args, driverVars, signalVars, cpuVars, procVars, buffer,
                 perf, outVars, loopVars>>

-----------------------------------------------------------------------------
(* main: tear down                                                         *)

(* kill(p, SIGKILL): it reaches whoever holds the number p now.            *)
Sigkill(p) ==
  IF p = Target
  THEN killed' = killed \cup {"target"} /\ UNCHANGED <<child, sigchld>>
  ELSE CASE child[p] = "running" ->
              /\ child' = [child EXCEPT ![p] = "zombie"]
              /\ sigchld' = TRUE
              /\ killed' = killed \cup {"child"}
         [] child[p] = "recycled" ->
              killed' = killed \cup {"stranger"} /\ UNCHANGED <<child, sigchld>>
         [] OTHER -> UNCHANGED <<child, sigchld, killed>>

(* Mutants of KillWanted: --pid alone is enough, or a set terminated is    *)
(* taken to mean that the workload has ended.                              *)
KillWantedAnyPid == pid # NoPid

KillWantedUnlessTerminated == pid # NoPid /\ args.program /\ ~terminated

KillWanted == pid # NoPid /\ args.program

KillProgram ==
  /\ pc = "kill"
  /\ pc' = "close"
  /\ IF KillWanted
     THEN Sigkill(pid)
     ELSE UNCHANGED <<child, sigchld, killed>>
  /\ UNCHANGED <<args, driverVars, signalVars, cpuVars, pid, buffer, perf,
                 outVars, loopVars>>

(* FINALIZE: output_close.  A file that H5Fclose could not flush is damaged*)
(* and main goes on as if it had been: it ignores the result.  An          *)
(* uninitialized type that happens to read as OUTPUT_HD5_FILE closes a     *)
(* meaningless handle.                                                     *)
CloseOutput ==
  /\ pc = "close"
  /\ pc' = "free"
  /\ IF output = "hdf5"
     THEN \E ok \in Outcome("output_close") :
            file' = IF ok THEN "closed" ELSE "damaged"
     ELSE UNCHANGED file
  /\ UNCHANGED <<args, driverVars, signalVars, cpuVars, procVars, buffer,
                 perf, output, next, saved, blank, loopVars>>

(* FINALIZE: free_aligned unless buffer is NULL, then EXIT_SUCCESS.        *)
FreeBuffer ==
  /\ pc = "free"
  /\ pc' = "exited" /\ exitCode' = "success" /\ UNCHANGED evals
  /\ \E ok \in Outcome("unmap") :
       buffer' = IF ok /\ buffer \in Mapped THEN "unmapped" ELSE buffer
  /\ UNCHANGED <<args, signalVars, cpuVars, procVars, perf, outVars,
                 loopVars>>

-----------------------------------------------------------------------------
(* What happens around the program.                                        *)

HandlersInstalled == pc # "handlers" /\ ~Ended

(* signal_handler on SIGINT or SIGTERM.                                    *)
Signal ==
  /\ HandlersInstalled
  /\ ~terminated
  /\ terminated' = TRUE
  /\ UNCHANGED <<args, pc, driverVars, alarm, cpuVars, procVars, buffer,
                 perf, outVars, loopVars>>

(* Mutant of AlarmFires: signal_handler does not know SIGALRM.             *)
AlarmIgnored ==
  /\ alarm /\ ~Ended
  /\ alarm' = FALSE
  /\ UNCHANGED <<args, pc, driverVars, terminated, cpuVars, procVars, buffer,
                 perf, outVars, loopVars>>

(* signal_handler on SIGALRM.                                              *)
AlarmFires ==
  /\ alarm /\ ~Ended
  /\ alarm' = FALSE
  /\ terminated' = TRUE
  /\ UNCHANGED <<args, pc, driverVars, cpuVars, procVars, buffer, perf,
                 outVars, loopVars>>

(* Mutant of HandleSigchld: it reaps, but does not stop the profiler.      *)
ReapOnly ==
  /\ sigchld /\ HandlersInstalled
  /\ sigchld' = FALSE
  /\ child' = [e \in Evals |-> IF child[e] = "zombie" THEN "free"
                                                      ELSE child[e]]
  /\ UNCHANGED <<args, pc, driverVars, signalVars, cpuVars, pid, killed,
                 buffer, perf, outVars, loopVars>>

(* extern_process_signal_handler: reap every child that has exited.        *)
HandleSigchld ==
  /\ sigchld /\ HandlersInstalled
  /\ sigchld' = FALSE
  /\ child' = [e \in Evals |-> IF child[e] = "zombie" THEN "free"
                                                      ELSE child[e]]
  /\ terminated' = TRUE
  /\ UNCHANGED <<args, pc, driverVars, alarm, cpuVars, pid, killed, buffer,
                 perf, outVars, loopVars>>

ChildExits(e) ==
  /\ child[e] = "running" /\ ~Ended
  /\ child' = [child EXCEPT ![e] = "zombie"]
  /\ sigchld' = TRUE
  /\ UNCHANGED <<args, pc, driverVars, signalVars, cpuVars, pid, killed,
                 buffer, perf, outVars, loopVars>>

(* A job-control stop of the workload raises SIGCHLD too: the handler is   *)
(* installed without SA_NOCLDSTOP.                                         *)
ChildStops(e) ==
  /\ child[e] = "running" /\ ~Ended
  /\ ~sigchld
  /\ sigchld' = TRUE
  /\ UNCHANGED <<args, pc, driverVars, signalVars, cpuVars, pid, child,
                 killed, buffer, perf, outVars, loopVars>>

(* The kernel gives the number of a reaped child to another process.       *)
RecyclePid(e) ==
  /\ "pid_reuse" \in Faults
  /\ child[e] = "free" /\ ~Ended
  /\ child' = [child EXCEPT ![e] = "recycled"]
  /\ UNCHANGED <<args, pc, driverVars, signalVars, cpuVars, pid, sigchld,
                 killed, buffer, perf, outVars, loopVars>>

(* The scheduler moves an unbound profiler.                                *)
Migrate ==
  /\ ~bound /\ ~Ended
  /\ core' \in Cpus \ {core}
  /\ UNCHANGED <<args, pc, driverVars, signalVars, bound, cpu, targetCore,
                 procVars, buffer, perf, outVars, loopVars>>

-----------------------------------------------------------------------------

Setup ==
  \/ InstallHandlers \/ BindSelf \/ ReadCacheInfo \/ CheckRoot \/ CheckRdpmc
  \/ OpenOutput \/ AllocBuffer \/ BindTarget \/ RunProgram \/ NoWorkload
  \/ SetAlarm

Profile ==
  \/ EnableCounter("enable", "loop") \/ LoopTest \/ Measure \/ WriteMatrix
  \/ DisableCounter("disable", "enable")

Benchmark ==
  \/ EnableCounter("bench_enable", "bench_measure") \/ BenchMeasure
  \/ DisableCounter("bench_disable", "bench_enable")

TearDown == KillProgram \/ CloseOutput \/ FreeBuffer

Program == Setup \/ Profile \/ Benchmark \/ TearDown

Environment ==
  \/ Signal \/ AlarmFires \/ HandleSigchld \/ Migrate
  \/ \E e \in Evals : ChildExits(e) \/ ChildStops(e) \/ RecyclePid(e)

Stutter == Ended /\ UNCHANGED vars

Next == Program \/ Environment \/ Stutter

(* The program keeps running, the timer expires and a pending SIGCHLD is   *)
(* delivered.  Nothing makes the user send a signal or the workload exit.  *)
Fairness ==
  WF_vars(Program) /\ WF_vars(AlarmFires) /\ WF_vars(HandleSigchld)

Spec == Init /\ [][Next]_vars /\ Fairness
-----------------------------------------------------------------------------
(* Properties                                                              *)

(* main got to the end of a measuring mode without a failed call.          *)
Finished ==
  /\ pc = "exited" /\ evals = 1 /\ exitCode = "success"
  /\ args.mode \in {"bench", "profile"}

(* The names that hold no matrix, though they were used up.                *)
Lost == (0 .. next - 1) \ saved

(* What is written to the HDF5 file: names are used up one by one and each *)
(* for one matrix at most.  Until a call of main fails there is no gap,    *)
(* which is what the visualizer needs: it stops at the first name that is  *)
(* missing.  Every failed evaluation of profile() loses one name at most.  *)
ContiguousFile ==
  /\ saved \cup blank \subseteq 0 .. next - 1 /\ saved \cap blank = {}
  /\ evals = 1 => Lost = {}
  /\ Cardinality(Lost) <= (IF pc \in {"close", "free", "exited"}
                          THEN evals ELSE evals - 1)

(* A profile run that ended well without being asked to stop was given a   *)
(* limit, has output exactly that many matrices, and has given all of them *)
(* to HDF5 when there is a file.  They are in the file if it could be      *)
(* closed; a run that leaves a damaged file is not told apart.             *)
CompleteRun ==
  Finished /\ args.mode = "profile" /\ ~terminated =>
    /\ Limit > 0
    /\ matrices = Limit
    /\ args.file =>
         saved = 0 .. Limit - 1 /\ blank = {} /\ file \in {"closed", "damaged"}

(* Once a signal has set terminated, at most the matrix being measured is  *)
(* still output, however often EXIT_ON_FAIL runs profile() again.          *)
PromptStop == late <= 1

(* Each evaluation of profile() outputs at most --iter matrices, so that a *)
(* run whose output fails can exceed the limit at most threefold.          *)
LimitPerEvaluation == Limit > 0 => matrices <= evals * Limit

(* While a measurement is running, the cycle counter that rdpmc reads is   *)
(* enabled.  With -c ID it is the one of the core the profiler runs on,    *)
(* except that benchmark counts on core 0 only; with -c -1 nobody knows.   *)
CounterOnThisCore ==
  pc \in {"measure", "bench_measure"} =>
    /\ perf[evals] = "on"
    /\ args.cpu > -1 =>
         (CounterCpu = core <=> (args.mode = "bench" => args.cpu = 0))

(* While it is measured, a process given by --pid is on the core that main *)
(* has recorded, which with -c ID is the one the profiler runs on.         *)
TargetOnThisCore ==
  pc = "measure" /\ pid = Target =>
    targetCore = cpu /\ (args.cpu > -1 => targetCore = core)

(* With a command line the help text allows, the SIGKILL at the end never   *)
(* hits the process named by --pid; it hits a process that only inherited  *)
(* the workload's number at most if the SIGCHLD handler reaped the workload*)
(* before, which also set terminated.                                      *)
KillScope ==
  /\ ~(args.pid /\ args.program) => "target" \notin killed
  /\ "stranger" \in killed =>
       terminated /\ \E e \in Evals : child[e] = "recycled"

(* A run that ended well leaves no workload running and no counter enabled.*)
NothingLeftRunning ==
  Finished => \A e \in Evals : child[e] # "running" /\ perf[e] # "on"

(* SIGINT, SIGTERM, SIGALRM and SIGCHLD end every run.                     *)
StopsWhenAsked == terminated ~> Ended

(* After the workload has terminated the profiler stops.                   *)
StopsAfterWorkload == (\E e \in Evals : child[e] = "zombie") ~> Ended

(* A run limited by --iter or --seconds ends by itself.                    *)
LimitedRunEnds ==
  (pc = "alarm" /\ (Limit > 0 \/ args.seconds)) ~> Ended

(* How the run ended, as Session has it.                                   *)
Result ==
  IF ~Ended THEN "pending"
  ELSE IF ~(Finished /\ args.mode = "profile") THEN "nothing"
  ELSE IF terminated THEN "stopped" ELSE "complete"

Promise ==
  INSTANCE Session WITH
    limit <- Limit, attempt <- evals, delivered <- matrices,
    asked <- terminated, late <- late, result <- Result

(* A run, whatever fails in it and whenever it is interrupted, delivers    *)
(* matrices as Session promises: within the limit of every attempt, at most*)
(* one after it was asked to stop, never claiming more than it did, and    *)
(* with an end once it has a limit or was asked.                           *)
ImplementsSession == Promise!Spec

(* What the documentation says and the code does not do.                   *)

(* error.h: a failed EXIT_ON_FAIL exits with EXIT_FAILURE.                 *)
FailureIsReported == pc = "exited" /\ evals > 1 => exitCode = "failure"

(* sys_action.h: the SIGCHLD handler stops the program after the child has *)
(* exited.                                                                 *)
StopFollowsExit ==
  [][HandleSigchld => \E e \in Evals : child[e] = "zombie"]_vars

(* main.c: --pid can not be used with --program, and the SIGKILL is sent to*)
(* the external process that the profiler started.                         *)
KillsOnlyTheProgram == killed \subseteq {"child"}

=============================================================================
