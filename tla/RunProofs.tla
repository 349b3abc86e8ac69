------------------------------ MODULE RunProofs ------------------------------
(***************************************************************************)
(* How a run of the profiler ends, and where it measures: what is killed,  *)
(* what is left running, what the file holds, and on which core the counter*)
(* and the target are while a matrix is measured.                          *)
(***************************************************************************)
EXTENDS SessionProofs

USE DEF driverVars, signalVars, cpuVars, procVars, outVars, loopVars

(* The steps main can only be at after a binding that worked.              *)
BoundSteps ==
  Steps \ {"handlers", "bind", "close", "free", "exited", "crashed"}

CountingSteps == LoopSteps \cup {"bench_measure", "bench_disable"}

(* The counter of the running evaluation stays on until it is disabled, and*)
(* a target was moved before the measurement.  With -c ID, arguments.cpu   *)
(* stays what the user said and no step after the binding runs elsewhere.  *)
CoreInv ==
  /\ pc \in CountingSteps => perf[evals] = "on"
  /\ pc \in LoopSteps \cup {"alarm", "enable"} /\ pid = Target =>
       targetCore = cpu
  /\ args.cpu > -1 =>
       /\ cpu = args.cpu
       /\ pc \in BoundSteps => bound /\ core = cpu

(* A number is free for another process only after the SIGCHLD handler ran,*)
(* and nobody is killed before main tears down.                            *)
KillInv ==
  /\ KillScope
  /\ pid = Target => args.pid
  /\ (\E e \in Evals : child[e] \in {"free", "recycled"}) => terminated
  /\ pc \notin {"close", "free", "exited"} => killed = {}

(* The part of main after the kill, in a run that has not failed.          *)
TornDown == pc \in {"close", "free"} \/ (pc = "exited" /\ exitCode = "success")

(* Until a call fails there is one evaluation, hence at most one workload  *)
(* and one counter; the workload is the one arguments.pid names.           *)
QuietInv ==
  evals = 1 =>
    /\ \A e \in Evals \ {1} : child[e] = "none" /\ perf[e] = "closed"
    /\ child[1] # "none" => pid = 1 /\ args.program
    /\ args.mode \in {"bench", "profile"} =>
         /\ pc = "kill" \/ TornDown => perf[1] # "on"
         /\ TornDown => child[1] # "running"

(* Until a call fails, a run with -o has the file open before the loop and *)
(* a data set in it for each matrix.                                       *)
FileInv ==
  evals = 1 /\ args.mode = "profile" /\ args.file =>
    /\ next = matrices
    /\ pc \in LoopSteps \cup {"alloc", "workload", "alarm", "enable", "kill",
                              "close"} => output = "hdf5"
    /\ pc = "free" \/ (pc = "exited" /\ exitCode = "success") =>
         file \in {"closed", "damaged"}

(* arguments are parsed once: no step changes them.                        *)
LEMMA ArgsAreKept == TypeOK /\ [Next]_vars => args' = args
<1> SUFFICES ASSUME TypeOK, [Next]_vars PROVE args' = args
  OBVIOUS
<1>1. CASE Setup
  BY <1>1, SetupFrame DEF measured
<1>2. CASE Benchmark
  BY <1>2, BenchFrame
<1>3. CASE TearDown
  BY <1>3, TearDownFrame DEF measured
<1>4. CASE Environment
  BY <1>4, EnvironmentFrame DEF measured
<1>5. CASE Profile
  BY <1>5 DEF Profile, EnableCounter, LoopTest, Measure, WriteMatrix,
              DisableCounter
<1>6. CASE UNCHANGED vars
  BY <1>6 DEF vars
<1> QED
  BY <1>1, <1>2, <1>3, <1>4, <1>5, <1>6 DEF Next, Program, Stutter

-----------------------------------------------------------------------------
(* The counter and the target are on the core that is measured             *)

LEMMA CoreStep == TypeOK /\ CoreInv /\ [Next]_vars => CoreInv'
<1> SUFFICES ASSUME TypeOK, CoreInv, [Next]_vars PROVE CoreInv'
  OBVIOUS
<1> USE DEF BoundSteps, CountingSteps, LoopSteps
<1>0. /\ args' = args /\ args.cpu \in Cpus \cup {-1} /\ evals \in Evals
      /\ pc \in Steps /\ perf \in [Evals -> {"closed", "off", "on"}]
      /\ bound \in BOOLEAN
  BY ArgsAreKept, ProfilerAssumption DEF TypeOK, Request
<1> DEFINE binds == args.cpu > -1
<1>1. /\ pc \in CountingSteps => perf[evals] = "on"
      /\ pc \in LoopSteps \cup {"alarm", "enable"} /\ pid = Target =>
           targetCore = cpu
      /\ binds => /\ cpu = args.cpu
                  /\ pc \in BoundSteps => bound /\ core = cpu
  BY DEF CoreInv
<1>2. SUFFICES /\ pc' \in CountingSteps => perf'[evals'] = "on"
               /\ pc' \in LoopSteps \cup {"alarm", "enable"} /\ pid' = Target
                    => targetCore' = cpu'
               /\ binds => /\ cpu' = args.cpu
                           /\ pc' \in BoundSteps => bound' /\ core' = cpu'
  BY <1>0 DEF CoreInv, Steps
<1>3. CASE Setup
  <2>1. CASE InstallHandlers
    BY <1>1, <2>1 DEF InstallHandlers, ExitFailure, Steps
  <2>2. CASE BindSelf
    BY <1>1, <2>2, OutcomeType DEF BindSelf, Return, Steps
  <2>3. CASE ReadCacheInfo
    BY <1>0, <1>1, <2>3 DEF ReadCacheInfo, Return, Steps
  <2>4. CASE CheckRoot
    BY <1>1, <2>4 DEF CheckRoot, ExitFailure, Steps
  <2>5. CASE CheckRdpmc
    BY <1>0, <1>1, <2>5 DEF CheckRdpmc, Return, Steps
  <2>6. CASE OpenOutput
    BY <1>0, <1>1, <2>6 DEF OpenOutput, Return, Steps
  <2>7. CASE AllocBuffer
    BY <1>0, <1>1, <2>7 DEF AllocBuffer, Return, Steps
  <2>8. CASE BindTarget
    BY <1>0, <1>1, <2>8, OutcomeType DEF BindTarget, Return, Steps
  <2>9. CASE RunProgram
    <3>1. /\ UNCHANGED <<cpuVars, perf>> /\ pc = "workload"
          /\ pc' \in {"workload", "alarm", "close"}
      BY <2>9 DEF RunProgram, Return
    <3>2. pid # Target /\ pid' \in {pid, evals}
      BY <2>9 DEF RunProgram
    <3>3. pid' # Target
      BY <1>0, <3>2 DEF Evals, Target
    <3> QED
      BY <1>1, <3>1, <3>3 DEF Steps
  <2>10. CASE NoWorkload
    BY <1>1, <2>10 DEF NoWorkload, Steps
  <2>11. CASE SetAlarm
    BY <1>1, <2>11 DEF SetAlarm, Steps
  <2> QED
    BY <1>3, <2>1, <2>2, <2>3, <2>4, <2>5, <2>6, <2>7, <2>8, <2>9, <2>10,
       <2>11 DEF Setup
<1>4. ASSUME NEW entry \in {"enable", "bench_enable"},
             NEW continue \in {"loop", "bench_measure"},
             EnableCounter(entry, continue),
             entry = "bench_enable" => continue = "bench_measure"
      PROVE  CoreInv'
  <2>1. /\ UNCHANGED <<cpu, bound, core, pid, targetCore>>
        /\ pc = entry
        /\ \/ /\ perf' = [perf EXCEPT ![evals] = "on"]
              /\ pc' = continue /\ evals' = evals
           \/ pc' \in {entry, "close"}
    BY <1>0, <1>4 DEF EnableCounter, Return, Evals
  <2>2. pc' \in CountingSteps => perf'[evals'] = "on"
    BY <1>0, <2>1
  <2> QED
    BY <1>0, <1>1, <1>4, <2>1, <2>2 DEF CoreInv, Steps
<1>5. CASE EnableCounter("enable", "loop")
  BY <1>0, <1>4, <1>5 DEF CoreInv
<1>6. CASE EnableCounter("bench_enable", "bench_measure")
  BY <1>0, <1>4, <1>6 DEF CoreInv
<1>7. CASE LoopTest \/ Measure \/ BenchMeasure
  BY <1>0, <1>1, <1>7 DEF LoopTest, Measure, BenchMeasure, Steps
<1>8. CASE WriteMatrix
  BY <1>0, <1>1, <1>8 DEF WriteMatrix, Return, Steps
<1>9. CASE DisableCounter("disable", "enable")
           \/ DisableCounter("bench_disable", "bench_enable")
  BY <1>0, <1>1, <1>9 DEF DisableCounter, Return, Steps
<1>10. CASE TearDown
  BY <1>0, <1>1, <1>10
     DEF TearDown, KillProgram, CloseOutput, FreeBuffer, Steps
<1>11. CASE Environment
  BY <1>0, <1>1, <1>11
     DEF Environment, Signal, AlarmFires, HandleSigchld, Migrate, ChildExits,
         ChildStops, RecyclePid, HandlersInstalled, Ended, Steps
<1>12. CASE UNCHANGED vars
  BY <1>1, <1>12 DEF vars
<1> QED
  BY <1>3, <1>5, <1>6, <1>7, <1>8, <1>9, <1>10, <1>11, <1>12
     DEF Next, Program, Profile, Benchmark, Stutter

LEMMA CoreInvariant == Spec => [](TypeOK /\ CoreInv)
<1>1. Init => CoreInv
  BY DEF Init, CoreInv, BoundSteps, CountingSteps, LoopSteps
<1> QED
  BY <1>1, CoreStep, TypeCorrect, PTL DEF Spec

(* While it is measured, rdpmc reads an enabled counter.  With -c ID it is *)
(* the one of the core the profiler runs on, whatever the scheduler does   *)
(* and however often profile() is run again, except that the bench mode    *)
(* counts on core 0 wherever it runs.                                      *)
THEOREM CounterIsOnThisCore == Spec => []CounterOnThisCore
<1>1. TypeOK /\ CoreInv => CounterOnThisCore
  BY DEF CoreInv, CounterOnThisCore, CounterCpu, BoundSteps, CountingSteps,
         LoopSteps, Steps
<1> QED
  BY <1>1, CoreInvariant, PTL

(* A process given by --pid is measured on the core main has recorded,     *)
(* since EXIT_ON_FAIL does not let the measurement begin otherwise; with   *)
(* -c ID the profiler runs on the same one.                                *)
THEOREM TargetIsOnThisCore == Spec => []TargetOnThisCore
<1>1. TypeOK /\ CoreInv => TargetOnThisCore
  BY DEF CoreInv, TargetOnThisCore, BoundSteps, LoopSteps, Steps
<1> QED
  BY <1>1, CoreInvariant, PTL

-----------------------------------------------------------------------------
(* Who is killed                                                           *)

LEMMA KillStep == TypeOK /\ KillInv /\ [Next]_vars => KillInv'
<1> SUFFICES ASSUME TypeOK, KillInv, [Next]_vars PROVE KillInv'
  OBVIOUS
<1>0. /\ args' = args /\ evals \in Evals /\ pid \in 0 .. 4
      /\ child \in [Evals -> ChildState] /\ terminated \in BOOLEAN
  BY ArgsAreKept DEF TypeOK
<1>1. /\ ~(args.pid /\ args.program) => "target" \notin killed
      /\ "stranger" \in killed =>
           terminated /\ \E e \in Evals : child[e] = "recycled"
      /\ pid = Target => args.pid
      /\ (\E e \in Evals : child[e] \in {"free", "recycled"}) => terminated
      /\ pc \notin {"close", "free", "exited"} => killed = {}
  BY DEF KillInv, KillScope
(* Most steps neither start nor end a process.                             *)
<1>2. ASSUME UNCHANGED <<args, pid, child, killed>>,
             terminated' = terminated \/ terminated',
             pc' = pc \/ pc \notin {"close", "free", "exited"}
               \/ pc' \in {"close", "free", "exited"}
      PROVE  KillInv'
  BY <1>1, <1>2 DEF KillInv, KillScope
<1>3. CASE Setup
  <2>1. /\ terminated' = terminated /\ killed' = killed
        /\ pc \notin {"close", "free", "exited"}
    BY <1>3 DEF Setup, InstallHandlers, BindSelf, ReadCacheInfo, CheckRoot,
                CheckRdpmc, OpenOutput, AllocBuffer, BindTarget, RunProgram,
                NoWorkload, SetAlarm
  <2>2. CASE RunProgram
    <3>1. pid # Target /\ pid' \in {pid, evals}
      BY <2>2 DEF RunProgram
    <3>2. pid' # Target
      BY <1>0, <3>1 DEF Evals, Target
    <3>3. child' \in {child, [child EXCEPT ![evals] = "running"]}
      BY <2>2 DEF RunProgram
    <3>4. \A e \in Evals :
            child'[e] \in {"free", "recycled"} => child'[e] = child[e]
      BY <1>0, <3>3
    <3> QED
      BY <1>1, <2>1, <3>2, <3>4 DEF KillInv, KillScope
  <2>3. CASE ~RunProgram
    <3>1. UNCHANGED <<pid, child>>
      BY <1>3, <2>3
         DEF Setup, InstallHandlers, BindSelf, ReadCacheInfo, CheckRoot,
             CheckRdpmc, OpenOutput, AllocBuffer, BindTarget, NoWorkload,
             SetAlarm
    <3> QED
      BY <1>0, <1>2, <2>1, <3>1
  <2> QED
    BY <2>2, <2>3
<1>4. CASE Profile \/ Benchmark
  <2>1. /\ UNCHANGED <<pid, child, killed, terminated>>
        /\ pc \notin {"close", "free", "exited"}
    BY <1>4 DEF Profile, Benchmark, EnableCounter, LoopTest, Measure,
                WriteMatrix, DisableCounter, BenchMeasure
  <2> QED
    BY <1>0, <1>2, <2>1
<1>5. CASE KillProgram
  <2>0. /\ pc = "kill" /\ killed = {} /\ UNCHANGED <<pid, terminated>>
        /\ pc' = "close"
    BY <1>1, <1>5 DEF KillProgram
  <2>1. CASE KillWanted
    <3>1. Sigkill(pid) /\ args.program /\ pid # 0
      BY <1>5, <2>1 DEF KillProgram, KillWanted, NoPid
    <3>2. CASE pid = Target
      <4>1. killed' = {"target"} /\ child' = child
        BY <2>0, <3>1, <3>2 DEF Sigkill
      <4> QED
        BY <1>0, <1>1, <2>0, <3>1, <3>2, <4>1 DEF KillInv, KillScope
    <3>3. CASE pid # Target
      <4>1. pid \in Evals
        BY <1>0, <3>1, <3>3 DEF Evals, Target
      <4>2. CASE child[pid] = "running"
        <5>1. /\ killed' = {"child"}
              /\ child' = [child EXCEPT ![pid] = "zombie"]
          BY <2>0, <3>1, <3>3, <4>2 DEF Sigkill
        <5>2. \A e \in Evals :
                child'[e] \in {"free", "recycled"} => child'[e] = child[e]
          BY <1>0, <5>1
        <5> QED
          BY <1>0, <1>1, <2>0, <3>3, <5>1, <5>2 DEF KillInv, KillScope
      <4>3. CASE child[pid] = "recycled"
        <5>1. killed' = {"stranger"} /\ child' = child
          BY <2>0, <3>1, <3>3, <4>3 DEF Sigkill
        <5> QED
          BY <1>0, <1>1, <2>0, <3>3, <4>1, <4>3, <5>1 DEF KillInv, KillScope
      <4>4. CASE child[pid] \notin {"running", "recycled"}
        <5>1. killed' = {} /\ child' = child
          BY <2>0, <3>1, <3>3, <4>4 DEF Sigkill
        <5> QED
          BY <1>0, <1>1, <2>0, <3>3, <5>1 DEF KillInv, KillScope
      <4> QED
        BY <4>2, <4>3, <4>4
    <3> QED
      BY <3>2, <3>3
  <2>2. CASE ~KillWanted
    BY <1>0, <1>2, <1>5, <2>0, <2>2 DEF KillProgram
  <2> QED
    BY <2>1, <2>2
<1>6. CASE CloseOutput \/ FreeBuffer
  BY <1>0, <1>2, <1>6 DEF CloseOutput, FreeBuffer
<1>7. CASE Environment
  <2>1. /\ UNCHANGED <<pc, pid, killed>>
        /\ terminated' = terminated \/ terminated'
    BY <1>7 DEF Environment, Signal, AlarmFires, HandleSigchld, Migrate,
                ChildExits, ChildStops, RecyclePid
  <2>2. CASE HandleSigchld
    <3>1. /\ terminated'
          /\ \A e \in Evals : child[e] = "recycled" => child'[e] = "recycled"
      BY <1>0, <2>2 DEF HandleSigchld
    <3> QED
      BY <1>0, <1>1, <2>1, <3>1 DEF KillInv, KillScope
  <2>3. ASSUME NEW e \in Evals, ChildExits(e) PROVE KillInv'
    <3>1. child[e] = "running" /\ child' = [child EXCEPT ![e] = "zombie"]
          /\ terminated' = terminated
      BY <2>3 DEF ChildExits
    <3>2. \A f \in Evals :
            /\ child[f] = "recycled" => child'[f] = "recycled"
            /\ child'[f] \in {"free", "recycled"} => child'[f] = child[f]
      BY <1>0, <3>1
    <3> QED
      BY <1>0, <1>1, <2>1, <3>1, <3>2 DEF KillInv, KillScope
  <2>4. ASSUME NEW e \in Evals, RecyclePid(e) PROVE KillInv'
    <3>1. child[e] = "free" /\ child' = [child EXCEPT ![e] = "recycled"]
          /\ terminated' = terminated
      BY <2>4 DEF RecyclePid
    <3>2. \A f \in Evals :
            child[f] = "recycled" => child'[f] = "recycled"
      BY <1>0, <3>1
    <3>3. terminated
      BY <1>1, <2>4, <3>1
    <3> QED
      BY <1>0, <1>1, <2>1, <3>1, <3>2, <3>3 DEF KillInv, KillScope
  <2>5. CASE Signal \/ AlarmFires \/ Migrate \/ \E e \in Evals : ChildStops(e)
    BY <1>0, <1>2, <2>1, <2>5 DEF Signal, AlarmFires, Migrate, ChildStops
  <2> QED
    BY <1>7, <2>2, <2>3, <2>4, <2>5 DEF Environment
<1>8. CASE UNCHANGED vars
  BY <1>2, <1>8 DEF vars
<1> QED
  BY <1>3, <1>4, <1>5, <1>6, <1>7, <1>8 DEF Next, Program, TearDown, Stutter

(* The SIGKILL at the end never hits the --pid process unless both options *)
(* were given, and hits a process that inherited the workload's number at  *)
(* most after the SIGCHLD handler reaped the workload and set terminated.  *)
THEOREM KillStaysInScope == Spec => []KillScope
<1>1. Init => KillInv
  <2> SUFFICES ASSUME Init PROVE KillInv
    OBVIOUS
  <2>1. pid = Target => args.pid
    BY DEF Init, NoPid, Target
  <2>2. \A e \in Evals : child[e] = "none"
    BY DEF Init
  <2> QED
    BY <2>1, <2>2 DEF Init, KillInv, KillScope
<1>2. KillInv => KillScope
  BY DEF KillInv
<1> QED
  BY <1>1, <1>2, KillStep, TypeCorrect, PTL DEF Spec

-----------------------------------------------------------------------------
(* What a run without a failed call leaves running                         *)

(* While no call has failed, the set up starts at most the first workload, *)
(* and it leads to the end of main only in a mode that measures nothing.   *)
LEMMA SetupUnfailed ==
  ASSUME TypeOK, Setup, evals' = 1
  PROVE  /\ evals = 1 /\ UNCHANGED <<args, perf>>
         /\ \/ UNCHANGED <<pid, child>>
            \/ /\ args.program /\ pid' = 1
               /\ child' = [child EXCEPT ![1] = "running"]
         /\ pc \in SetupSteps /\ pc' \notin {"kill", "free"}
         /\ pc' = "exited" => exitCode' = "failure"
         /\ pc' = "close" => args.mode \notin {"bench", "profile"}
<1>0. evals = 1 /\ evals \in Evals
  BY SetupCounts DEF TypeOK
<1>1. args' = args /\ pc \in SetupSteps
  BY SetupFrame DEF measured
<1>2. perf' = perf
  BY DEF Setup, InstallHandlers, BindSelf, ReadCacheInfo, CheckRoot,
         CheckRdpmc, OpenOutput, AllocBuffer, BindTarget, RunProgram,
         NoWorkload, SetAlarm
<1>3. \/ UNCHANGED <<pid, child>>
      \/ /\ args.program /\ pid' = 1
         /\ child' = [child EXCEPT ![1] = "running"]
  <2>1. CASE RunProgram
    BY <1>0, <2>1 DEF RunProgram
  <2>2. CASE ~RunProgram
    BY <2>2 DEF Setup, InstallHandlers, BindSelf, ReadCacheInfo, CheckRoot,
                CheckRdpmc, OpenOutput, AllocBuffer, BindTarget, NoWorkload,
                SetAlarm
  <2> QED
    BY <2>1, <2>2
<1>4. /\ pc' \notin {"kill", "free"}
      /\ pc' = "exited" => exitCode' = "failure"
      /\ pc' = "close" => args.mode \notin {"bench", "profile"}
  <2>1. CASE InstallHandlers \/ CheckRoot \/ NoWorkload \/ SetAlarm
    BY <2>1 DEF InstallHandlers, CheckRoot, NoWorkload, SetAlarm, ExitFailure
  <2>2. ASSUME NEW ok, NEW entry, NEW continue, Return(ok, entry, continue)
        PROVE  pc' = continue
    BY <1>0, <2>2 DEF Return
  <2>3. CASE ReadCacheInfo
    BY <2>2, <2>3 DEF ReadCacheInfo
  <2>4. CASE CheckRdpmc
    <3> DEFINE goal == CASE args.mode = "bench"   -> "bench_enable"
                         [] args.mode = "profile" -> "open"
                         [] OTHER                 -> "close"
    <3>1. /\ goal \in {"bench_enable", "open", "close"}
          /\ goal = "close" => args.mode \notin {"bench", "profile"}
      OBVIOUS
    <3>2. pc' = goal
      BY <2>2, <2>4 DEF CheckRdpmc
    <3> QED
      BY <3>1, <3>2
  <2>5. CASE BindSelf \/ OpenOutput \/ AllocBuffer \/ BindTarget \/ RunProgram
    <3>1. pc' \in {"cache", "alloc", "workload", "alarm"}
      BY <2>2, <2>5 DEF BindSelf, OpenOutput, AllocBuffer, BindTarget,
                        RunProgram
    <3> QED
      BY <3>1
  <2> QED
    BY <2>1, <2>3, <2>4, <2>5 DEF Setup
<1> QED
  BY <1>0, <1>1, <1>2, <1>3, <1>4

(* In the tear down of a run without a failed call: the counter was        *)
(* disabled, and the kill reaches the one workload there can be.           *)
LEMMA QuietStep == TypeOK /\ QuietInv /\ [Next]_vars => QuietInv'
<1> SUFFICES ASSUME TypeOK, QuietInv, [Next]_vars, evals' = 1
             PROVE  QuietInv'
  BY DEF QuietInv
<1> USE DEF TornDown
<1>0. /\ args' = args /\ evals \in Evals /\ pid \in 0 .. 4
      /\ child \in [Evals -> ChildState]
      /\ perf \in [Evals -> {"closed", "off", "on"}]
      /\ 1 \in Evals
  BY ArgsAreKept DEF TypeOK, Evals
<1>1. ASSUME evals = 1
      PROVE  /\ \A e \in Evals \ {1} : child[e] = "none" /\ perf[e] = "closed"
             /\ child[1] # "none" => pid = 1 /\ args.program
             /\ args.mode \in {"bench", "profile"} =>
                  /\ pc = "kill" \/ TornDown => perf[1] # "on"
                  /\ TornDown => child[1] # "running"
  BY <1>1 DEF QuietInv
<1>2. CASE Setup
  <2>1. child' \in {child, [child EXCEPT ![1] = "running"]}
    BY <1>2, SetupUnfailed
  <2>2. \A e \in Evals \ {1} : child'[e] = child[e]
    BY <1>0, <2>1
  <2> QED
    BY <1>1, <1>2, <2>2, SetupUnfailed DEF QuietInv, SetupSteps
<1>3. ASSUME NEW entry, NEW continue \in {"loop", "bench_measure"},
             EnableCounter(entry, continue)
      PROVE  QuietInv'
  <2>1. /\ evals = 1 /\ pc' = continue
        /\ perf' = [perf EXCEPT ![1] = "on"]
        /\ UNCHANGED <<pid, child>>
    BY <1>0, <1>3 DEF EnableCounter, Return, Evals
  <2>2. \A e \in Evals \ {1} : perf'[e] = perf[e]
    BY <1>0, <2>1
  <2> QED
    BY <1>0, <1>1, <2>1, <2>2 DEF QuietInv
<1>4. ASSUME NEW here, NEW entry, DisableCounter(here, entry)
      PROVE  QuietInv'
  <2>1. /\ evals = 1 /\ pc' = "kill"
        /\ perf' = [perf EXCEPT ![1] = "off"]
        /\ UNCHANGED <<pid, child>>
    <3>1. PICK ok \in BOOLEAN :
            /\ perf' = IF ok THEN [perf EXCEPT ![evals] = "off"] ELSE perf
            /\ Return(ok, entry, "kill")
      BY <1>4, OutcomeType DEF DisableCounter
    <3>2. ok /\ evals = 1
      BY <1>0, <3>1 DEF Return, Evals
    <3> QED
      BY <1>4, <3>1, <3>2 DEF Return, DisableCounter
  <2>2. /\ \A e \in Evals \ {1} : perf'[e] = perf[e]
        /\ perf'[1] = "off"
    BY <1>0, <2>1
  <2> QED
    BY <1>0, <1>1, <2>1, <2>2 DEF QuietInv
<1>5. CASE LoopTest \/ Measure \/ BenchMeasure \/ WriteMatrix
  <2>1. /\ evals = 1 /\ UNCHANGED <<pid, child, perf>>
        /\ pc' \notin {"kill", "close", "free", "exited"}
    BY <1>0, <1>5
       DEF LoopTest, Measure, BenchMeasure, WriteMatrix, Return, Evals
  <2> QED
    BY <1>0, <1>1, <2>1 DEF QuietInv
<1>6. CASE KillProgram
  <2>1. /\ evals = 1 /\ pc = "kill" /\ pc' = "close"
        /\ UNCHANGED <<pid, perf>>
    BY <1>6 DEF KillProgram
  <2>2. CASE child[1] = "running"
    <3>1. KillWanted /\ pid = 1 /\ pid # Target
      BY <1>1, <2>1, <2>2 DEF KillWanted, NoPid, Target
    <3>2. child' = [child EXCEPT ![1] = "zombie"]
      BY <1>6, <2>2, <3>1 DEF KillProgram, Sigkill
    <3>3. child'[1] = "zombie" /\ \A e \in Evals \ {1} : child'[e] = child[e]
      BY <1>0, <3>2
    <3> QED
      BY <1>0, <1>1, <2>1, <3>1, <3>3 DEF QuietInv, KillWanted
  <2>3. CASE child[1] # "running"
    <3>1. KillWanted => pid = Target \/ child[pid] # "running"
      <4>1. SUFFICES ASSUME KillWanted, pid # Target
                     PROVE  child[pid] # "running"
        OBVIOUS
      <4>2. pid \in Evals
        BY <1>0, <4>1 DEF KillWanted, NoPid, Target, Evals
      <4> QED
        BY <1>1, <2>1, <2>3, <4>2
    <3>2. child' = child
      BY <1>6, <3>1 DEF KillProgram, Sigkill
    <3> QED
      BY <1>0, <1>1, <2>1, <2>3, <3>2 DEF QuietInv
  <2> QED
    BY <2>2, <2>3
<1>7. CASE CloseOutput \/ FreeBuffer
  <2>1. /\ UNCHANGED <<evals, pid, child, perf>> /\ TornDown
    BY <1>7 DEF CloseOutput, FreeBuffer
  <2> QED
    BY <1>0, <1>1, <2>1 DEF QuietInv
<1>8. CASE Environment
  <2>1. /\ UNCHANGED <<pc, evals, exitCode, pid, perf>>
        /\ child' \in [Evals -> ChildState]
        /\ \A e \in Evals : /\ child[e] = "none" <=> child'[e] = "none"
                            /\ child'[e] = "running" => child[e] = "running"
    <3>1. CASE Signal \/ AlarmFires \/ Migrate \/ \E e \in Evals : ChildStops(e)
      BY <1>0, <3>1 DEF Signal, AlarmFires, Migrate, ChildStops
    <3>2. CASE HandleSigchld
      BY <1>0, <3>2 DEF HandleSigchld, ChildState
    <3>3. CASE \E e \in Evals : ChildExits(e) \/ RecyclePid(e)
      <4>1. /\ UNCHANGED <<pc, evals, exitCode, pid, perf>>
            /\ \E e \in Evals :
                 \/ /\ child[e] = "running"
                    /\ child' = [child EXCEPT ![e] = "zombie"]
                 \/ /\ child[e] = "free"
                    /\ child' = [child EXCEPT ![e] = "recycled"]
        BY <3>3 DEF ChildExits, RecyclePid
      <4> QED
        BY <1>0, <4>1 DEF ChildState
    <3> QED
      BY <1>8, <3>1, <3>2, <3>3 DEF Environment
  <2>2. evals = 1
    BY <2>1
  <2> QED
    BY <1>0, <1>1, <2>1, <2>2 DEF QuietInv
<1>9. CASE UNCHANGED vars
  BY <1>1, <1>9 DEF vars, QuietInv
<1>10. CASE Profile
  BY <1>3, <1>4, <1>5, <1>10 DEF Profile
<1>11. CASE Benchmark
  BY <1>3, <1>4, <1>5, <1>11 DEF Benchmark
<1> QED
  BY <1>2, <1>6, <1>7, <1>8, <1>9, <1>10, <1>11
     DEF Next, Program, TearDown, Stutter

(* A measuring run in which no call failed leaves neither the workload it  *)
(* started running nor the counter it opened enabled.                      *)
THEOREM NothingKeepsRunning == Spec => []NothingLeftRunning
<1>1. Init => QuietInv
  BY DEF Init, QuietInv, TornDown, Evals
<1>2. QuietInv => NothingLeftRunning
  BY DEF QuietInv, NothingLeftRunning, Finished, TornDown, Evals
<1> QED
  BY <1>1, <1>2, QuietStep, TypeCorrect, PTL DEF Spec

-----------------------------------------------------------------------------
(* What the file holds at the end                                          *)

(* Where the file can be in each part of a run in which no call has failed.*)
LEMMA FileInvStep == TypeOK /\ FileInv /\ DoneInv /\ [Next]_vars => FileInv'
<1> SUFFICES ASSUME TypeOK, FileInv, DoneInv, [Next]_vars,
                    evals' = 1, args.mode = "profile", args.file
             PROVE  FileInv'
  BY ArgsAreKept DEF FileInv
<1> USE DEF LoopSteps
<1>0. /\ args' = args /\ evals \in Evals
      /\ next \in Nat /\ matrices \in Nat
  BY ArgsAreKept DEF TypeOK
<1>1. ASSUME evals = 1
      PROVE  /\ next = matrices
             /\ pc \in LoopSteps \cup {"alloc", "workload", "alarm", "enable",
                                      "kill", "close"} => output = "hdf5"
             /\ pc = "free" \/ (pc = "exited" /\ exitCode = "success") =>
                  file \in {"closed", "damaged"}
  BY <1>1 DEF FileInv
<1>2. CASE Setup
  <2>1. /\ evals = 1 /\ UNCHANGED <<next, matrices>>
        /\ pc' \notin {"close", "free", "kill"}
        /\ pc' = "exited" => exitCode' = "failure"
    BY <1>2, SetupUnfailed, SetupFrame DEF measured
  <2>2. CASE OpenOutput
    <3>1. PICK create \in BOOLEAN, chmod \in BOOLEAN :
            /\ output' = IF create /\ chmod THEN "hdf5" ELSE output
            /\ Return(create /\ chmod, "open", "alloc")
      BY <2>2 DEF OpenOutput
    <3>2. create /\ chmod
      BY <2>1, <3>1 DEF Return
    <3> QED
      BY <1>1, <2>1, <3>1, <3>2 DEF FileInv, Return
  <2>3. CASE ~OpenOutput
    <3>1. /\ output' = output
          /\ \/ pc \in {"alloc", "workload", "alarm"}
             \/ pc' \in {"bind", "cache", "root", "rdpmc", "open",
                        "bench_enable", "close", "exited"}
      BY <1>2, <2>3
         DEF Setup, InstallHandlers, BindSelf, ReadCacheInfo, CheckRoot,
             CheckRdpmc, AllocBuffer, BindTarget, RunProgram, NoWorkload,
             SetAlarm, ExitFailure, Return
    <3> QED
      BY <1>1, <2>1, <3>1, <1>2, SetupFrame DEF FileInv
  <2> QED
    BY <2>2, <2>3
<1>3. CASE Benchmark
  BY <1>0, <1>3, BenchCounts DEF DoneInv
<1>4. CASE WriteMatrix
  <2>1. PICK ok \in Outcome("output_write") :
          /\ IF output = "hdf5" THEN WriteDataset(ok)
                                ELSE UNCHANGED <<next, saved, blank>>
          /\ IF ok
             THEN matrices' = matrices + 1 /\ pc' = "loop"
                    /\ UNCHANGED driverVars
             ELSE Return(FALSE, "enable", "loop")
    BY <1>4 DEF WriteMatrix
  <2>2. ok
    BY <1>0, <2>1 DEF Return, Evals
  <2>3. evals = 1 /\ output = "hdf5" /\ output' = output
    BY <1>1, <1>4, <2>1, <2>2 DEF WriteMatrix
  <2> QED
    BY <1>1, <2>1, <2>2, <2>3 DEF WriteDataset, FileInv
<1>5. CASE EnableCounter("enable", "loop") \/ LoopTest \/ Measure
             \/ DisableCounter("disable", "enable")
  <2>1. /\ UNCHANGED <<output, next, matrices>> /\ evals = 1
        /\ pc \in LoopSteps \cup {"enable"}
        /\ pc' \notin {"free", "exited"}
    BY <1>0, <1>5
       DEF EnableCounter, LoopTest, Measure, DisableCounter, Return, Evals
  <2> QED
    BY <1>1, <2>1 DEF FileInv
<1>6. CASE TearDown
  BY <1>1, <1>6 DEF TearDown, KillProgram, CloseOutput, FreeBuffer, FileInv
<1>7. CASE Environment
  <2>1. UNCHANGED <<pc, evals, exitCode, output, file, next, matrices>>
    BY <1>7 DEF Environment, Signal, AlarmFires, HandleSigchld, Migrate,
                ChildExits, ChildStops, RecyclePid
  <2> QED
    BY <1>1, <2>1 DEF FileInv
<1>8. CASE UNCHANGED vars
  BY <1>1, <1>8 DEF vars, FileInv
<1> QED
  BY <1>2, <1>3, <1>4, <1>5, <1>6, <1>7, <1>8
     DEF Next, Program, Profile, Stutter

(* A profile run that ends well without being asked to stop was given a    *)
(* limit and has output exactly that many matrices; with -o it gave them   *)
(* all to HDF5 under the names 0, 1, ... and without a gap, and tried to   *)
(* close the file.                                                         *)
THEOREM RunIsComplete == Spec => []CompleteRun
<1>1. Init => FileInv
  BY DEF Init, FileInv, LoopSteps
<1>2. SessionInv /\ FileInv /\ [Next]_vars => FileInv'
  BY FileInvStep DEF SessionInv
<1>3. SessionInv /\ ContiguousFile /\ FileInv => CompleteRun
  <2> SUFFICES ASSUME SessionInv, ContiguousFile, FileInv,
                      Finished, args.mode = "profile", ~terminated
               PROVE  /\ Limit > 0
                      /\ matrices = Limit
                      /\ args.file => /\ saved = 0 .. Limit - 1
                                      /\ blank = {}
                                      /\ file \in {"closed", "damaged"}
    BY DEF CompleteRun
  <2>1. Limit > 0 /\ matrices = Limit
    BY DEF SessionInv, DoneInv, WellEnding, Finished
  <2>2. saved = 0 .. next - 1 /\ blank = {}
    BY DEF ContiguousFile, Lost, Finished
  <2>3. args.file => next = matrices /\ file \in {"closed", "damaged"}
    BY DEF FileInv, Finished
  <2> QED
    BY <2>1, <2>2, <2>3
<1> QED
  BY <1>1, <1>2, <1>3, SessionInvariant, FileIsContiguous, PTL DEF Spec
=============================================================================
