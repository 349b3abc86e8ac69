--------------------------- MODULE ProfilerProofs ---------------------------
(***************************************************************************)
(* Theorems about Profiler, for every set of cores, command lines and      *)
(* faults and without the bound on the number of matrices mattering.       *)
(***************************************************************************)
EXTENDS Profiler, FiniteSetTheorems, TLAPS

(* The groups of variables have to be opened in nearly every leaf.         *)
USE DEF driverVars, signalVars, cpuVars, procVars, outVars, loopVars

-----------------------------------------------------------------------------
(* Type correctness                                                        *)

LEMMA InitType == Init => TypeOK
<1> SUFFICES ASSUME Init PROVE TypeOK
  OBVIOUS
<1>1. args \in Request
  BY ProfilerAssumption DEF Init
<1>2. cpu \in Cpus \cup {-1} /\ core \in Cpus /\ targetCore \in Cpus \cup {-1}
  BY <1>1 DEF Init, Request
<1>3. pid \in 0 .. 4
  BY DEF Init, NoPid, Target
<1>4. /\ child \in [Evals -> ChildState]
      /\ perf \in [Evals -> {"closed", "off", "on"}]
  BY DEF Init, ChildState
<1>5. pc \in Steps /\ buffer \in BufferState /\ evals \in Evals
  BY DEF Init, Steps, BufferState, Evals
<1> QED
  BY <1>2, <1>3, <1>4, <1>5 DEF Init, TypeOK

(* Where EXIT_ON_FAIL sends main is a step of main, and evals stays in its *)
(* range.                                                                  *)
LEMMA ReturnType ==
  ASSUME TypeOK, NEW ok \in BOOLEAN,
         NEW entry \in Steps, NEW continue \in Steps,
         Return(ok, entry, continue)
  PROVE  /\ pc' \in Steps
         /\ evals' \in Evals
         /\ exitCode' = exitCode
BY DEF TypeOK, Return, Steps, Evals

LEMMA OutcomeType == \A call : Outcome(call) \subseteq BOOLEAN
BY DEF Outcome

LEMMA AllocReturnType ==
  \A before \in BufferState : \A r \in AllocReturn(before) :
    r.ok \in BOOLEAN /\ r.buffer \in BufferState
<1> TAKE before \in BufferState
<1> TAKE r \in AllocReturn(before)
<1>1. CASE r = [ok |-> FALSE, buffer |-> before]
  BY <1>1
<1>2. CASE r \in [ok : BOOLEAN, buffer : BufferState \ {"null"}]
  BY <1>2
<1> QED
  BY <1>1, <1>2 DEF AllocReturn

LEMMA SetupType == TypeOK /\ Setup => TypeOK'
<1> SUFFICES ASSUME TypeOK, Setup PROVE TypeOK'
  OBVIOUS
<1> USE ProfilerAssumption, OutcomeType
<1> DEFINE S(s) == s \in Steps
<1>0. /\ S("bind") /\ S("cache") /\ S("root") /\ S("rdpmc") /\ S("open")
      /\ S("alloc") /\ S("workload") /\ S("alarm") /\ S("close")
      /\ S("bench_enable") /\ S("enable") /\ S("exited")
  BY DEF Steps
<1> HIDE DEF S
<1>1. CASE InstallHandlers
  BY <1>1 DEF InstallHandlers, ExitFailure, TypeOK, Steps
<1>2. CASE BindSelf
  <2>1. PICK ok \in Outcome("affinity") :
          /\ Return(ok, "bind", "cache")
          /\ IF args.cpu > -1
             THEN /\ core' = IF ok THEN args.cpu ELSE core
                  /\ bound' = (bound \/ ok)
                  /\ UNCHANGED cpu
             ELSE /\ cpu' = IF ok /\ evals = 1 THEN core ELSE cpu
                  /\ UNCHANGED <<core, bound>>
    BY <1>2 DEF BindSelf
  <2>2. pc' \in Steps /\ evals' \in Evals /\ exitCode' = exitCode
    BY <2>1, <1>0, ReturnType DEF S
  <2>3. args.cpu \in Cpus \cup {-1}
    BY DEF TypeOK, Request
  <2>4. core' \in Cpus /\ bound' \in BOOLEAN /\ cpu' \in Cpus \cup {-1}
    BY <2>1, <2>3 DEF TypeOK
  <2> QED
    BY <1>2, <2>2, <2>4 DEF BindSelf, TypeOK
<1>3. CASE ReadCacheInfo
  <2>1. pc' \in Steps /\ evals' \in Evals /\ exitCode' = exitCode
    BY <1>3, <1>0, ReturnType DEF S, ReadCacheInfo, Steps
  <2> QED
    BY <1>3, <2>1 DEF ReadCacheInfo, TypeOK
<1>4. CASE CheckRoot
  BY <1>4 DEF CheckRoot, ExitFailure, TypeOK, Steps
<1>5. CASE CheckRdpmc
  <2> DEFINE goal == CASE args.mode = "bench"   -> "bench_enable"
                       [] args.mode = "profile" -> "open"
                       [] OTHER                 -> "close"
  <2>1. goal \in Steps
    BY DEF Steps
  <2>2. PICK ok \in Outcome("rdpmc") : Return(ok, "rdpmc", goal)
    BY <1>5 DEF CheckRdpmc
  <2> HIDE DEF goal
  <2>3. pc' \in Steps /\ evals' \in Evals /\ exitCode' = exitCode
    BY <2>1, <2>2, <1>0, ReturnType DEF S
  <2> QED
    BY <1>5, <2>3 DEF CheckRdpmc, TypeOK
<1>6. CASE OpenOutput
  <2>1. /\ pc' \in Steps /\ evals' \in Evals /\ exitCode' = exitCode
        /\ output' \in {"uninitialized", "stdout", "hdf5"}
        /\ file' \in {"none", "open", "closed", "damaged"}
    <3>1. CASE args.file
      <4>1. PICK create \in Outcome("output_create"),
                 chmod \in Outcome("output_create") :
              /\ file' = IF create THEN "open" ELSE file
              /\ output' = IF create /\ chmod THEN "hdf5" ELSE output
              /\ Return(create /\ chmod, "open", "alloc")
        BY <1>6, <3>1 DEF OpenOutput
      <4>2. (create /\ chmod) \in BOOLEAN
        OBVIOUS
      <4>3. pc' \in Steps /\ evals' \in Evals /\ exitCode' = exitCode
        BY <4>1, <4>2, <1>0, ReturnType DEF S
      <4> QED
        BY <4>1, <4>3 DEF TypeOK
    <3>2. CASE ~args.file
      <4>1. Return(TRUE, "open", "alloc") /\ output' = "stdout"
            /\ file' = file
        BY <1>6, <3>2 DEF OpenOutput
      <4> QED
        BY <4>1, <1>0, ReturnType DEF S, TypeOK
    <3> QED
      BY <3>1, <3>2
  <2> QED
    BY <1>6, <2>1 DEF OpenOutput, TypeOK
<1>7. CASE AllocBuffer
  <2>1. PICK r \in AllocReturn(buffer) :
          buffer' = r.buffer /\ Return(r.ok, "alloc", "workload")
    BY <1>7 DEF AllocBuffer
  <2>2. r.ok \in BOOLEAN /\ r.buffer \in BufferState
    BY <2>1, AllocReturnType DEF TypeOK
  <2>3. pc' \in Steps /\ evals' \in Evals /\ exitCode' = exitCode
    BY <2>1, <2>2, <1>0, ReturnType DEF S
  <2> QED
    BY <1>7, <2>1, <2>2, <2>3 DEF AllocBuffer, TypeOK
<1>8. CASE BindTarget
  <2>1. pc' \in Steps /\ evals' \in Evals /\ exitCode' = exitCode
    BY <1>8, <1>0, ReturnType DEF S, BindTarget
  <2>2. targetCore' \in Cpus \cup {-1}
    BY <1>8 DEF BindTarget, TypeOK
  <2> QED
    BY <1>8, <2>1, <2>2 DEF BindTarget, TypeOK
<1>9. CASE RunProgram
  <2>1. PICK ok \in Outcome("spawn") :
          /\ IF ok
             THEN /\ child' = [child EXCEPT ![evals] = "running"]
                  /\ pid' = evals
                  /\ UNCHANGED sigchld
             ELSE /\ sigchld' \in {sigchld, TRUE}
                  /\ UNCHANGED <<child, pid>>
          /\ Return(ok, "workload", "alarm")
    BY <1>9 DEF RunProgram
  <2>2. pc' \in Steps /\ evals' \in Evals /\ exitCode' = exitCode
    BY <2>1, <1>0, ReturnType DEF S
  <2>3. child' \in [Evals -> ChildState]
    <3>1. child \in [Evals -> ChildState] /\ evals \in Evals
      BY DEF TypeOK
    <3>2. "running" \in ChildState
      BY DEF ChildState
    <3>3. [child EXCEPT ![evals] = "running"] \in [Evals -> ChildState]
      BY <3>1, <3>2
    <3> QED
      BY <2>1, <3>1, <3>3
  <2>4. pid' \in 0 .. 4
    <3>1. pid \in 0 .. 4 /\ evals \in 0 .. 4
      BY DEF TypeOK, Evals
    <3> QED
      BY <2>1, <3>1
  <2>5. sigchld' \in BOOLEAN
    BY <2>1 DEF TypeOK
  <2> QED
    BY <1>9, <2>2, <2>3, <2>4, <2>5 DEF RunProgram, TypeOK
<1>10. CASE NoWorkload
  BY <1>10 DEF NoWorkload, TypeOK, Steps
<1>11. CASE SetAlarm
  BY <1>11 DEF SetAlarm, TypeOK, Steps, Request
<1> QED
  BY <1>1, <1>2, <1>3, <1>4, <1>5, <1>6, <1>7, <1>8, <1>9, <1>10, <1>11
     DEF Setup

LEMMA EnableType ==
  ASSUME TypeOK, NEW entry \in Steps, NEW continue \in Steps,
         EnableCounter(entry, continue)
  PROVE  TypeOK'
<1>1. CASE perf' = [perf EXCEPT ![evals] = "on"] /\ j' = 0
             /\ pc' = continue /\ UNCHANGED driverVars
  BY <1>1 DEF EnableCounter, TypeOK
<1>2. CASE /\ \E state \in {"closed", "off"} :
                perf' = [perf EXCEPT ![evals] = state]
           /\ Return(FALSE, entry, continue)
           /\ UNCHANGED j
  <2>1. pc' \in Steps /\ evals' \in Evals /\ exitCode' = exitCode
    BY <1>2, ReturnType
  <2>2. perf' \in [Evals -> {"closed", "off", "on"}]
    BY <1>2 DEF TypeOK
  <2> QED
    BY <1>2, <2>1, <2>2 DEF EnableCounter, TypeOK
<1> QED
  BY <1>1, <1>2 DEF EnableCounter

LEMMA DisableType ==
  ASSUME TypeOK, NEW here \in Steps, NEW entry \in Steps,
         DisableCounter(here, entry)
  PROVE  TypeOK'
<1>1. PICK ok \in Outcome("perf") :
        /\ perf' = IF ok THEN [perf EXCEPT ![evals] = "off"] ELSE perf
        /\ Return(ok, entry, "kill")
  BY DEF DisableCounter
<1>2. ok \in BOOLEAN /\ "kill" \in Steps
  BY OutcomeType DEF Steps
<1>3. pc' \in Steps /\ evals' \in Evals /\ exitCode' = exitCode
  BY <1>1, <1>2, ReturnType
<1>4. perf' \in [Evals -> {"closed", "off", "on"}]
  <2>1. perf \in [Evals -> {"closed", "off", "on"}]
    BY DEF TypeOK
  <2> QED
    BY <1>1, <2>1
<1> QED
  BY <1>3, <1>4 DEF DisableCounter, TypeOK

LEMMA WriteType == TypeOK /\ WriteMatrix => TypeOK'
<1> SUFFICES ASSUME TypeOK, WriteMatrix PROVE TypeOK'
  OBVIOUS
<1>1. PICK ok \in Outcome("output_write") :
        /\ IF output = "hdf5" THEN WriteDataset(ok)
                              ELSE UNCHANGED <<next, saved, blank>>
        /\ IF ok
           THEN /\ matrices' = matrices + 1
                /\ late' = IF terminated THEN late + 1 ELSE late
                /\ j' = IF Limit = 0 THEN j ELSE j + 1
                /\ pc' = "loop"
                /\ UNCHANGED driverVars
           ELSE Return(FALSE, "enable", "loop") /\ UNCHANGED loopVars
  BY DEF WriteMatrix
<1>2. next' \in Nat /\ saved' \subseteq Nat /\ blank' \subseteq Nat
  <2>1. next \in Nat /\ saved \subseteq Nat /\ blank \subseteq Nat
    BY DEF TypeOK
  <2>2. CASE WriteDataset(ok)
    <3>1. /\ next' = next + 1
          /\ saved' = saved \/ saved' = saved \cup {next}
          /\ blank' = blank \/ blank' = blank \cup {next}
      BY <2>2 DEF WriteDataset, DatasetName
    <3>2. next + 1 \in Nat
      BY <2>1
    <3>3. saved' \subseteq Nat
      BY <2>1, <3>1
    <3>4. blank' \subseteq Nat
      BY <2>1, <3>1
    <3> QED
      BY <3>1, <3>2, <3>3, <3>4
  <2>3. CASE next' = next /\ saved' = saved /\ blank' = blank
    BY <2>1, <2>3
  <2> QED
    BY <1>1, <2>2, <2>3
<1>3. /\ pc' \in Steps /\ evals' \in Evals /\ exitCode' = exitCode
      /\ matrices' \in Nat /\ late' \in Nat /\ j' \in Nat
  <2>1. CASE ok
    BY <1>1, <2>1 DEF TypeOK, Steps
  <2>2. CASE ~ok
    <3>1. "enable" \in Steps /\ "loop" \in Steps
      BY DEF Steps
    <3>2. pc' \in Steps /\ evals' \in Evals /\ exitCode' = exitCode
      BY <1>1, <2>2, <3>1, ReturnType
    <3> QED
      BY <1>1, <2>2, <3>2 DEF TypeOK
  <2> QED
    BY <2>1, <2>2
<1> QED
  BY <1>2, <1>3 DEF WriteMatrix, TypeOK

LEMMA MeasureType == TypeOK /\ (Profile \/ Benchmark) => TypeOK'
<1> SUFFICES ASSUME TypeOK, Profile \/ Benchmark PROVE TypeOK'
  OBVIOUS
<1>1. CASE EnableCounter("enable", "loop")
  BY <1>1, EnableType DEF Steps
<1>2. CASE LoopTest
  BY <1>2 DEF LoopTest, MayContinue, TypeOK, Steps
<1>3. CASE Measure
  BY <1>3 DEF Measure, TypeOK, Steps
<1>4. CASE WriteMatrix
  BY <1>4, WriteType
<1>5. CASE DisableCounter("disable", "enable")
  BY <1>5, DisableType DEF Steps
<1>6. CASE EnableCounter("bench_enable", "bench_measure")
  BY <1>6, EnableType DEF Steps
<1>7. CASE BenchMeasure
  BY <1>7 DEF BenchMeasure, TypeOK, Steps
<1>8. CASE DisableCounter("bench_disable", "bench_enable")
  BY <1>8, DisableType DEF Steps
<1> QED
  BY <1>1, <1>2, <1>3, <1>4, <1>5, <1>6, <1>7, <1>8 DEF Profile, Benchmark

(* SIGKILL goes to the holder of one of the numbers pid can have.          *)
LEMMA SigkillType ==
  ASSUME TypeOK, NEW p \in 1 .. 4, Sigkill(p)
  PROVE  /\ child' \in [Evals -> ChildState]
         /\ sigchld' \in BOOLEAN
         /\ killed' \subseteq {"child", "target", "stranger"}
<1>1. CASE p = Target
  BY <1>1 DEF Sigkill, TypeOK
<1>2. CASE p # Target
  <2>1. CASE child[p] = "running"
    BY <1>2, <2>1 DEF Sigkill, TypeOK, ChildState
  <2>2. CASE child[p] = "recycled"
    BY <1>2, <2>2 DEF Sigkill, TypeOK
  <2>3. CASE child[p] \notin {"running", "recycled"}
    BY <1>2, <2>3 DEF Sigkill, TypeOK
  <2> QED
    BY <2>1, <2>2, <2>3
<1> QED
  BY <1>1, <1>2

LEMMA TearDownType == TypeOK /\ TearDown => TypeOK'
<1> SUFFICES ASSUME TypeOK, TearDown PROVE TypeOK'
  OBVIOUS
<1>1. CASE KillProgram
  <2>1. /\ child' \in [Evals -> ChildState]
        /\ sigchld' \in BOOLEAN
        /\ killed' \subseteq {"child", "target", "stranger"}
    <3>1. CASE KillWanted
      <4>1. pid \in 1 .. 4
        BY <3>1 DEF KillWanted, TypeOK, NoPid
      <4> QED
        BY <1>1, <3>1, <4>1, SigkillType DEF KillProgram
    <3>2. CASE ~KillWanted
      BY <1>1, <3>2 DEF KillProgram, TypeOK
    <3> QED
      BY <3>1, <3>2
  <2> QED
    BY <1>1, <2>1 DEF KillProgram, TypeOK, Steps
<1>2. CASE CloseOutput
  <2>1. file' \in {"none", "open", "closed", "damaged"}
    BY <1>2 DEF CloseOutput, TypeOK
  <2> QED
    BY <1>2, <2>1 DEF CloseOutput, TypeOK, Steps
<1>3. CASE FreeBuffer
  <2>1. buffer' \in BufferState
    BY <1>3 DEF FreeBuffer, TypeOK, BufferState
  <2> QED
    BY <1>3, <2>1 DEF FreeBuffer, TypeOK, Steps
<1> QED
  BY <1>1, <1>2, <1>3 DEF TearDown

LEMMA EnvironmentType == TypeOK /\ Environment => TypeOK'
<1> SUFFICES ASSUME TypeOK, Environment PROVE TypeOK'
  OBVIOUS
<1>1. CASE Signal
  BY <1>1 DEF Signal, TypeOK
<1>2. CASE AlarmFires
  BY <1>2 DEF AlarmFires, TypeOK
<1>3. CASE HandleSigchld
  <2>1. child' \in [Evals -> ChildState]
    BY <1>3 DEF HandleSigchld, TypeOK, ChildState
  <2> QED
    BY <1>3, <2>1 DEF HandleSigchld, TypeOK
<1>4. CASE Migrate
  BY <1>4 DEF Migrate, TypeOK
<1>5. ASSUME NEW e \in Evals, ChildExits(e) PROVE TypeOK'
  <2>1. child' \in [Evals -> ChildState]
    BY <1>5 DEF ChildExits, TypeOK, ChildState
  <2> QED
    BY <1>5, <2>1 DEF ChildExits, TypeOK
<1>6. ASSUME NEW e \in Evals, ChildStops(e) PROVE TypeOK'
  BY <1>6 DEF ChildStops, TypeOK
<1>7. ASSUME NEW e \in Evals, RecyclePid(e) PROVE TypeOK'
  <2>1. child' \in [Evals -> ChildState]
    BY <1>7 DEF RecyclePid, TypeOK, ChildState
  <2> QED
    BY <1>7, <2>1 DEF RecyclePid, TypeOK
<1> QED
  BY <1>1, <1>2, <1>3, <1>4, <1>5, <1>6, <1>7 DEF Environment

LEMMA StepType == TypeOK /\ [Next]_vars => TypeOK'
<1> SUFFICES ASSUME TypeOK, [Next]_vars PROVE TypeOK'
  OBVIOUS
<1>1. CASE UNCHANGED vars
  BY <1>1 DEF vars, TypeOK
<1> QED
  BY <1>1, SetupType, MeasureType, TearDownType, EnvironmentType
     DEF Next, Program, Stutter

(* Every variable keeps its type in every behaviour.                       *)
THEOREM TypeCorrect == Spec => []TypeOK
BY InitType, StepType, PTL DEF Spec

-----------------------------------------------------------------------------
(* What the groups of actions leave alone                                  *)

SetupSteps == {"handlers", "bind", "cache", "root", "rdpmc", "open", "alloc",
               "workload", "alarm"}

LoopSteps == {"loop", "measure", "write", "disable"}

(* What main knows about the measurement: no step outside profile() touches*)
(* it.                                                                     *)
measured == <<args, loopVars, next, saved, blank>>

LEMMA SetupFrame ==
  ASSUME TypeOK, Setup
  PROVE  /\ UNCHANGED <<measured, terminated>>
         /\ pc \in SetupSteps
         /\ pc' \in SetupSteps \cup {"enable", "bench_enable", "close",
                                    "exited"}
         /\ evals <= evals'
<1> DEFINE G == /\ UNCHANGED <<measured, terminated>>
                /\ pc \in SetupSteps
                /\ pc' \in SetupSteps \cup {"enable", "bench_enable", "close",
                                           "exited"}
                /\ evals <= evals'
<1>0. evals \in Int
  BY DEF TypeOK, Evals
<1>1. CASE InstallHandlers
  BY <1>0, <1>1 DEF InstallHandlers, ExitFailure, measured, SetupSteps
<1>2. CASE BindSelf
  BY <1>0, <1>2 DEF BindSelf, Return, measured, SetupSteps
<1>3. CASE ReadCacheInfo
  BY <1>0, <1>3 DEF ReadCacheInfo, Return, measured, SetupSteps
<1>4. CASE CheckRoot
  BY <1>0, <1>4 DEF CheckRoot, ExitFailure, measured, SetupSteps
<1>5. CASE CheckRdpmc
  BY <1>0, <1>5 DEF CheckRdpmc, Return, measured, SetupSteps
<1>6. CASE OpenOutput
  BY <1>0, <1>6 DEF OpenOutput, Return, measured, SetupSteps
<1>7. CASE AllocBuffer
  BY <1>0, <1>7 DEF AllocBuffer, Return, measured, SetupSteps
<1>8. CASE BindTarget
  BY <1>0, <1>8 DEF BindTarget, Return, measured, SetupSteps
<1>9. CASE RunProgram
  BY <1>0, <1>9 DEF RunProgram, Return, measured, SetupSteps
<1>10. CASE NoWorkload
  BY <1>0, <1>10 DEF NoWorkload, measured, SetupSteps
<1>11. CASE SetAlarm
  BY <1>0, <1>11 DEF SetAlarm, measured, SetupSteps
<1> QED
  BY <1>1, <1>2, <1>3, <1>4, <1>5, <1>6, <1>7, <1>8, <1>9, <1>10, <1>11
     DEF Setup

(* Benchmark resets j, which only profile() uses.                          *)
LEMMA BenchFrame ==
  ASSUME TypeOK, Benchmark
  PROVE  /\ UNCHANGED <<args, terminated, matrices, late, next, saved, blank>>
         /\ pc' \in {"bench_enable", "bench_measure", "bench_disable", "kill",
                     "close", "crashed"}
         /\ evals <= evals'
<1>0. evals \in Int
  BY DEF TypeOK, Evals
<1>1. CASE EnableCounter("bench_enable", "bench_measure")
  BY <1>0, <1>1 DEF EnableCounter, Return
<1>2. CASE BenchMeasure
  BY <1>0, <1>2 DEF BenchMeasure
<1>3. CASE DisableCounter("bench_disable", "bench_enable")
  BY <1>0, <1>3 DEF DisableCounter, Return
<1> QED
  BY <1>1, <1>2, <1>3 DEF Benchmark

LEMMA TearDownFrame ==
  ASSUME TearDown
  PROVE  /\ UNCHANGED <<measured, terminated, evals>>
         /\ pc' \in {"close", "free", "exited"}
<1>1. CASE KillProgram
  BY <1>1 DEF KillProgram, measured
<1>2. CASE CloseOutput
  BY <1>2 DEF CloseOutput, measured
<1>3. CASE FreeBuffer
  BY <1>3 DEF FreeBuffer, measured
<1> QED
  BY <1>1, <1>2, <1>3 DEF TearDown

(* The environment can only set terminated.                                *)
LEMMA EnvironmentFrame ==
  ASSUME Environment
  PROVE  /\ UNCHANGED <<measured, pc, evals>>
         /\ terminated' = terminated \/ terminated'
<1>1. CASE Signal
  BY <1>1 DEF Signal, measured
<1>2. CASE AlarmFires
  BY <1>2 DEF AlarmFires, measured
<1>3. CASE HandleSigchld
  BY <1>3 DEF HandleSigchld, measured
<1>4. CASE Migrate
  BY <1>4 DEF Migrate, measured
<1>5. CASE \E e \in Evals : ChildExits(e) \/ ChildStops(e) \/ RecyclePid(e)
  BY <1>5 DEF ChildExits, ChildStops, RecyclePid, measured
<1> QED
  BY <1>1, <1>2, <1>3, <1>4, <1>5 DEF Environment

-----------------------------------------------------------------------------
(* Once asked to stop, the profiler outputs at most one more matrix        *)

(* PromptStop alone is not inductive: a matrix output after terminated was *)
(* set must be the last one, so profile() may not be on its way to another.*)
StopInv ==
  /\ late <= 1
  /\ ~terminated => late = 0
  /\ late = 1 => pc \notin {"measure", "write"}

LEMMA StopStep == TypeOK /\ StopInv /\ [Next]_vars => StopInv'
<1> SUFFICES ASSUME TypeOK, StopInv, [Next]_vars PROVE StopInv'
  OBVIOUS
<1>0. late \in Nat /\ terminated \in BOOLEAN
  BY DEF TypeOK
<1>1. CASE Setup
  BY <1>1, SetupFrame DEF StopInv, measured, SetupSteps
<1>2. CASE Benchmark
  BY <1>2, BenchFrame DEF StopInv
<1>3. CASE TearDown
  BY <1>3, TearDownFrame DEF StopInv, measured
<1>4. CASE Environment
  BY <1>4, EnvironmentFrame DEF StopInv, measured
<1>5. CASE EnableCounter("enable", "loop")
  BY <1>5 DEF EnableCounter, Return, StopInv
<1>6. CASE LoopTest
  BY <1>0, <1>6 DEF LoopTest, MayContinue, StopInv
<1>7. CASE Measure
  BY <1>7 DEF Measure, StopInv
<1>8. CASE WriteMatrix
  <2>1. /\ terminated' = terminated
        /\ pc' \in {"loop", "enable", "close"}
        /\ late' = late \/ (terminated /\ late' = late + 1)
    BY <1>8 DEF WriteMatrix, Return
  <2>2. late = 0
    BY <1>0, <1>8 DEF WriteMatrix, StopInv
  <2> QED
    BY <1>0, <2>1, <2>2 DEF StopInv
<1>9. CASE DisableCounter("disable", "enable")
  BY <1>9 DEF DisableCounter, Return, StopInv
<1>10. CASE UNCHANGED vars
  BY <1>10 DEF vars, StopInv
<1> QED
  BY <1>1, <1>2, <1>3, <1>4, <1>5, <1>6, <1>7, <1>8, <1>9, <1>10
     DEF Next, Program, Profile, Stutter

(* Whenever the signal comes and however often a failing output makes      *)
(* EXIT_ON_FAIL run profile() again, at most one more matrix is output.    *)
THEOREM StopsPromptly == Spec => []PromptStop
<1>1. Init => StopInv
  BY DEF Init, StopInv
<1>2. StopInv => PromptStop
  BY DEF StopInv, PromptStop
<1> QED
  BY <1>1, <1>2, StopStep, TypeCorrect, PTL DEF Spec

-----------------------------------------------------------------------------
(* --iter bounds the matrices of each evaluation of profile()              *)

(* The limit profile() compares with, whatever the sign of --iter.         *)
LEMMA LimitType == args \in Requests => Limit \in Nat
<1> SUFFICES ASSUME args \in Requests PROVE Limit \in Nat
  OBVIOUS
<1>1. args.iter \in Int /\ 2 * IntLimit \in Nat /\ 2 * IntLimit > 0
  BY ProfilerAssumption DEF Request
<1> DEFINE w == 2 * IntLimit
<1>2. \A i \in Int : \A m \in Nat : m > 0 => i % m \in Nat
  OBVIOUS
<1> QED
  BY <1>1, <1>2 DEF Limit

LEMMA LimitKept == args' = args => Limit' = Limit
BY DEF Limit

(* The counter j accounts for the matrices of the running evaluation, the  *)
(* earlier ones for the limit each at most.                                *)
LimitInv ==
  Limit > 0 =>
    /\ LimitPerEvaluation
    /\ pc \in SetupSteps => matrices = 0
    /\ pc = "enable" => matrices <= (evals - 1) * Limit
    /\ pc \in LoopSteps => j <= Limit
                         /\ matrices <= (evals - 1) * Limit + j
    /\ pc \in {"measure", "write"} => j < Limit

(* The products above, for the three evaluations there can be.             *)
LEMMA EvaluationProducts ==
  ASSUME NEW e \in Evals, NEW n \in Nat
  PROVE  /\ e * n \in Nat /\ (e - 1) * n \in Nat
         /\ e * n = (e - 1) * n + n
         /\ \A f \in Evals : e <= f => e * n <= f * n
<1>1. CASE e = 1
  BY <1>1 DEF Evals
<1>2. CASE e = 2
  BY <1>2 DEF Evals
<1>3. CASE e = 3
  BY <1>3 DEF Evals
<1> QED
  BY <1>1, <1>2, <1>3 DEF Evals

LEMMA LimitStep == TypeOK /\ LimitInv /\ [Next]_vars => LimitInv'
<1> SUFFICES ASSUME TypeOK, LimitInv, [Next]_vars, Limit' > 0
             PROVE  LimitInv'
  BY DEF LimitInv
<1> DEFINE n == Limit
<1>0. /\ Limit' = n /\ n \in Nat /\ n > 0
      /\ j \in Nat /\ matrices \in Nat /\ evals \in Evals /\ evals' \in Evals
  <2>1. args' = args
    <3>1. CASE Setup
      BY <3>1, SetupFrame DEF measured
    <3>2. CASE Benchmark
      BY <3>2, BenchFrame
    <3>3. CASE TearDown
      BY <3>3, TearDownFrame DEF measured
    <3>4. CASE Environment
      BY <3>4, EnvironmentFrame DEF measured
    <3>5. CASE Profile
      BY <3>5 DEF Profile, EnableCounter, LoopTest, Measure, WriteMatrix,
                  DisableCounter
    <3>6. CASE UNCHANGED vars
      BY <3>6 DEF vars
    <3> QED
      BY <3>1, <3>2, <3>3, <3>4, <3>5, <3>6 DEF Next, Program, Stutter
  <2>2. Limit' = Limit
    BY <2>1, LimitKept
  <2>3. n \in Nat
    BY LimitType DEF TypeOK
  <2> QED
    BY <2>2, <2>3, StepType DEF TypeOK
<1> DEFINE done == (evals - 1) * n
           all  == evals * n
           all2 == evals' * n
           done2 == (evals' - 1) * n
<1>1. /\ done \in Nat /\ all \in Nat /\ all2 \in Nat
      /\ all = done + n
      /\ evals <= evals' => all <= all2
  BY <1>0, EvaluationProducts
<1>2. /\ matrices <= all
      /\ pc \in SetupSteps => matrices = 0
      /\ pc = "enable" => matrices <= done
      /\ pc \in LoopSteps => j <= n /\ matrices <= done + j
      /\ pc \in {"measure", "write"} => j < n
  BY <1>0 DEF LimitInv, LimitPerEvaluation
<1>3. SUFFICES /\ matrices' <= all2
               /\ pc' \in SetupSteps => matrices' = 0
               /\ pc' = "enable" => matrices' <= done2
               /\ pc' \in LoopSteps => j' <= n
                                     /\ matrices' <= done2 + j'
               /\ pc' \in {"measure", "write"} => j' < n
  BY <1>0 DEF LimitInv, LimitPerEvaluation
<1>4. evals' = evals => all2 = all /\ done2 = done
  OBVIOUS
<1>5. evals' = evals + 1 => done2 = all
  BY <1>0 DEF Evals
<1>6. done2 \in Nat
  BY <1>0, EvaluationProducts
<1> HIDE DEF done, all, all2, done2
<1>7. CASE Setup
  <2>1. matrices' = 0
    BY <1>2, <1>7, SetupFrame DEF measured
  <2> QED
    BY <1>1, <1>6, <1>7, <2>1, SetupFrame DEF SetupSteps, LoopSteps
<1>8. CASE Benchmark
  BY <1>0, <1>1, <1>2, <1>8, BenchFrame DEF SetupSteps, LoopSteps
<1>9. CASE TearDown
  BY <1>2, <1>4, <1>9, TearDownFrame DEF SetupSteps, LoopSteps, measured
<1>10. CASE Environment
  BY <1>2, <1>4, <1>10, EnvironmentFrame DEF measured
<1>11. CASE EnableCounter("enable", "loop")
  <2>1. /\ matrices' = matrices /\ matrices <= done
    BY <1>2, <1>11 DEF EnableCounter
  <2>2. \/ pc' = "loop" /\ j' = 0 /\ evals' = evals
        \/ pc' = "enable" /\ evals' = evals + 1
        \/ pc' = "close" /\ evals' = evals
    BY <1>11 DEF EnableCounter, Return
  <2> QED
    BY <1>0, <1>1, <1>4, <1>5, <2>1, <2>2
       DEF SetupSteps, LoopSteps, Evals
<1>12. CASE LoopTest
  <2>1. /\ matrices' = matrices /\ j' = j /\ evals' = evals
        /\ pc = "loop"
        /\ pc' = "disable" \/ (pc' = "measure" /\ j < n)
    BY <1>0, <1>12 DEF LoopTest, MayContinue
  <2> QED
    BY <1>2, <1>4, <2>1 DEF SetupSteps, LoopSteps
<1>13. CASE Measure
  <2>1. /\ matrices' = matrices /\ j' = j /\ evals' = evals
        /\ pc = "measure"
        /\ pc' \in {"write", "crashed"}
    BY <1>13 DEF Measure
  <2> QED
    BY <1>2, <1>4, <2>1 DEF SetupSteps, LoopSteps
<1>14. CASE WriteMatrix
  <2>1. matrices <= done + j /\ j < n
    BY <1>2, <1>14 DEF WriteMatrix, LoopSteps
  <2>2. \/ /\ pc' = "loop" /\ matrices' = matrices + 1 /\ j' = j + 1
           /\ evals' = evals
        \/ /\ pc' = "enable" /\ matrices' = matrices /\ evals' = evals + 1
        \/ /\ pc' = "close" /\ matrices' = matrices /\ evals' = evals
    BY <1>0, <1>14 DEF WriteMatrix, Return
  <2> QED
    BY <1>0, <1>1, <1>2, <1>4, <1>5, <2>1, <2>2
       DEF SetupSteps, LoopSteps, Evals
<1>15. CASE DisableCounter("disable", "enable")
  <2>1. /\ pc = "disable" /\ matrices' = matrices
        /\ \/ pc' = "enable" /\ evals' = evals + 1
           \/ pc' \in {"close", "kill"} /\ evals' = evals
    BY <1>15 DEF DisableCounter, Return
  <2> QED
    BY <1>0, <1>1, <1>2, <1>4, <1>5, <2>1
       DEF SetupSteps, LoopSteps, Evals
<1>16. CASE UNCHANGED vars
  BY <1>2, <1>4, <1>16 DEF vars
<1> QED
  BY <1>7, <1>8, <1>9, <1>10, <1>11, <1>12, <1>13, <1>14, <1>15, <1>16
     DEF Next, Program, Profile, Stutter

(* A run with --iter outputs at most that many matrices in each evaluation *)
(* of profile(), hence at most three times as many in all.                 *)
THEOREM LimitHolds == Spec => []LimitPerEvaluation
<1>1. Init => LimitInv
  <2> SUFFICES ASSUME Init PROVE LimitInv
    OBVIOUS
  <2>1. Limit \in Nat
    BY LimitType DEF Init
  <2> QED
    BY <2>1 DEF Init, LimitInv, LimitPerEvaluation, SetupSteps, LoopSteps
<1>2. LimitInv => LimitPerEvaluation
  BY DEF LimitInv, LimitPerEvaluation
<1> QED
  BY <1>1, <1>2, LimitStep, TypeCorrect, PTL DEF Spec

-----------------------------------------------------------------------------
(* What a failing output does to the file                                  *)

(* How many names may be lost: one for each evaluation that has failed.    *)
Failures ==
  IF pc \in {"close", "free", "exited"} THEN evals ELSE evals - 1

(* One matrix, or one failed attempt to write one.                         *)
LEMMA DatasetStep ==
  ASSUME next \in Nat, NEW ok \in BOOLEAN, WriteDataset(ok),
         saved \cup blank \subseteq 0 .. next - 1, saved \cap blank = {}
  PROVE  /\ saved' \cup blank' \subseteq 0 .. next' - 1
         /\ saved' \cap blank' = {}
         /\ ok => Lost' = Lost
         /\ Lost' \subseteq Lost \cup {next}
<1>1. /\ next' = next + 1
      /\ \/ saved' = saved \cup {next} /\ blank' = blank
         \/ ~ok /\ saved' = saved /\ blank' = blank
         \/ ~ok /\ saved' = saved /\ blank' = blank \cup {next}
  BY DEF WriteDataset, DatasetName
<1>2. /\ 0 .. next' - 1 = (0 .. next - 1) \cup {next}
      /\ next \notin 0 .. next - 1
  BY <1>1
<1> HIDE DEF WriteDataset
<1>3. Lost' = ((0 .. next - 1) \cup {next}) \ saved'
  BY <1>2 DEF Lost
<1> QED
  BY <1>1, <1>2, <1>3 DEF Lost

(* Only WriteMatrix touches the file, and no step takes a failure back.    *)
LEMMA FileFrame ==
  ASSUME TypeOK, [Next]_vars
  PROVE  /\ evals <= evals'
         /\ pc \in {"close", "free", "exited"} =>
              pc' \in {"close", "free", "exited"}
         /\ WriteMatrix \/ UNCHANGED <<next, saved, blank>>
<1>0. evals \in Evals /\ evals' \in Evals
  BY StepType DEF TypeOK
<1>1. CASE Setup
  BY <1>1, SetupFrame DEF measured, SetupSteps
<1>2. CASE Benchmark
  <2>1. pc \notin {"close", "free", "exited"}
    BY <1>2 DEF Benchmark, EnableCounter, BenchMeasure, DisableCounter
  <2> QED
    BY <1>2, <2>1, BenchFrame
<1>3. CASE TearDown
  BY <1>0, <1>3, TearDownFrame DEF measured, Evals
<1>4. CASE Environment
  BY <1>0, <1>4, EnvironmentFrame DEF measured, Evals
<1>5. CASE WriteMatrix
  BY <1>0, <1>5 DEF WriteMatrix, Return, Evals
<1>6. CASE EnableCounter("enable", "loop") \/ LoopTest \/ Measure
             \/ DisableCounter("disable", "enable")
  <2>1. UNCHANGED <<next, saved, blank>>
    BY <1>6 DEF EnableCounter, LoopTest, Measure, DisableCounter
  <2> QED
    BY <1>0, <1>6, <2>1
       DEF EnableCounter, LoopTest, Measure, DisableCounter, Return, Evals
<1>7. CASE UNCHANGED vars
  BY <1>0, <1>7 DEF vars, Evals
<1> QED
  BY <1>1, <1>2, <1>3, <1>4, <1>5, <1>6, <1>7
     DEF Next, Program, Profile, Stutter

LEMMA FailuresGrow ==
  ASSUME TypeOK, [Next]_vars
  PROVE  Failures \in Nat /\ Failures' \in Nat /\ Failures <= Failures'
<1>1. evals \in 1 .. 3 /\ evals' \in 1 .. 3 /\ evals <= evals'
  BY StepType, FileFrame DEF TypeOK, Evals
<1>2. pc \in {"close", "free", "exited"} => pc' \in {"close", "free", "exited"}
  BY FileFrame
<1>3. Failures' = evals' \/ Failures' = evals' - 1
  BY DEF Failures
<1>4. CASE pc \in {"close", "free", "exited"}
  <2>1. Failures = evals /\ Failures' = evals'
    BY <1>2, <1>4 DEF Failures
  <2> QED
    BY <1>1, <2>1
<1>5. CASE pc \notin {"close", "free", "exited"}
  <2>1. Failures = evals - 1
    BY <1>5 DEF Failures
  <2> QED
    BY <1>1, <1>3, <2>1
<1> QED
  BY <1>4, <1>5

(* A failed write is one failure more.                                     *)
LEMMA FailedWrite ==
  ASSUME TypeOK, pc = "write", Return(FALSE, "enable", "loop")
  PROVE  Failures' = Failures + 1 /\ evals' # 1
BY DEF TypeOK, Return, Failures, Evals

LEMMA FileStep == TypeOK /\ ContiguousFile /\ [Next]_vars => ContiguousFile'
<1> SUFFICES ASSUME TypeOK, ContiguousFile, [Next]_vars
             PROVE  ContiguousFile'
  OBVIOUS
<1>1. /\ next \in Nat
      /\ saved \cup blank \subseteq 0 .. next - 1 /\ saved \cap blank = {}
      /\ evals = 1 => Lost = {}
      /\ Cardinality(Lost) <= Failures
  BY DEF TypeOK, ContiguousFile, Failures
<1>2. IsFiniteSet(Lost) /\ Cardinality(Lost) \in Nat
  <2>1. IsFiniteSet(0 .. next - 1)
    BY <1>1, FS_Interval
  <2>2. IsFiniteSet(Lost)
    BY <2>1, FS_Subset DEF Lost
  <2> QED
    BY <2>2, FS_CardinalityType
<1>3. /\ Failures \in Nat /\ Failures' \in Nat /\ Failures <= Failures'
      /\ evals <= evals'
      /\ WriteMatrix \/ UNCHANGED <<next, saved, blank>>
  BY FileFrame, FailuresGrow
<1>4. evals' = 1 => evals = 1
  BY <1>3, StepType DEF TypeOK, Evals
<1>5. SUFFICES /\ saved' \cup blank' \subseteq 0 .. next' - 1
               /\ saved' \cap blank' = {}
               /\ evals' = 1 => Lost' = {}
               /\ Cardinality(Lost') <= Failures'
  BY DEF ContiguousFile, Failures
<1>6. CASE UNCHANGED <<next, saved, blank>>
  <2>1. Lost' = Lost
    BY <1>6 DEF Lost
  <2> QED
    BY <1>1, <1>2, <1>3, <1>4, <1>6, <2>1
<1>7. CASE WriteMatrix /\ ~UNCHANGED <<next, saved, blank>>
  <2>1. PICK ok \in BOOLEAN :
          /\ WriteDataset(ok)
          /\ ~ok => Return(FALSE, "enable", "loop")
    BY <1>7, OutcomeType DEF WriteMatrix
  <2>2. /\ saved' \cup blank' \subseteq 0 .. next' - 1
        /\ saved' \cap blank' = {}
        /\ ok => Lost' = Lost
        /\ Lost' \subseteq Lost \cup {next}
    BY <1>1, <2>1, DatasetStep
  <2>3. CASE ok
    BY <1>1, <1>2, <1>3, <1>4, <2>2, <2>3
  <2>4. CASE ~ok
    <3>1. Failures' = Failures + 1 /\ evals' # 1
      BY <1>7, <2>1, <2>4, FailedWrite DEF WriteMatrix
    <3>2. /\ IsFiniteSet(Lost \cup {next})
          /\ Cardinality(Lost \cup {next}) <= Cardinality(Lost) + 1
      BY <1>2, FS_AddElement
    <3>3. /\ Cardinality(Lost') \in Nat
          /\ Cardinality(Lost \cup {next}) \in Nat
          /\ Cardinality(Lost') <= Cardinality(Lost \cup {next})
      BY <2>2, <3>2, FS_Subset, FS_CardinalityType
    <3> QED
      BY <1>1, <1>2, <1>3, <2>2, <3>1, <3>2, <3>3
  <2> QED
    BY <2>3, <2>4
<1> QED
  BY <1>3, <1>6, <1>7

(* Until a call of main fails, the data sets are named without a gap and   *)
(* all of them hold a matrix; every failed evaluation of profile() leaves  *)
(* one gap at most.                                                        *)
THEOREM FileIsContiguous == Spec => []ContiguousFile
<1>1. Init => ContiguousFile
  <2> SUFFICES ASSUME Init PROVE ContiguousFile
    OBVIOUS
  <2>1. Lost = {} /\ Cardinality(Lost) = 0
    BY FS_EmptySet DEF Init, Lost
  <2> QED
    BY <2>1 DEF Init, ContiguousFile
<1> QED
  BY <1>1, FileStep, TypeCorrect, PTL DEF Spec
=============================================================================
