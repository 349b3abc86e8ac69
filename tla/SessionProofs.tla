---------------------------- MODULE SessionProofs ----------------------------
(***************************************************************************)
(* The program implements what Session promises: every behaviour of        *)
(* Profiler, for every set of cores, command lines and faults, maps to one *)
(* of Session (its safety part; its end is checked by TLC).                *)
(***************************************************************************)
EXTENDS ProfilerProofs

USE DEF driverVars, signalVars, cpuVars, procVars, outVars, loopVars

BenchSteps == {"bench_enable", "bench_measure", "bench_disable"}

(* The end of main in a run in which no call failed.                       *)
WellEnding ==
  \/ pc \in {"disable", "kill", "close", "free"}
  \/ pc = "exited" /\ exitCode = "success"

(* What a profile run in which no call failed has delivered at each step of*)
(* main: j counts it, and the loop is only left when told to stop or when j*)
(* has reached the limit.                                                  *)
DoneInv ==
  /\ pc \in BenchSteps => args.mode = "bench"
  /\ args.mode = "profile" /\ evals = 1 =>
       /\ pc \in SetupSteps \cup {"enable"} => matrices = 0
       /\ pc \in LoopSteps /\ Limit > 0 => matrices = j
       /\ WellEnding =>
            terminated \/ (Limit > 0 /\ matrices = Limit)

SessionInv == TypeOK /\ StopInv /\ LimitInv /\ DoneInv

-----------------------------------------------------------------------------
(* How each part of main counts its evaluations                            *)

LEMMA ReturnCounts ==
  ASSUME TypeOK, NEW ok \in BOOLEAN, NEW entry, NEW continue,
         Return(ok, entry, continue)
  PROVE  /\ evals' \in {evals, evals + 1} /\ evals' \in Evals
         /\ exitCode' = exitCode
         /\ pc' \in {entry, continue, "close"}
         /\ evals' = 1 => evals = 1 /\ pc' = continue
BY DEF TypeOK, Return, Evals

LEMMA SetupCounts ==
  ASSUME TypeOK, Setup
  PROVE  /\ evals' \in {evals, evals + 1} /\ evals' \in Evals
         /\ evals' = 1 => evals = 1
         /\ pc' = "exited" => evals' = evals /\ exitCode' = "failure"
         /\ pc' # "crashed"
         /\ pc' \in BenchSteps => args.mode = "bench"
         /\ evals' = 1 /\ pc' = "close" => args.mode # "profile"
<1> DEFINE G ==
      /\ evals' \in {evals, evals + 1} /\ evals' \in Evals
      /\ evals' = 1 => evals = 1
      /\ pc' = "exited" => evals' = evals /\ exitCode' = "failure"
      /\ pc' # "crashed"
      /\ pc' \in BenchSteps => args.mode = "bench"
      /\ evals' = 1 /\ pc' = "close" => args.mode # "profile"
<1>0. evals \in Evals
  BY DEF TypeOK
<1> USE OutcomeType
<1>1. CASE InstallHandlers
  BY <1>0, <1>1 DEF InstallHandlers, ExitFailure, BenchSteps
<1>2. CASE BindSelf
  <2>1. PICK ok \in BOOLEAN : Return(ok, "bind", "cache")
    BY <1>2 DEF BindSelf
  <2> QED
    BY <2>1, ReturnCounts DEF BenchSteps
<1>3. CASE ReadCacheInfo
  <2> DEFINE goal == IF args.mode = "info" THEN "close" ELSE "root"
  <2>1. PICK ok \in BOOLEAN : Return(ok, "cache", goal)
    BY <1>3 DEF ReadCacheInfo
  <2>2. goal \in {"close", "root"} /\ (goal = "close" => args.mode = "info")
    OBVIOUS
  <2> HIDE DEF goal
  <2> QED
    BY <2>1, <2>2, ReturnCounts DEF BenchSteps
<1>4. CASE CheckRoot
  BY <1>0, <1>4 DEF CheckRoot, ExitFailure, BenchSteps
<1>5. CASE CheckRdpmc
  <2> DEFINE goal == CASE args.mode = "bench"   -> "bench_enable"
                       [] args.mode = "profile" -> "open"
                       [] OTHER                 -> "close"
  <2>1. PICK ok \in BOOLEAN : Return(ok, "rdpmc", goal)
    BY <1>5 DEF CheckRdpmc
  <2>2. /\ goal \in {"bench_enable", "open", "close"}
        /\ goal = "close" => args.mode # "profile"
        /\ goal = "bench_enable" => args.mode = "bench"
    OBVIOUS
  <2> HIDE DEF goal
  <2> QED
    BY <2>1, <2>2, ReturnCounts DEF BenchSteps
<1>6. CASE OpenOutput
  <2>1. PICK ok \in BOOLEAN : Return(ok, "open", "alloc")
    BY <1>6 DEF OpenOutput
  <2> QED
    BY <2>1, ReturnCounts DEF BenchSteps
<1>7. CASE AllocBuffer
  <2>1. PICK r \in AllocReturn(buffer) : Return(r.ok, "alloc", "workload")
    BY <1>7 DEF AllocBuffer
  <2>2. r.ok \in BOOLEAN
    BY AllocReturnType DEF TypeOK
  <2> QED
    BY <2>1, <2>2, ReturnCounts DEF BenchSteps
<1>8. CASE BindTarget
  <2>1. PICK ok \in BOOLEAN : Return(ok, "workload", "alarm")
    BY <1>8 DEF BindTarget
  <2> QED
    BY <2>1, ReturnCounts DEF BenchSteps
<1>9. CASE RunProgram
  <2>1. PICK ok \in BOOLEAN : Return(ok, "workload", "alarm")
    BY <1>9 DEF RunProgram
  <2> QED
    BY <2>1, ReturnCounts DEF BenchSteps
<1>10. CASE NoWorkload
  BY <1>0, <1>10 DEF NoWorkload, BenchSteps
<1>11. CASE SetAlarm
  BY <1>0, <1>11 DEF SetAlarm, BenchSteps
<1> QED
  BY <1>1, <1>2, <1>3, <1>4, <1>5, <1>6, <1>7, <1>8, <1>9, <1>10, <1>11
     DEF Setup

LEMMA BenchCounts ==
  ASSUME TypeOK, Benchmark
  PROVE  /\ evals' \in {evals, evals + 1} /\ evals' \in Evals
         /\ evals' = 1 => evals = 1
         /\ pc \in BenchSteps
         /\ pc' \in BenchSteps \cup {"kill", "close", "crashed"}
         /\ pc' = "crashed" => evals' = evals
<1>0. evals \in Evals
  BY DEF TypeOK
<1>1. CASE EnableCounter("bench_enable", "bench_measure")
  <2>1. CASE pc' = "bench_measure" /\ UNCHANGED driverVars
    BY <1>0, <1>1, <2>1 DEF EnableCounter, BenchSteps
  <2>2. CASE Return(FALSE, "bench_enable", "bench_measure")
    <3>1. /\ evals' \in {evals, evals + 1} /\ evals' \in Evals
          /\ pc' \in {"bench_enable", "bench_measure", "close"}
          /\ evals' = 1 => evals = 1
      BY <2>2, ReturnCounts
    <3> QED
      BY <1>1, <3>1 DEF EnableCounter, BenchSteps
  <2> QED
    BY <1>1, <2>1, <2>2 DEF EnableCounter
<1>2. CASE BenchMeasure
  BY <1>0, <1>2 DEF BenchMeasure, Outcome, BenchSteps
<1>3. CASE DisableCounter("bench_disable", "bench_enable")
  <2>1. PICK ok \in BOOLEAN : Return(ok, "bench_enable", "kill")
    BY <1>3, OutcomeType DEF DisableCounter
  <2> QED
    BY <1>3, <2>1, ReturnCounts DEF DisableCounter, BenchSteps
<1> QED
  BY <1>1, <1>2, <1>3 DEF Benchmark

(* The environment acts on a program that has not ended, and leaves its    *)
(* exit code alone.                                                        *)
LEMMA EnvironmentWaits ==
  ASSUME Environment
  PROVE  ~Ended /\ exitCode' = exitCode
BY DEF Environment, Signal, AlarmFires, HandleSigchld, Migrate, ChildExits,
       ChildStops, RecyclePid, HandlersInstalled

-----------------------------------------------------------------------------
(* A run without a failed call delivers all it should                      *)

LEMMA DoneStep ==
  TypeOK /\ LimitInv /\ DoneInv /\ [Next]_vars => DoneInv'
<1> SUFFICES ASSUME TypeOK, LimitInv, DoneInv, [Next]_vars PROVE DoneInv'
  OBVIOUS
<1> USE DEF SetupSteps, LoopSteps, BenchSteps, WellEnding
<1>0. /\ evals \in Evals /\ j \in Nat /\ matrices \in Nat
      /\ Limit \in Nat /\ (args' = args => Limit' = Limit)
  BY LimitType, LimitKept DEF TypeOK
<1>1. CASE Setup
  BY <1>0, <1>1, SetupFrame, SetupCounts DEF DoneInv, measured
<1>2. CASE Benchmark
  BY <1>0, <1>2, BenchFrame, BenchCounts DEF DoneInv
<1>3. CASE TearDown
  <2>1. /\ UNCHANGED <<args, matrices, terminated, evals>>
        /\ pc \in {"kill", "close", "free"}
        /\ pc' \in {"close", "free", "exited"}
    BY <1>3, TearDownFrame
       DEF TearDown, KillProgram, CloseOutput, FreeBuffer, measured
  <2> QED
    BY <1>0, <2>1 DEF DoneInv
<1>4. CASE Environment
  BY <1>0, <1>4, EnvironmentFrame, EnvironmentWaits DEF DoneInv, measured
<1>5. CASE EnableCounter("enable", "loop")
  <2>1. /\ UNCHANGED <<args, matrices>> /\ pc = "enable"
        /\ \/ pc' = "loop" /\ j' = 0 /\ evals' = evals
           \/ evals' # 1 /\ pc' \in {"enable", "close"}
    BY <1>0, <1>5 DEF EnableCounter, Return, Evals
  <2> QED
    BY <1>0, <2>1 DEF DoneInv
<1>6. CASE LoopTest
  <2>1. /\ UNCHANGED <<args, matrices, j, evals, terminated>> /\ pc = "loop"
        /\ \/ pc' = "measure"
           \/ /\ pc' = "disable"
              /\ terminated \/ (Limit > 0 /\ j >= Limit)
    BY <1>0, <1>6 DEF LoopTest, MayContinue
  <2>2. Limit > 0 => j <= Limit
    BY <2>1 DEF LimitInv
  <2> QED
    BY <1>0, <2>1, <2>2 DEF DoneInv
<1>7. CASE Measure
  BY <1>0, <1>7 DEF Measure, DoneInv
<1>8. CASE WriteMatrix
  <2>1. /\ args' = args /\ pc = "write"
        /\ \/ /\ pc' = "loop" /\ evals' = evals /\ matrices' = matrices + 1
              /\ Limit > 0 => j' = j + 1
           \/ evals' # 1 /\ pc' \in {"enable", "close"}
    BY <1>0, <1>8 DEF WriteMatrix, Return, Evals
  <2> QED
    BY <1>0, <2>1 DEF DoneInv
<1>9. CASE DisableCounter("disable", "enable")
  <2>1. /\ UNCHANGED <<args, matrices, terminated>> /\ pc = "disable"
        /\ \/ pc' = "kill" /\ evals' = evals
           \/ evals' # 1 /\ pc' \in {"enable", "close"}
    BY <1>0, <1>9 DEF DisableCounter, Return, Evals
  <2> QED
    BY <1>0, <2>1 DEF DoneInv
<1>10. CASE UNCHANGED vars
  BY <1>0, <1>10 DEF vars, DoneInv
<1> QED
  BY <1>0, <1>1, <1>2, <1>3, <1>4, <1>5, <1>6, <1>7, <1>8, <1>9, <1>10
     DEF Next, Program, Profile, Stutter

LEMMA SessionInvariant == Spec => []SessionInv
<1>1. Init => StopInv /\ LimitInv /\ DoneInv
  <2> SUFFICES ASSUME Init PROVE StopInv /\ LimitInv /\ DoneInv
    OBVIOUS
  <2>1. Limit \in Nat
    BY LimitType DEF Init
  <2> QED
    BY <2>1 DEF Init, StopInv, LimitInv, LimitPerEvaluation, DoneInv,
                SetupSteps, LoopSteps, BenchSteps, WellEnding
<1> QED
  BY <1>1, InitType, StepType, StopStep, LimitStep, DoneStep, PTL
     DEF Spec, SessionInv

-----------------------------------------------------------------------------
(* Every step is a step of Session, or none                                *)

LEMMA InitMaps == Init => Promise!Init
<1> SUFFICES ASSUME Init PROVE Promise!Init
  OBVIOUS
<1>1. Limit \in Nat
  BY LimitType DEF Init
<1> QED
  BY <1>1 DEF Init, Promise!Init, Result, Ended

(* What leaves the matrices and the flag alone and does not end the program*)
(* is a retry or nothing.                                                  *)
LEMMA QuietMaps ==
  ASSUME TypeOK, UNCHANGED <<args, matrices, late, terminated>>,
         evals' \in {evals, evals + 1}, evals' \in Evals,
         ~Ended, ~Ended'
  PROVE  Promise!Retry \/ UNCHANGED Promise!vars
<1>1. Result = "pending" /\ Result' = "pending"
  BY DEF Result
<1>2. CASE evals' = evals
  BY <1>1, <1>2, LimitKept DEF Promise!vars
<1>3. CASE evals' = evals + 1
  BY <1>1, <1>3, LimitKept DEF Promise!Retry, Promise!Attempts, Evals
<1> QED
  BY <1>2, <1>3

(* The program never claims more than it did.                              *)
LEMMA EndMaps ==
  ASSUME TypeOK, UNCHANGED <<args, matrices, late, terminated, evals>>,
         ~Ended, Ended',
         Finished' /\ args.mode = "profile" /\ ~terminated =>
           Limit > 0 /\ matrices = Limit
  PROVE  Promise!End
<1>1. Result = "pending" /\ terminated \in BOOLEAN
  BY DEF Result, TypeOK
<1>2. Result' \in {"complete", "stopped", "nothing"}
  BY DEF Result
<1>3. Promise!Achieved(Result')
  <2>1. CASE Finished' /\ args.mode = "profile" /\ terminated
    BY <2>1 DEF Result, Finished, Promise!Achieved
  <2>2. CASE Finished' /\ args.mode = "profile" /\ ~terminated
    BY <2>2 DEF Result, Finished, Promise!Achieved
  <2>3. CASE ~(Finished' /\ args.mode = "profile")
    BY <2>3 DEF Result, Promise!Achieved
  <2> QED
    BY <2>1, <2>2, <2>3
<1> QED
  BY <1>1, <1>2, <1>3, LimitKept DEF Promise!End

LEMMA StepMaps == SessionInv /\ [Next]_vars => [Promise!Next]_Promise!vars
<1> SUFFICES ASSUME SessionInv, [Next]_vars
             PROVE  Promise!Next \/ UNCHANGED Promise!vars
  OBVIOUS
<1> USE DEF SetupSteps, LoopSteps, BenchSteps
<1>0. /\ TypeOK /\ evals \in Evals /\ matrices \in Nat /\ late \in Nat
      /\ terminated \in BOOLEAN
      /\ (args' = args => Limit' = Limit)
  BY LimitKept DEF SessionInv, TypeOK
<1>1. CASE Setup
  <2>1. /\ UNCHANGED <<args, matrices, late, terminated>> /\ ~Ended
        /\ evals' \in {evals, evals + 1} /\ evals' \in Evals
    BY <1>0, <1>1, SetupFrame, SetupCounts DEF measured, Ended
  <2>2. CASE ~Ended'
    BY <1>0, <2>1, <2>2, QuietMaps DEF Promise!Next
  <2>3. CASE Ended'
    <3>1. evals' = evals /\ ~Finished'
      BY <1>0, <1>1, <2>3, SetupCounts DEF Ended, Finished
    <3> QED
      BY <1>0, <2>1, <2>3, <3>1, EndMaps DEF Promise!Next
  <2> QED
    BY <2>2, <2>3
<1>2. CASE Benchmark
  <2>1. /\ UNCHANGED <<args, matrices, late, terminated>> /\ ~Ended
        /\ evals' \in {evals, evals + 1} /\ evals' \in Evals
    BY <1>0, <1>2, BenchFrame, BenchCounts DEF Ended
  <2>2. CASE ~Ended'
    BY <1>0, <2>1, <2>2, QuietMaps DEF Promise!Next
  <2>3. CASE Ended'
    <3>1. evals' = evals /\ ~Finished'
      BY <1>0, <1>2, <2>3, BenchCounts DEF Ended, Finished
    <3> QED
      BY <1>0, <2>1, <2>3, <3>1, EndMaps DEF Promise!Next
  <2> QED
    BY <2>2, <2>3
<1>3. CASE EnableCounter("enable", "loop") \/ LoopTest
             \/ DisableCounter("disable", "enable")
  <2>1. /\ UNCHANGED <<args, matrices, late, terminated>>
        /\ ~Ended /\ ~Ended'
        /\ evals' \in {evals, evals + 1} /\ evals' \in Evals
    BY <1>0, <1>3
       DEF EnableCounter, LoopTest, DisableCounter, Return, Ended, Evals
  <2> QED
    BY <1>0, <2>1, QuietMaps DEF Promise!Next
<1>4. CASE Measure
  <2>1. /\ UNCHANGED <<args, matrices, late, terminated, evals>>
        /\ ~Ended /\ ~Finished'
    BY <1>4 DEF Measure, Ended, Finished
  <2>2. CASE ~Ended'
    BY <1>0, <2>1, <2>2, QuietMaps DEF Promise!Next
  <2>3. CASE Ended'
    BY <1>0, <2>1, <2>3, EndMaps DEF Promise!Next
  <2> QED
    BY <2>2, <2>3
<1>5. CASE WriteMatrix
  <2>1. /\ UNCHANGED <<args, terminated>> /\ ~Ended /\ ~Ended'
        /\ pc = "write"
    BY <1>5 DEF WriteMatrix, Return, Ended
  <2>2. CASE /\ evals' = evals /\ matrices' = matrices + 1
             /\ late' = IF terminated THEN late + 1 ELSE late
    <3>1. late = 0
      BY <1>0, <2>1 DEF SessionInv, StopInv
    <3>2. Limit > 0 => matrices < evals * Limit
      <4>1. SUFFICES ASSUME Limit > 0
                     PROVE  matrices < evals * Limit
        OBVIOUS
      <4> DEFINE n == Limit
                 done == (evals - 1) * n
                 all == evals * n
      <4>2. n \in Nat /\ j \in Nat
        BY LimitType DEF SessionInv, TypeOK
      <4>3. done \in Nat /\ all \in Nat /\ all = done + n
        BY <1>0, <4>2, EvaluationProducts
      <4>4. matrices <= done + j /\ j < n
        BY <2>1, <4>1 DEF SessionInv, LimitInv
      <4> HIDE DEF n, done, all
      <4>5. matrices < all
        BY <1>0, <4>2, <4>3, <4>4
      <4> QED
        BY <4>5 DEF all, n
    <3>3. Result = "pending" /\ Result' = "pending"
      BY <2>1 DEF Result
    <3> QED
      BY <1>0, <2>1, <2>2, <3>1, <3>2, <3>3 DEF Promise!Next, Promise!Deliver
  <2>3. CASE Return(FALSE, "enable", "loop") /\ UNCHANGED loopVars
    <3>1. evals' \in {evals, evals + 1} /\ evals' \in Evals
      BY <1>0, <2>3, ReturnCounts
    <3> QED
      BY <1>0, <2>1, <2>3, <3>1, QuietMaps DEF Promise!Next
  <2> QED
    BY <1>5, <2>2, <2>3 DEF WriteMatrix
<1>6. CASE TearDown
  <2>1. /\ UNCHANGED <<args, matrices, late, terminated, evals>> /\ ~Ended
        /\ pc \in {"kill", "close", "free"}
    BY <1>6, TearDownFrame
       DEF TearDown, KillProgram, CloseOutput, FreeBuffer, measured, Ended
  <2>2. CASE ~Ended'
    BY <1>0, <2>1, <2>2, QuietMaps DEF Promise!Next
  <2>3. CASE Ended'
    <3>1. Finished' /\ args.mode = "profile" /\ ~terminated =>
            Limit > 0 /\ matrices = Limit
      BY <2>1 DEF SessionInv, DoneInv, WellEnding, Finished
    <3> QED
      BY <1>0, <2>1, <2>3, <3>1, EndMaps DEF Promise!Next
  <2> QED
    BY <2>2, <2>3
<1>7. CASE Environment
  <2>1. /\ UNCHANGED <<args, matrices, late, pc, evals>> /\ ~Ended /\ ~Ended'
        /\ terminated' = terminated \/ terminated'
    BY <1>7, EnvironmentFrame, EnvironmentWaits DEF measured, Ended
  <2>2. CASE terminated' = terminated
    BY <1>0, <2>1, <2>2, QuietMaps DEF Promise!Next
  <2>3. CASE terminated'
    <3>1. Result = "pending" /\ Result' = "pending"
      BY <2>1 DEF Result
    <3>2. terminated' = TRUE
      <4>1. TypeOK'
        BY <1>0, StepType
      <4> QED
        BY <2>3, <4>1 DEF TypeOK
    <3> QED
      BY <1>0, <2>1, <3>1, <3>2 DEF Promise!Next, Promise!Ask
  <2> QED
    BY <2>1, <2>2, <2>3
<1>8. CASE UNCHANGED vars
  BY <1>0, <1>8 DEF vars, Promise!vars, Result, Ended, Finished
<1> QED
  BY <1>1, <1>2, <1>3, <1>4, <1>5, <1>6, <1>7, <1>8
     DEF Next, Program, Profile, Stutter

(* Whatever fails and whenever it is interrupted, a run of the program is  *)
(* one that Session allows.                                                *)
THEOREM SessionIsKept == Spec => Promise!Safety
BY SessionInvariant, InitMaps, StepMaps, PTL DEF Spec, Promise!Safety

=============================================================================
