-------------------------- MODULE VisualizerProofs --------------------------
(***************************************************************************)
(* Theorems about Visualizer, for every number of workers, every file and  *)
(* every command line.                                                     *)
(***************************************************************************)
EXTENDS Visualizer, TLAPS, FiniteSetTheorems

USE DEF parentVars, workerVars

-----------------------------------------------------------------------------
(* The inductive invariant                                                 *)

(* At most one pool is ever started, and a parent that has had one for a   *)
(* block has closed its file, so that it does not read on.                 *)
PoolInv ==
  /\ pc = "start" => pool = "none" /\ frames = <<>>
  /\ pool = "none" =>
       /\ started = 0 /\ received = 0 /\ ~closed
       /\ pc \notin {"spawn", "collect"}
  /\ pc = "spawn" => started < Workers /\ received = 0
  /\ pc = "collect" => received < Workers
  /\ pool # "none" /\ ~job.stats => closed
  /\ pc = "play" => ~closed
  /\ job.stats => pc \notin {"animate", "play", "error"}
  /\ \A w \in Ids : w >= started => worker[w] = "new"

(* Each position of the pool adds up one data set of its own.              *)
Single == pool = "image" \/ (pool = "video" /\ job.combine = 1)

(* A worker that may still answer has counted its slice as far as it has   *)
(* read, and all of it when it has answered.                               *)
SliceInv ==
  \A w \in Ids :
    /\ worker[w] \in {"new", "opening"} => part[w] = None
    /\ worker[w] = "put" => key[w] >= Last(w)
    /\ w \in queue => worker[w] = "put"
    /\ Single /\ worker[w] \in {"running", "put"} =>
         /\ key[w] >= First(w)
         /\ key[w] > First(w) => key[w] <= Last(w)
         /\ First(w) .. key[w] - 1 \subseteq names
         /\ \A n \in AllNames :
              part[w][n] = IF n \in First(w) .. key[w] - 1 THEN 1 ELSE 0

(* The workers whose results the parent has taken from the queue.          *)
Collected == {w \in Ids : worker[w] = "put"} \ queue

(* The combined result is made of the slices of those.                     *)
TotalInv ==
  /\ received = Cardinality(Collected)
  /\ pool = "none" => total = None
  /\ Single =>
       \A n \in AllNames :
         total[n] = IF \E w \in Collected : n \in First(w) .. Last(w) - 1
                    THEN 1 ELSE 0

(* A video that the parent reads block by block has one window for each    *)
(* position, until one is missing or the positions end.                    *)
Streams ==
  /\ ~job.stats /\ job.type = "video"
  /\ job.combine = 1 \/ Length(job.combine) # 1

StreamInv ==
  Streams =>
    /\ pc \notin {"spawn", "collect"} /\ ~closed
    /\ \A f \in 1 .. Len(frames) :
         frames[f] = Window(job.combine, f - 1) /\ frames[f] \subseteq names
    /\ job.combine > 1 => Len(frames) <= Length(job.combine) + 1
    /\ pc \in {"animate", "play", "done"} => Len(frames) >= 1
    /\ pc = "done" =>
         \/ job.combine > 1 /\ Length(job.combine) < Len(frames)
         \/ ~(Window(job.combine, Len(frames)) \subseteq names)
    /\ pc = "error" => ~(Window(job.combine, 0) \subseteq names)

(* The video of a file that fits into one block has that block and ends    *)
(* before it is played.                                                    *)
OnlyBlock == ~job.stats /\ job.type = "video" /\ OneBlock

BlockInv ==
  OnlyBlock =>
    IF pc = "start" THEN frames = <<>>
    ELSE /\ closed /\ pool = "image" /\ pc \notin {"play", "done"}
         /\ frames = IF pc \in {"spawn", "collect"} THEN <<>> ELSE <<names>>

Inv == TypeOK /\ PoolInv /\ SliceInv /\ TotalInv /\ StreamInv /\ BlockInv

-----------------------------------------------------------------------------
(* Lengths, windows and slices                                             *)

LEMMA Division ==
  ASSUME NEW a \in Nat, NEW b \in Nat \ {0}
  PROVE  /\ a \div b \in Nat /\ a % b \in 0 .. b - 1
         /\ a = b * (a \div b) + (a % b)
OBVIOUS

(* CeilDiv(a, b) is the number of blocks of size b that cover a.           *)
LEMMA CeilDivCovers ==
  ASSUME NEW a \in Nat, NEW b \in Nat \ {0}
  PROVE  /\ CeilDiv(a, b) \in Nat
         /\ a <= b * CeilDiv(a, b)
         /\ CeilDiv(a, b) <= a
         /\ b * CeilDiv(a, b) < a + b
<1> DEFINE q == (a + b - 1) \div b
           r == (a + b - 1) % b
<1>1. q \in Nat /\ r \in 0 .. b - 1 /\ a + b - 1 = b * q + r
  <2>1. a + b - 1 \in Nat
    OBVIOUS
  <2> QED
    BY <2>1, Division
<1> HIDE DEF q, r
<1>2. b * q \in Nat
  BY <1>1
<1>3. a <= b * q /\ b * q < a + b
  BY <1>1, <1>2
<1>4. q <= a
  <2> SUFFICES ASSUME a < q PROVE FALSE
    BY <1>1
  <2>1. b * q = b * (q - a - 1) + b * a + b /\ b * (q - a - 1) \in Nat
    <3>1. q - a - 1 \in Nat
      BY <1>1
    <3> QED
      BY <1>1, <3>1
  <2>2. b * a = a + (b - 1) * a /\ (b - 1) * a \in Nat /\ b * a \in Nat
    OBVIOUS
  <2> QED
    BY <1>3, <2>1, <2>2
<1> QED
  BY <1>1, <1>3, <1>4 DEF CeilDiv, q

LEMMA StoredIsNatural ==
  ASSUME TypeOK
  PROVE  /\ IsFiniteSet(names) /\ Stored \in Nat /\ names \subseteq Nat
         /\ job.combine \in Nat \ {0}
         /\ job.stats \in BOOLEAN /\ job.type \in {"video", "image"}
<1>1. names \in SUBSET AllNames /\ job \in Job
  BY VisualizerAssumption DEF TypeOK
<1>2. IsFiniteSet(AllNames)
  BY VisualizerAssumption, FS_Interval DEF AllNames
<1>3. IsFiniteSet(names)
  BY <1>1, <1>2, FS_Subset
<1> QED
  BY <1>1, <1>3, FS_CardinalityType DEF Stored, AllNames, Job

LEMMA LengthIsNatural ==
  ASSUME TypeOK, NEW c \in Nat \ {0}
  PROVE  Length(c) \in Nat /\ Length(c) <= Stored /\ Stored <= c * Length(c)
BY StoredIsNatural, CeilDivCovers DEF Length

LEMMA PlainLength ==
  ASSUME TypeOK
  PROVE  Length(1) = Stored
<1>1. Stored \in Nat /\ 1 \in Nat \ {0}
  BY StoredIsNatural
<1>2. CeilDiv(Stored, 1) \in Nat
  BY <1>1, CeilDivCovers
<1>3. Stored <= 1 * CeilDiv(Stored, 1) /\ CeilDiv(Stored, 1) <= Stored
  BY <1>1, CeilDivCovers
<1> QED
  BY <1>1, <1>2, <1>3 DEF Length

LEMMA SlicesInOrder ==
  ASSUME TypeOK, pool # "none"
  PROVE  /\ PoolLength \in Nat
         /\ \A w \in Ids :
              /\ First(w) \in Nat /\ Last(w) \in Nat
              /\ Last(w) <= PoolLength
         /\ \A v, w \in Ids : v < w => Last(v) <= First(w)
         /\ \A n \in 0 .. PoolLength - 1 :
              \E w \in Ids : n \in First(w) .. Last(w) - 1
<1> DEFINE L == PoolLength
           C == CeilDiv(L, Workers)
<1>1. L \in Nat /\ Workers \in Nat \ {0}
  BY StoredIsNatural, LengthIsNatural, VisualizerAssumption
     DEF PoolLength, TypeOK
<1> HIDE DEF L
<1>2. C \in Nat /\ L <= Workers * C
  BY <1>1, CeilDivCovers
<1> HIDE DEF C
<1>3. \A w \in Ids : w \in Nat /\ w + 1 <= Workers /\ C * w \in Nat /\ C * (w + 1) \in Nat
  BY <1>1, <1>2 DEF Ids
<1>4. \A w \in Ids :
        /\ First(w) = C * w
        /\ Last(w) = IF C * (w + 1) <= L THEN C * (w + 1) ELSE L
  <2> TAKE w \in Ids
  <2> DEFINE e == C * (w + 1)
  <2>1. e \in Nat
    BY <1>3
  <2>2. Last(w) = Min({e, L}) /\ First(w) = C * w
    BY DEF Last, First, C, L
  <2> HIDE DEF e
  <2>3. Min({e, L}) = IF e <= L THEN e ELSE L
    BY <1>1, <2>1 DEF Min
  <2> QED
    BY <2>2, <2>3 DEF e
<1>5. \A w \in Ids : First(w) \in Nat /\ Last(w) \in Nat /\ Last(w) <= L
  BY <1>1, <1>3, <1>4
<1>6. \A v, w \in Ids : v < w => C * (v + 1) <= C * w
  <2> TAKE v, w \in Ids
  <2> HAVE v < w
  <2>1. C * (w - v - 1) \in Nat
    <3>1. w - v - 1 \in Nat
      BY <1>3
    <3> QED
      BY <1>2, <3>1
  <2>2. C * w = C * (v + 1) + C * (w - v - 1)
    BY <1>2, <1>3
  <2> QED
    BY <1>3, <2>1, <2>2
<1>7. \A v, w \in Ids : v < w => Last(v) <= First(w)
  BY <1>1, <1>3, <1>4, <1>6
<1>8. ASSUME NEW n \in 0 .. L - 1
      PROVE  \E w \in Ids : n \in First(w) .. Last(w) - 1
  <2>1. C # 0
    BY <1>1, <1>2, <1>8
  <2> DEFINE q == n \div C
             r == n % C
  <2>2. q \in Nat /\ r \in 0 .. C - 1 /\ n = C * q + r
    <3>1. n \in Nat /\ C \in Nat \ {0}
      BY <1>1, <1>2, <2>1
    <3> QED
      BY <3>1, Division
  <2> HIDE DEF q, r
  <2>3. q \in Ids
    <3> SUFFICES ASSUME q >= Workers PROVE FALSE
      BY <1>1, <2>2 DEF Ids
    <3>1. C * q = Workers * C + C * (q - Workers) /\ C * (q - Workers) \in Nat
      <4>1. q - Workers \in Nat
        BY <1>1, <2>2
      <4> QED
        BY <1>1, <1>2, <2>2, <4>1
    <3>2. Workers * C \in Nat
      BY <1>1, <1>2
    <3> QED
      BY <1>1, <1>2, <2>2, <3>1, <3>2
  <2>4. C * (q + 1) = C * q + C /\ C * q \in Nat
    BY <1>2, <2>2
  <2>5. n \in First(q) .. Last(q) - 1
    BY <1>1, <1>2, <1>3, <1>4, <2>2, <2>3, <2>4
  <2> QED
    BY <2>3, <2>5
<1> QED
  BY <1>1, <1>5, <1>7, <1>8 DEF L

-----------------------------------------------------------------------------
(* Types and the pool                                                      *)

LEMMA TypeInit == Init => TypeOK
BY VisualizerAssumption DEF Init, TypeOK, None, Ids

LEMMA TypeStep == TypeOK /\ PoolInv /\ [Next]_vars => TypeOK'
<1> SUFFICES ASSUME TypeOK, PoolInv, [Next]_vars PROVE TypeOK'
  OBVIOUS
<1> USE DEF TypeOK
<1>0. /\ Workers \in Nat \ {0} /\ names \subseteq AllNames
      /\ job.type \in {"video", "image"}
  BY VisualizerAssumption, StoredIsNatural
<1>1. CASE StartStats
  BY <1>0, <1>1 DEF StartStats
<1>2. CASE EndOfFile
  BY <1>2 DEF EndOfFile
<1>3. CASE NoLength
  BY <1>3 DEF NoLength
<1>4. CASE NextBlock
  <2>1. frames' \in Seq(SUBSET AllNames)
    <3> DEFINE b == Window(Combines, Position)
    <3>1. b \in SUBSET AllNames /\ frames' = Append(frames, b)
      BY <1>0, <1>4 DEF NextBlock
    <3> HIDE DEF b
    <3> QED
      BY <3>1
  <2> QED
    BY <1>4, <2>1 DEF NextBlock, AfterBlock
<1>5. CASE GenerateImage
  BY <1>5 DEF GenerateImage
<1>6. CASE Spawn
  <2>1. started < Workers /\ started + 1 \in 0 .. Workers
    BY <1>0, <1>6 DEF Spawn, PoolInv
  <2>2. worker' \in [Ids -> {"new", "opening", "running", "put", "lost"}]
    BY <1>6 DEF Spawn
  <2> QED
    BY <1>6, <2>1, <2>2 DEF Spawn
<1>7. CASE Collect
  <2>1. received + 1 \in 0 .. Workers
    BY <1>0, <1>7 DEF Collect, PoolInv
  <2>2. PICK w \in queue :
               /\ queue' = queue \ {w}
               /\ total' = [n \in AllNames |-> total[n] + part[w][n]]
    BY <1>7 DEF Collect
  <2>3. total' \in [AllNames -> Nat]
    <3>1. part[w] \in [AllNames -> Nat]
      OBVIOUS
    <3> QED
      BY <2>2, <3>1
  <2>4. queue' \subseteq Ids
    BY <2>2
  <2>5. frames' \in Seq(SUBSET AllNames)
    <3> DEFINE b == {n \in AllNames : total'[n] > 0}
    <3>1. frames' = frames \/ frames' = Append(frames, b)
      BY <1>7 DEF Collect
    <3>2. b \in SUBSET AllNames
      OBVIOUS
    <3> HIDE DEF b
    <3>3. Append(frames, b) \in Seq(SUBSET AllNames)
      BY <3>2
    <3> QED
      BY <3>1, <3>3
  <2> QED
    BY <1>7, <2>1, <2>3, <2>4, <2>5 DEF Collect, AfterBlock
<1>12. CASE Animate
  BY <1>12 DEF Animate
<1>8. ASSUME NEW w \in Ids, Open(w) PROVE TypeOK'
  <2>1. pool # "none"
    BY <1>8 DEF Open, PoolInv, Ids
  <2>2. First(w) \in Nat
    BY <2>1, SlicesInOrder
  <2> QED
    BY <1>8, <2>2 DEF Open, Lose
<1>9. ASSUME NEW w \in Ids, Read(w) PROVE TypeOK'
  <2>1. part' \in [Ids -> [AllNames -> Nat]]
    <3>1. \A n \in AllNames :
            part[w][n] + (IF n \in Item(key[w]) THEN 1 ELSE 0) \in Nat
      OBVIOUS
    <3>2. [n \in AllNames |-> part[w][n] + (IF n \in Item(key[w]) THEN 1 ELSE 0)]
            \in [AllNames -> Nat]
      BY <3>1
    <3> QED
      BY <1>9, <3>2 DEF Read, Lose
  <2>2. key' \in [Ids -> Nat]
    <3>1. key' = [key EXCEPT ![w] = key[w] + 1] \/ key' = key
      BY <1>9 DEF Read, Lose
    <3>2. key \in [Ids -> Nat]
      OBVIOUS
    <3> HIDE DEF TypeOK
    <3> QED
      BY <3>1, <3>2
  <2> QED
    BY <1>9, <2>1, <2>2 DEF Read, Lose
<1>10. ASSUME NEW w \in Ids, Put(w) PROVE TypeOK'
  BY <1>10 DEF Put, Lose
<1>11. CASE UNCHANGED vars
  BY <1>11 DEF vars
<1> QED
  BY <1>1, <1>2, <1>3, <1>4, <1>5, <1>6, <1>7, <1>8, <1>9, <1>10, <1>11,
     <1>12 DEF Next, Parent, Worker

LEMMA PoolInit == Init => PoolInv
BY DEF Init, PoolInv

LEMMA PoolStep == TypeOK /\ PoolInv /\ [Next]_vars => PoolInv'
<1> SUFFICES ASSUME TypeOK, PoolInv, [Next]_vars PROVE PoolInv'
  OBVIOUS
<1> USE DEF PoolInv
<1>0. /\ Workers \in Nat \ {0} /\ job.type \in {"video", "image"}
      /\ job.stats \in BOOLEAN
      /\ started \in 0 .. Workers /\ received \in 0 .. Workers
      /\ \A w \in Ids : w \in Nat
      /\ worker \in [Ids -> {"new", "opening", "running", "put", "lost"}]
  BY VisualizerAssumption, StoredIsNatural DEF TypeOK, Ids
<1>1. CASE StartStats
  BY <1>0, <1>1 DEF StartStats
<1>2. CASE EndOfFile
  BY <1>2 DEF EndOfFile, Reading
<1>3. CASE NoLength
  BY <1>3 DEF NoLength, Reading
<1>4. CASE NextBlock
  BY <1>4 DEF NextBlock, Reading, AfterBlock
<1>5. CASE GenerateImage
  BY <1>0, <1>5 DEF GenerateImage, Reading
<1>6. CASE Spawn
  <2>1. \A w \in Ids : w >= started' => worker'[w] = "new"
    BY <1>0, <1>6 DEF Spawn
  <2> QED
    BY <1>0, <1>6, <2>1 DEF Spawn, TypeOK
<1>7. CASE Collect
  BY <1>0, <1>7 DEF Collect, AfterBlock
<1>10. CASE Animate
  BY <1>0, <1>10 DEF Animate
<1>8. ASSUME NEW w \in Ids, Worker(w) PROVE PoolInv'
  <2>1. worker[w] # "new" /\ UNCHANGED <<job, names, parentVars>>
    BY <1>8 DEF Worker, Open, Read, Put
  <2>2. \A v \in Ids : v # w => worker'[v] = worker[v]
    BY <1>0, <1>8 DEF Worker, Open, Read, Put, Lose
  <2>3. w < started
    BY <1>0, <2>1
  <2> QED
    BY <1>0, <2>1, <2>2, <2>3
<1>9. CASE UNCHANGED vars
  BY <1>9 DEF vars
<1> QED
  BY <1>1, <1>2, <1>3, <1>4, <1>5, <1>6, <1>7, <1>8, <1>9,
     <1>10 DEF Next, Parent

-----------------------------------------------------------------------------
(* What the workers count                                                  *)

LEMMA SlicesFixed ==
  ASSUME UNCHANGED <<job, names, pool>>
  PROVE  /\ PoolLength' = PoolLength /\ (Single' <=> Single)
         /\ \A w : First(w)' = First(w) /\ Last(w)' = Last(w)
BY DEF PoolLength, Single, First, Last, Length, Stored, CeilDiv

LEMMA SingleItem ==
  ASSUME Single, NEW k
  PROVE  Item(k) = {k}
<1>1. Window(1, k) = {k}
  BY DEF Window
<1> QED
  BY <1>1 DEF Single, Item

(* Before the pool is started there is no worker.                          *)
LEMMA NoWorkers ==
  ASSUME TypeOK, PoolInv, SliceInv, TotalInv, pool = "none"
  PROVE  /\ \A w \in Ids : worker[w] = "new" /\ w \notin queue /\ part[w] = None
         /\ Collected = {}
<1>1. \A w \in Ids : worker[w] = "new"
  BY DEF PoolInv, Ids
<1> QED
  BY <1>1 DEF SliceInv, Collected

LEMMA SliceInit == Init => SliceInv /\ TotalInv
<1> SUFFICES ASSUME Init PROVE SliceInv /\ TotalInv
  OBVIOUS
<1>1. Collected = {}
  BY DEF Init, Collected
<1>2. Cardinality({}) = 0
  BY FS_EmptySet
<1> QED
  BY <1>1, <1>2 DEF Init, SliceInv, TotalInv, Single

LEMMA SliceStep ==
  TypeOK /\ PoolInv /\ SliceInv /\ TotalInv /\ [Next]_vars => SliceInv'
<1> SUFFICES ASSUME TypeOK, PoolInv, SliceInv, TotalInv, [Next]_vars
             PROVE  SliceInv'
  OBVIOUS
<1>0. /\ worker \in [Ids -> {"new", "opening", "running", "put", "lost"}]
      /\ key \in [Ids -> Nat] /\ part \in [Ids -> [AllNames -> Nat]]
  BY DEF TypeOK
<1>1. CASE StartStats \/ GenerateImage
  <2>1. pool = "none" /\ UNCHANGED <<names, worker, key, part, queue>>
    BY <1>1 DEF StartStats, GenerateImage, Reading, PoolInv
  <2> QED
    BY <2>1, NoWorkers DEF SliceInv, None
<1>2. CASE EndOfFile \/ NoLength \/ NextBlock \/ Animate \/ UNCHANGED vars
  <2>1. UNCHANGED <<job, names, pool, worker, key, part, queue>>
    BY <1>2 DEF EndOfFile, NoLength, NextBlock, Animate, vars
  <2> QED
    BY <2>1, SlicesFixed DEF SliceInv, None
<1>3. CASE Spawn
  <2>1. /\ UNCHANGED <<job, names, pool, key, part, queue>>
        /\ worker' = [worker EXCEPT ![started] = "opening"]
        /\ started \in Ids /\ worker[started] = "new"
    BY <1>3, VisualizerAssumption DEF Spawn, PoolInv, TypeOK, Ids
  <2>2. \A w \in Ids : \/ worker'[w] = worker[w]
                       \/ worker[w] = "new" /\ worker'[w] = "opening"
    BY <1>0, <2>1
  <2> QED
    BY <2>1, <2>2, SlicesFixed DEF SliceInv, None
<1>4. CASE Collect
  <2>1. UNCHANGED <<job, names, pool, worker, key, part>> /\ queue' \subseteq queue
    BY <1>4 DEF Collect
  <2> QED
    BY <2>1, SlicesFixed DEF SliceInv, None
<1>5. ASSUME NEW w \in Ids, Worker(w) PROVE SliceInv'
  <2>0. /\ UNCHANGED <<job, names, pool>> /\ pool # "none"
        /\ worker[w] \in {"opening", "running"}
    BY <1>5 DEF Worker, Open, Read, Put, PoolInv, Ids
  <2>1. /\ First(w) \in Nat /\ Last(w) \in Nat
        /\ \A v : First(v)' = First(v) /\ Last(v)' = Last(v)
        /\ Single' <=> Single
    BY <2>0, SlicesInOrder, SlicesFixed
  <2> DEFINE Good(v) ==
        /\ worker'[v] \in {"new", "opening"} => part'[v] = None
        /\ worker'[v] = "put" => key'[v] >= Last(v)
        /\ v \in queue' => worker'[v] = "put"
        /\ Single /\ worker'[v] \in {"running", "put"} =>
             /\ key'[v] >= First(v)
             /\ key'[v] > First(v) => key'[v] <= Last(v)
             /\ First(v) .. key'[v] - 1 \subseteq names
             /\ \A n \in AllNames :
                  part'[v][n] = IF n \in First(v) .. key'[v] - 1 THEN 1 ELSE 0
  <2>2. ASSUME NEW v \in Ids, v # w PROVE Good(v)
    <3>1. /\ worker'[v] = worker[v] /\ key'[v] = key[v] /\ part'[v] = part[v]
          /\ v \in queue' => v \in queue
      BY <1>0, <1>5, <2>2 DEF Worker, Open, Read, Put, Lose
    <3> QED
      BY <3>1 DEF SliceInv
  <2>3. ASSUME Lose(w) PROVE Good(w)
    BY <1>0, <2>0, <2>3 DEF Lose, SliceInv
  <2>4. ASSUME Open(w), ~Lose(w) PROVE Good(w)
    <3>1. /\ worker' = [worker EXCEPT ![w] = "running"]
          /\ key' = [key EXCEPT ![w] = First(w)]
          /\ UNCHANGED <<part, queue>> /\ worker[w] = "opening"
      BY <2>4 DEF Open
    <3>2. /\ worker'[w] = "running" /\ key'[w] = First(w) /\ part'[w] = None
          /\ w \notin queue'
      BY <1>0, <3>1 DEF SliceInv
    <3> QED
      BY <2>1, <3>2 DEF None
  <2>5. ASSUME Read(w), ~Lose(w) PROVE Good(w)
    <3>1. /\ worker[w] = "running" /\ key[w] < Last(w)
          /\ Readable(key[w])
          /\ part' = [part EXCEPT ![w] =
                        [n \in AllNames |->
                           part[w][n] + (IF n \in Item(key[w]) THEN 1 ELSE 0)]]
          /\ key' = [key EXCEPT ![w] = key[w] + 1]
          /\ UNCHANGED <<worker, queue>>
      BY <2>5 DEF Read
    <3>2. /\ worker'[w] = "running" /\ key'[w] = key[w] + 1 /\ key[w] \in Nat
          /\ w \notin queue'
          /\ \A n \in AllNames :
               part'[w][n] = part[w][n] + (IF n \in Item(key[w]) THEN 1 ELSE 0)
      BY <1>0, <3>1 DEF SliceInv
    <3>3. ASSUME Single
          PROVE  /\ key[w] + 1 >= First(w) /\ key[w] + 1 <= Last(w)
                 /\ First(w) .. key[w] \subseteq names
                 /\ \A n \in AllNames :
                      part'[w][n] = IF n \in First(w) .. key[w] THEN 1 ELSE 0
      <4>1. Item(key[w]) = {key[w]}
        BY <3>3, SingleItem
      <4>2. key[w] \in names
        BY <3>1, <4>1 DEF Readable
      <4>3. /\ key[w] >= First(w) /\ First(w) .. key[w] - 1 \subseteq names
            /\ \A n \in AllNames :
                 part[w][n] = IF n \in First(w) .. key[w] - 1 THEN 1 ELSE 0
        BY <3>1, <3>3 DEF SliceInv
      <4>4. \A n : n \in First(w) .. key[w] <=> n \in First(w) .. key[w] - 1 \/ n = key[w]
        BY <2>1, <3>2, <4>3
      <4>5. key[w] \notin First(w) .. key[w] - 1
        BY <3>2
      <4>6. \A n \in AllNames :
              part'[w][n] = IF n \in First(w) .. key[w] THEN 1 ELSE 0
        BY <3>2, <4>1, <4>3, <4>4, <4>5
      <4> QED
        BY <2>1, <3>1, <3>2, <4>2, <4>3, <4>4, <4>6
    <3>4. key'[w] - 1 = key[w]
      BY <3>2
    <3> QED
      BY <3>2, <3>3, <3>4
  <2>6. ASSUME Put(w), ~Lose(w) PROVE Good(w)
    <3>1. /\ worker' = [worker EXCEPT ![w] = "put"]
          /\ UNCHANGED <<key, part>> /\ queue' = queue \cup {w}
          /\ worker[w] = "running" /\ key[w] >= Last(w)
      BY <2>6 DEF Put
    <3>2. worker'[w] = "put"
      BY <1>0, <3>1
    <3> QED
      BY <3>1, <3>2 DEF SliceInv
  <2>7. Good(w)
    <3>1. Lose(w) \/ ~Lose(w)
      OBVIOUS
    <3> HIDE DEF Good
    <3> QED
      BY <1>5, <2>3, <2>4, <2>5, <2>6 DEF Worker
  <2>8. \A v \in Ids : Good(v)
    <3> HIDE DEF Good
    <3> QED
      BY <2>2, <2>7
  <2> QED
    BY <2>0, <2>1, <2>8 DEF SliceInv, None
<1> QED
  BY <1>1, <1>2, <1>3, <1>4, <1>5 DEF Next, Parent

(* The result of a worker that has answered is its slice.                  *)
LEMMA PutIsSlice ==
  ASSUME TypeOK, SliceInv, Single, pool # "none", NEW w \in Ids, worker[w] = "put"
  PROVE  /\ First(w) .. Last(w) - 1 \subseteq names
         /\ \A n \in AllNames :
              part[w][n] = IF n \in First(w) .. Last(w) - 1 THEN 1 ELSE 0
<1>1. First(w) \in Nat /\ Last(w) \in Nat /\ key[w] \in Nat
  BY SlicesInOrder DEF TypeOK
<1>2. /\ key[w] >= First(w) /\ key[w] >= Last(w)
      /\ key[w] > First(w) => key[w] <= Last(w)
      /\ First(w) .. key[w] - 1 \subseteq names
      /\ \A n \in AllNames :
           part[w][n] = IF n \in First(w) .. key[w] - 1 THEN 1 ELSE 0
  BY DEF SliceInv
<1>3. First(w) .. key[w] - 1 = First(w) .. Last(w) - 1
  <2>1. CASE key[w] > First(w)
    BY <1>1, <1>2, <2>1
  <2>2. CASE key[w] = First(w)
    BY <1>1, <1>2, <2>2
  <2> QED
    BY <1>1, <1>2, <2>1, <2>2
<1> QED
  BY <1>2, <1>3

LEMMA CollectedIsFinite == IsFiniteSet(Ids) /\ Cardinality(Ids) = Workers
                           /\ Collected \subseteq Ids /\ IsFiniteSet(Collected)
<1>1. IsFiniteSet(Ids) /\ Cardinality(Ids) = Workers
  <2>1. /\ IsFiniteSet(0 .. Workers - 1)
        /\ Cardinality(0 .. Workers - 1) =
             IF 0 > Workers - 1 THEN 0 ELSE Workers - 1 - 0 + 1
    BY VisualizerAssumption, FS_Interval
  <2> QED
    BY <2>1, VisualizerAssumption DEF Ids
<1>2. Collected \in SUBSET Ids
  BY DEF Collected
<1> QED
  BY <1>1, <1>2, FS_Subset

LEMMA TotalStep ==
  TypeOK /\ PoolInv /\ SliceInv /\ TotalInv /\ [Next]_vars => TotalInv'
<1> SUFFICES ASSUME TypeOK, PoolInv, SliceInv, TotalInv, [Next]_vars
             PROVE  TotalInv'
  OBVIOUS
<1>0. worker \in [Ids -> {"new", "opening", "running", "put", "lost"}]
  BY DEF TypeOK
<1>1. CASE StartStats \/ GenerateImage
  <2>1. /\ pool = "none" /\ pool' # "none"
        /\ UNCHANGED <<worker, queue, total, received>>
    <3>1. pool' # "none"
      BY <1>1, StoredIsNatural DEF StartStats, GenerateImage
    <3> QED
      BY <1>1, <3>1 DEF StartStats, GenerateImage, Reading, PoolInv
  <2>2. Collected = {} /\ Collected' = {}
    BY <2>1, NoWorkers DEF Collected
  <2>3. total = None /\ received = Cardinality({})
    BY <2>1, <2>2 DEF TotalInv
  <2> QED
    BY <2>1, <2>2, <2>3 DEF TotalInv, None
<1>2. CASE UNCHANGED <<job, names, pool, received, total>> /\ Collected' = Collected
  <2>1. \A w : First(w)' = First(w) /\ Last(w)' = Last(w)
    BY <1>2, SlicesFixed
  <2>2. Single' <=> Single
    BY <1>2, SlicesFixed
  <2> QED
    BY <1>2, <2>1, <2>2 DEF TotalInv, None
<1>3. CASE EndOfFile \/ NoLength \/ NextBlock \/ Animate \/ UNCHANGED vars
  BY <1>2, <1>3 DEF EndOfFile, NoLength, NextBlock, Animate, vars, Collected
<1>4. CASE Spawn
  <2>1. /\ UNCHANGED <<job, names, pool, received, total, queue>>
        /\ worker' = [worker EXCEPT ![started] = "opening"]
        /\ started \in Ids /\ worker[started] = "new"
    BY <1>4, VisualizerAssumption DEF Spawn, PoolInv, TypeOK, Ids
  <2>2. \A w \in Ids : worker'[w] = "put" <=> worker[w] = "put"
    BY <1>0, <2>1
  <2> QED
    BY <1>2, <2>1, <2>2 DEF Collected
<1>5. CASE Collect
  <2>1. PICK w \in queue :
               /\ queue' = queue \ {w}
               /\ total' = [n \in AllNames |-> total[n] + part[w][n]]
    BY <1>5 DEF Collect
  <2>2. /\ UNCHANGED <<job, names, pool, worker>> /\ received' = received + 1
        /\ pool # "none"
    BY <1>5 DEF Collect, PoolInv
  <2>3. w \in Ids /\ worker[w] = "put" /\ w \notin Collected
    BY <2>1 DEF TypeOK, SliceInv, Collected
  <2>4. Collected' = Collected \cup {w}
    BY <2>1, <2>2, <2>3 DEF Collected
  <2>5. received' = Cardinality(Collected')
    BY <2>2, <2>3, <2>4, CollectedIsFinite, FS_AddElement DEF TotalInv
  <2>6. ASSUME Single, NEW n \in AllNames
        PROVE  total'[n] = IF \E v \in Collected' : n \in First(v) .. Last(v) - 1
                           THEN 1 ELSE 0
    <3>1. total'[n] = total[n] + part[w][n]
      BY <2>1
    <3>2. part[w][n] = IF n \in First(w) .. Last(w) - 1 THEN 1 ELSE 0
      BY <2>2, <2>3, <2>6, PutIsSlice
    <3>3. total[n] = IF \E v \in Collected : n \in First(v) .. Last(v) - 1
                     THEN 1 ELSE 0
      BY <2>6 DEF TotalInv
    <3>4. ASSUME NEW v \in Collected, n \in First(v) .. Last(v) - 1,
                 n \in First(w) .. Last(w) - 1
          PROVE  FALSE
      <4>1. /\ v \in Ids /\ v # w /\ v \in Nat /\ w \in Nat
            /\ First(v) \in Nat /\ Last(v) \in Nat
            /\ First(w) \in Nat /\ Last(w) \in Nat
        BY <2>2, <2>3, SlicesInOrder, VisualizerAssumption DEF Collected, Ids
      <4>2. v < w => Last(v) <= First(w)
        BY <2>2, <2>3, <4>1, SlicesInOrder
      <4>3. w < v => Last(w) <= First(v)
        BY <2>2, <2>3, <4>1, SlicesInOrder
      <4> QED
        BY <3>4, <4>1, <4>2, <4>3
    <3> QED
      BY <2>4, <3>1, <3>2, <3>3, <3>4
  <2>7. \A v : First(v)' = First(v) /\ Last(v)' = Last(v)
    BY <2>2, SlicesFixed
  <2>8. Single' <=> Single
    BY <2>2, SlicesFixed
  <2> QED
    BY <2>2, <2>5, <2>6, <2>7, <2>8 DEF TotalInv
<1>6. ASSUME NEW w \in Ids, Worker(w) PROVE TotalInv'
  <2>1. UNCHANGED <<job, names, pool, received, total>> /\ w \notin Collected
    BY <1>6 DEF Worker, Open, Read, Put, Collected
  <2>2. ~(worker'[w] = "put" /\ w \notin queue')
    BY <1>0, <1>6 DEF Worker, Open, Read, Put, Lose
  <2>3. \A v \in Ids : v # w => /\ worker'[v] = worker[v]
                                /\ v \in queue' <=> v \in queue
    BY <1>0, <1>6 DEF Worker, Open, Read, Put, Lose
  <2>4. Collected' = Collected
    BY <2>1, <2>2, <2>3 DEF Collected
  <2> QED
    BY <1>2, <2>1, <2>4
<1> QED
  BY <1>1, <1>3, <1>4, <1>5, <1>6 DEF Next, Parent

(* When all workers have answered, their slices are the file, and it has   *)
(* no gap.                                                                 *)
LEMMA AllAreCounted ==
  TypeOK /\ PoolInv /\ SliceInv /\ TotalInv => CountedOnce
<1> SUFFICES ASSUME TypeOK, PoolInv, SliceInv, TotalInv, received = Workers,
                    pool = "image" \/ job.combine = 1
             PROVE  total = [n \in AllNames |-> IF n \in names THEN 1 ELSE 0]
  BY DEF CountedOnce
<1>1. Single /\ pool # "none"
  BY VisualizerAssumption DEF PoolInv, TypeOK, Single
<1>2. Collected = Ids
  BY CollectedIsFinite, FS_Subset DEF TotalInv
<1>3. \A w \in Ids : First(w) .. Last(w) - 1 \subseteq names
  BY <1>1, <1>2, PutIsSlice DEF Collected
<1>4. PoolLength = Stored /\ Stored \in Nat /\ IsFiniteSet(names)
  <2>1. pool = "image" \/ Length(job.combine) = Stored
    BY <1>1, PlainLength DEF Single
  <2> QED
    BY <2>1, StoredIsNatural DEF PoolLength
<1>5. 0 .. Stored - 1 \subseteq names
  BY <1>1, <1>3, <1>4, SlicesInOrder
<1>6. names = 0 .. Stored - 1
  <2>1. Cardinality(0 .. Stored - 1) = IF 0 > Stored - 1 THEN 0 ELSE Stored - 1 - 0 + 1
    BY <1>4, FS_Interval
  <2>2. Cardinality(0 .. Stored - 1) = Cardinality(names)
    BY <1>4, <2>1 DEF Stored
  <2> QED
    BY <1>4, <1>5, <2>2, FS_Subset
<1>7. \A n \in AllNames : n \in names <=> \E w \in Ids : n \in First(w) .. Last(w) - 1
  BY <1>1, <1>3, <1>4, <1>6, SlicesInOrder
<1>8. \A n \in AllNames : total[n] = IF n \in names THEN 1 ELSE 0
  BY <1>1, <1>2, <1>7 DEF TotalInv
<1> QED
  BY <1>8 DEF TypeOK

-----------------------------------------------------------------------------
(* What the parent reads                                                   *)

LEMMA StreamInit == Init => StreamInv /\ BlockInv
<1> SUFFICES ASSUME Init PROVE StreamInv /\ BlockInv
  OBVIOUS
<1>1. Len(<<>>) = 0
  OBVIOUS
<1>2. StreamInv
  <2> SUFFICES ASSUME Streams
               PROVE  job.combine > 1 => 0 <= Length(job.combine) + 1
    BY <1>1 DEF Init, StreamInv
  <2>1. TypeOK
    BY TypeInit
  <2> QED
    BY <2>1, StoredIsNatural, LengthIsNatural
<1> QED
  BY <1>2 DEF Init, BlockInv

LEMMA StreamStep ==
  TypeOK /\ PoolInv /\ StreamInv /\ [Next]_vars => StreamInv'
<1> SUFFICES ASSUME TypeOK, PoolInv, StreamInv, [Next]_vars, Streams'
             PROVE  StreamInv'
  BY DEF StreamInv
<1>0. /\ job' = job /\ names' = names /\ Stored' = Stored
      /\ \A c : Length(c)' = Length(c)
      /\ \A c, k : Window(c, k)' = Window(c, k)
      /\ Streams
  <2>1. UNCHANGED <<job, names>>
    BY DEF Next, Parent, Worker, StartStats, EndOfFile, NoLength, NextBlock,
           GenerateImage, Spawn, Collect, Animate, Open, Read, Put, vars
  <2>2. Stored' = Stored
    BY <2>1 DEF Stored
  <2>3. \A c : Length(c)' = Length(c)
    BY <2>2 DEF Length, CeilDiv
  <2> QED
    BY <2>1, <2>2, <2>3 DEF Window, Streams
<1>1. /\ pc \in {"start", "animate", "play", "done", "error"} /\ ~job.stats
      /\ job.type = "video" /\ Combines = job.combine /\ job.combine \in Nat \ {0}
      /\ frames \in Seq(SUBSET AllNames) /\ Len(frames) \in Nat
      /\ Length(job.combine) \in Nat
  BY <1>0, StoredIsNatural, LengthIsNatural
     DEF Streams, StreamInv, Combines, TypeOK
<1>2. pc = "start" => Len(frames) = 0
  <2>1. Len(<<>>) = 0
    OBVIOUS
  <2> QED
    BY <2>1 DEF PoolInv
<1>3. CASE UNCHANGED <<pc, frames, closed>>
  BY <1>0, <1>3 DEF StreamInv
<1>4. CASE EndOfFile
  <2>1. /\ frames' = frames /\ closed' = closed
        /\ pc' = IF pc = "start" THEN "error" ELSE "done"
        /\ \/ job.combine > 1 /\ Length(job.combine) < Len(frames)
           \/ ~(Window(job.combine, Len(frames)) \subseteq names)
        /\ pc \in {"start", "play"}
    BY <1>1, <1>4 DEF EndOfFile, Position, Reading
  <2> QED
    BY <1>0, <1>1, <1>2, <2>1 DEF StreamInv
<1>5. CASE NoLength
  BY <1>1, <1>5 DEF NoLength
<1>6. CASE NextBlock
  <2> DEFINE b == Window(job.combine, Len(frames))
  <2>1. /\ frames' = Append(frames, b) /\ closed' = closed
        /\ pc' \in {"animate", "play"}
        /\ job.combine = 1 \/ Len(frames) <= Length(job.combine)
        /\ b \subseteq names
    BY <1>1, <1>6 DEF NextBlock, Position, AfterBlock
  <2>2. b \in SUBSET AllNames
    BY <2>1, VisualizerAssumption DEF TypeOK
  <2> HIDE DEF b
  <2>3. /\ Len(frames') = Len(frames) + 1
        /\ \A f \in 1 .. Len(frames) : frames'[f] = frames[f]
        /\ frames'[Len(frames) + 1] = b
    BY <1>1, <2>1, <2>2
  <2>4. \A f \in 1 .. Len(frames') :
          frames'[f] = Window(job.combine, f - 1) /\ frames'[f] \subseteq names
    <3> TAKE f \in 1 .. Len(frames')
    <3>1. CASE f \in 1 .. Len(frames)
      BY <1>0, <2>3, <3>1 DEF StreamInv
    <3>2. CASE f = Len(frames) + 1
      BY <1>1, <2>1, <2>3, <3>2 DEF b
    <3> QED
      BY <1>1, <2>3, <3>1, <3>2
  <2> QED
    BY <1>0, <1>1, <2>1, <2>3, <2>4 DEF StreamInv
<1>7. CASE StartStats \/ GenerateImage \/ Spawn \/ Collect
  BY <1>0, <1>1, <1>7
     DEF StartStats, GenerateImage, Spawn, Collect, Streams
<1>8. CASE Animate
  <2>1. ~closed
    BY <1>0 DEF StreamInv
  <2>2. pc = "animate" /\ pc' = "play" /\ UNCHANGED <<frames, closed>>
    BY <1>8, <2>1 DEF Animate
  <2> QED
    BY <1>0, <1>1, <2>1, <2>2 DEF StreamInv
<1> QED
  BY <1>3, <1>4, <1>5, <1>6, <1>7, <1>8
     DEF Next, Parent, Worker, Open, Read, Put, vars

LEMMA BlockStep ==
  /\ TypeOK /\ PoolInv /\ SliceInv /\ TotalInv /\ BlockInv /\ [Next]_vars
  /\ CountedOnce'
  => BlockInv'
<1> SUFFICES ASSUME TypeOK, PoolInv, SliceInv, TotalInv, BlockInv, [Next]_vars,
                    CountedOnce', OnlyBlock'
             PROVE  BlockInv'
  BY DEF BlockInv
<1>0. /\ job' = job /\ names' = names /\ OnlyBlock
  <2>1. UNCHANGED <<job, names>>
    BY DEF Next, Parent, Worker, StartStats, EndOfFile, NoLength, NextBlock,
           GenerateImage, Spawn, Collect, Animate, Open, Read, Put, vars
  <2>2. Length(job.combine)' = Length(job.combine)
    BY <2>1 DEF Length, CeilDiv, Stored
  <2> QED
    BY <2>1, <2>2 DEF OnlyBlock, OneBlock
<1>1. /\ ~job.stats /\ job.type = "video" /\ Combines = job.combine
      /\ job.combine \in Nat \ {0} /\ job.combine > 1
      /\ Length(Combines) = 1 /\ Length(Combines)' = 1
      /\ names \subseteq AllNames
  BY <1>0, StoredIsNatural, VisualizerAssumption
     DEF OnlyBlock, OneBlock, Combines, TypeOK
<1>2. Len(<<>>) = 0
  OBVIOUS
<1>3. CASE UNCHANGED <<pc, frames, closed, pool>>
  BY <1>0, <1>3 DEF BlockInv
<1>4. CASE StartStats \/ NextBlock
  BY <1>1, <1>4 DEF StartStats, NextBlock
<1>5. CASE EndOfFile
  <2>1. pc = "start" /\ frames = <<>>
    BY <1>0, <1>5 DEF EndOfFile, Reading, BlockInv
  <2> QED
    BY <1>1, <1>2, <1>5, <2>1 DEF EndOfFile, Position
<1>6. CASE NoLength
  BY <1>1, <1>6 DEF NoLength
<1>7. CASE GenerateImage
  <2>1. pc = "start" /\ frames = <<>>
    BY <1>0, <1>7 DEF GenerateImage, Reading, BlockInv
  <2> QED
    BY <1>7, <2>1 DEF GenerateImage, BlockInv
<1>8. CASE Spawn
  BY <1>0, <1>8 DEF Spawn, BlockInv
<1>9. CASE Collect
  <2>1. closed /\ pool = "image" /\ frames = <<>>
    BY <1>0, <1>9 DEF Collect, BlockInv
  <2>2. CASE received + 1 < Workers
    BY <1>3, <1>9, <2>2 DEF Collect
  <2>3. CASE ~(received + 1 < Workers)
    <3>1. received' = Workers
      BY <1>9, <2>3, VisualizerAssumption DEF Collect, TypeOK, PoolInv
    <3>2. total' = [n \in AllNames |-> IF n \in names THEN 1 ELSE 0]
      <4>1. received' = Workers /\ pool' = "image"
        BY <1>9, <2>1, <3>1 DEF Collect
      <4>2. (total = [n \in AllNames |-> IF n \in names THEN 1 ELSE 0])'
        BY <4>1 DEF CountedOnce
      <4> QED
        BY <1>0, <4>2 DEF AllNames
    <3>3. {n \in AllNames : total'[n] > 0} = names
      BY <1>1, <3>2
    <3>4. frames' = <<names>> /\ pc' = "animate"
      <4>1. /\ frames' = Append(frames, {n \in AllNames : total'[n] > 0})
            /\ pc' = "animate"
        BY <1>1, <1>9, <2>3 DEF Collect, AfterBlock
      <4>2. Append(<<>>, names) = <<names>>
        OBVIOUS
      <4> QED
        BY <2>1, <3>3, <4>1, <4>2
    <3> QED
      BY <1>0, <1>9, <2>1, <3>4 DEF Collect, BlockInv
  <2> QED
    BY <2>2, <2>3
<1>10. CASE Animate
  <2>1. closed /\ pool = "image" /\ frames = <<names>>
    BY <1>0, <1>10 DEF Animate, BlockInv
  <2> QED
    BY <1>0, <1>10, <2>1 DEF Animate, BlockInv
<1> QED
  BY <1>3, <1>4, <1>5, <1>6, <1>7, <1>8, <1>9, <1>10
     DEF Next, Parent, Worker, Open, Read, Put, vars

-----------------------------------------------------------------------------
(* The theorems                                                            *)

LEMMA InvInit == Init => Inv
BY TypeInit, PoolInit, SliceInit, StreamInit DEF Inv

LEMMA InvStep == Inv /\ [Next]_vars => Inv'
<1> SUFFICES ASSUME Inv, [Next]_vars PROVE Inv'
  OBVIOUS
<1>1. TypeOK' /\ PoolInv' /\ SliceInv' /\ TotalInv' /\ StreamInv'
  BY TypeStep, PoolStep, SliceStep, TotalStep, StreamStep DEF Inv
<1>2. TypeOK' /\ PoolInv' /\ SliceInv' /\ TotalInv' => CountedOnce'
  BY AllAreCounted, PTL
<1> QED
  BY <1>1, <1>2, BlockStep DEF Inv

(* The parent never takes more results than there are workers, and what it *)
(* combines are numbers of data sets.                                      *)
THEOREM TypeCorrect == Spec => []TypeOK
BY InvInit, InvStep, PTL DEF Spec, Inv

(* However the workers interleave and in whatever order their results      *)
(* arrive, once all have been taken every data set of the file has been    *)
(* added up exactly once.                                                  *)
THEOREM AllCountedOnce == Spec => []CountedOnce
<1>1. Inv => CountedOnce
  BY AllAreCounted DEF Inv
<1> QED
  BY <1>1, InvInit, InvStep, PTL DEF Spec

(* An uncombined video reads data set after data set up to the first name  *)
(* that is missing, for every file.                                        *)
THEOREM VideoInOrder == Spec => []PlayedInOrder
<1>1. Inv => PlayedInOrder
  <2> SUFFICES ASSUME Inv, ~job.stats, job.type = "video", job.combine = 1
               PROVE  /\ \A f \in 1 .. Len(frames) : frames[f] = {f - 1}
                      /\ pc = "done" => /\ Len(frames) \notin names
                                        /\ 0 .. Len(frames) - 1 \subseteq names
    BY DEF PlayedInOrder
  <2>1. \A k : Window(1, k) = {k}
    BY DEF Window
  <2>2. Len(frames) \in Nat
    BY DEF Inv, TypeOK
  <2>3. \A f \in 1 .. Len(frames) : frames[f] = {f - 1} /\ f - 1 \in names
    BY <2>1 DEF Inv, StreamInv, Streams
  <2>4. pc = "done" => Len(frames) \notin names
    BY <2>1 DEF Inv, StreamInv, Streams
  <2>5. ASSUME NEW n \in 0 .. Len(frames) - 1 PROVE n \in names
    <3>1. n + 1 \in 1 .. Len(frames) /\ (n + 1) - 1 = n
      BY <2>2
    <3> QED
      BY <2>3, <3>1
  <2> QED
    BY <2>3, <2>4, <2>5
<1> QED
  BY <1>1, InvInit, InvStep, PTL DEF Spec

LEMMA WindowIs ==
  ASSUME NEW c \in Nat, c > 1, Length(c) # 1, NEW k
  PROVE  Window(c, k) =
           k .. k + (IF Length(c) = k /\ Stored % c # 0 THEN Stored % c ELSE c) - 1
BY DEF Window

(* A combined video of a file without gaps slides over it one data set at  *)
(* a time, and reads at least as many of them as there are blocks.         *)
THEOREM VideoSlides == Spec => []SlidingVideo
<1>1. Inv => SlidingVideo
  <2> DEFINE c == job.combine
             L == Length(c)
             N == Len(frames)
  <2> SUFFICES ASSUME Inv, ~job.stats, job.type = "video", c > 1,
                      Contiguous, L > 1
               PROVE  /\ \A f \in 1 .. N :
                           \/ frames[f] = f - 1 .. f - 2 + c
                           \/ f = N /\ frames[f] = f - 1 .. f - 2 + (Stored % c)
                      /\ pc = "done" =>
                           \A n \in 0 .. L - 1 :
                             \E f \in 1 .. N : n \in frames[f]
    BY DEF SlidingVideo
  <2>1. /\ c \in Nat \ {0} /\ Stored \in Nat /\ L \in Nat /\ L <= Stored
        /\ N \in Nat /\ Stored % c \in Nat
    <3>1. c \in Nat \ {0} /\ Stored \in Nat /\ N \in Nat
      BY StoredIsNatural DEF Inv, TypeOK
    <3>2. L \in Nat /\ L <= Stored
      BY <3>1, LengthIsNatural DEF Inv
    <3> HIDE DEF c, L, N
    <3>3. Stored % c \in Nat
      BY <3>1, Division
    <3> QED
      BY <3>1, <3>2, <3>3
  <2>2. /\ \A f \in 1 .. N : frames[f] = Window(c, f - 1)
        /\ N <= L + 1
        /\ pc = "done" => /\ N >= 1
                          /\ L < N \/ ~(Window(c, N) \subseteq 0 .. Stored - 1)
    BY <2>1 DEF Inv, StreamInv, Streams, Contiguous
  <2>3. \A k : Window(c, k) =
          k .. k + (IF L = k /\ Stored % c # 0 THEN Stored % c ELSE c) - 1
    BY <2>1, WindowIs
  <2> HIDE DEF c, L, N
  <2>4. ASSUME NEW f \in 1 .. N
        PROVE  \/ frames[f] = f - 1 .. f - 2 + c
               \/ f = N /\ frames[f] = f - 1 .. f - 2 + (Stored % c)
    <3>1. CASE L = f - 1 /\ Stored % c # 0
      <4>1. frames[f] = f - 1 .. f - 1 + (Stored % c) - 1
        BY <2>2, <2>3, <3>1
      <4>2. f - 1 + (Stored % c) - 1 = f - 2 + (Stored % c) /\ f = N
        BY <2>1, <2>2, <3>1
      <4> QED
        BY <4>1, <4>2
    <3>2. CASE ~(L = f - 1 /\ Stored % c # 0)
      <4>1. frames[f] = f - 1 .. f - 1 + c - 1
        BY <2>2, <2>3, <3>2
      <4>2. f - 1 + c - 1 = f - 2 + c
        BY <2>1
      <4> QED
        BY <4>1, <4>2
    <3> QED
      BY <3>1, <3>2
  <2>5. ASSUME pc = "done", NEW n \in 0 .. L - 1
        PROVE  \E f \in 1 .. N : n \in frames[f]
    <3>1. \A k \in 0 .. L - 1 : Window(c, k) = k .. k + c - 1
      BY <2>1, <2>3
    <3>2. CASE n < N
      <4>1. n + 1 \in 1 .. N /\ (n + 1) - 1 = n
        BY <2>1, <3>2
      <4>2. frames[n + 1] = n .. n + c - 1
        BY <2>2, <3>1, <4>1
      <4>3. n \in frames[n + 1]
        BY <2>1, <4>2
      <4> QED
        BY <4>1, <4>3
    <3>3. CASE n >= N
      <4>1. N \in 0 .. L - 1 /\ N - 1 \in 0 .. L - 1 /\ N \in 1 .. N
        BY <2>1, <2>2, <2>5, <3>3
      <4>2. ~(N .. N + c - 1 \subseteq 0 .. Stored - 1)
        BY <2>1, <2>2, <2>5, <3>1, <4>1
      <4>3. N + c - 1 > Stored - 1
        BY <2>1, <4>2
      <4>4. frames[N] = N - 1 .. N - 1 + c - 1
        BY <2>2, <3>1, <4>1
      <4>5. n \in frames[N]
        BY <2>1, <3>3, <4>3, <4>4
      <4> QED
        BY <4>1, <4>5
    <3> QED
      BY <2>1, <3>2, <3>3
  <2> QED
    BY <2>4, <2>5
<1> QED
  BY <1>1, InvInit, InvStep, PTL DEF Spec

(* A video of a file without gaps is played, unless its data sets all fit  *)
(* into one block: it is computed, and the video fails before it is played.*)
THEOREM OneBlockFails == Spec => []OneBlockIsNotPlayed
<1>1. Inv => OneBlockIsNotPlayed
  <2> DEFINE c == job.combine
  <2> SUFFICES ASSUME Inv, ~job.stats, job.type = "video",
                      Contiguous, names # {}
               PROVE  /\ pc = "error" => OneBlock /\ frames = <<names>>
                      /\ pc \in {"play", "done"} => ~OneBlock
    BY DEF OneBlockIsNotPlayed
  <2>1. /\ c \in Nat \ {0} /\ Stored \in Nat /\ Length(c) \in Nat
        /\ Stored <= c * Length(c) /\ c * Length(c) < Stored + c
    <3>1. c \in Nat \ {0} /\ Stored \in Nat
      BY StoredIsNatural DEF Inv
    <3> QED
      BY <3>1, LengthIsNatural, CeilDivCovers DEF Inv, Length
  <2>2. Stored >= 1 /\ names = 0 .. Stored - 1
    BY <2>1 DEF Contiguous
  <2>3. ASSUME pc = "error" PROVE OnlyBlock
    <3> SUFFICES ASSUME ~OnlyBlock PROVE FALSE
      OBVIOUS
    <3>1. CASE c = 1
      <4>1. Window(c, 0) = {0}
        BY <3>1 DEF Window
      <4>2. Window(c, 0) \subseteq names
        BY <2>1, <2>2, <4>1
      <4> QED
        BY <2>3, <3>1, <4>2 DEF Inv, StreamInv, Streams
    <3>2. CASE c > 1 /\ Length(c) # 1
      <4> DEFINE L == Length(c)
      <4>0. L \in Nat /\ L # 1 /\ Stored <= c * L /\ c * L < Stored + c
        BY <2>1, <3>2
      <4>1. Window(c, 0) =
              0 .. 0 + (IF L = 0 /\ Stored % c # 0 THEN Stored % c ELSE c) - 1
        BY <2>1, <3>2, WindowIs
      <4>2. ~(Window(c, 0) \subseteq names)
        BY <2>3, <3>2 DEF Inv, StreamInv, Streams
      <4> HIDE DEF L, c
      <4>3. L # 0
        <5>1. L = 0 => c * L = 0
          BY <2>1
        <5> QED
          BY <2>1, <2>2, <4>0, <5>1
      <4>4. c * L = c + c + c * (L - 2) /\ c * (L - 2) \in Nat
        <5>1. L - 2 \in Nat
          BY <4>0, <4>3
        <5> QED
          BY <2>1, <4>0, <5>1
      <4>5. c < Stored
        BY <2>1, <4>0, <4>4
      <4>6. Window(c, 0) = 0 .. c - 1
        BY <2>1, <4>1, <4>3
      <4> QED
        BY <2>1, <2>2, <4>2, <4>5, <4>6
    <3> QED
      BY <2>1, <3>1, <3>2 DEF OnlyBlock, OneBlock
  <2>4. CASE OnlyBlock
    BY <2>4 DEF Inv, BlockInv, OnlyBlock
  <2> QED
    BY <2>3, <2>4 DEF OnlyBlock
<1> QED
  BY <1>1, InvInit, InvStep, PTL DEF Spec
=============================================================================
