----------------------------- MODULE Visualizer -----------------------------
(***************************************************************************)
(* src/tools/visualize.py: the MeasureData reader, the pools of worker     *)
(* processes that generate_image and print_min_max_mean start, and the     *)
(* parent that waits for one result per worker.  A matrix is abstracted to *)
(* the data sets that were added up in it.                                 *)
(*                                                                         *)
(* The HDF5 file is the one the profiler wrote: data sets named by numbers *)
(* (Profiler, ContiguousFile), with gaps when a write failed.  The queue   *)
(* delivers the results of different workers in any order.  A worker that  *)
(* raises an exception is lost: it puts nothing, and nobody tells the      *)
(* parent.                                                                 *)
(***************************************************************************)
EXTENDS Naturals, Sequences, FiniteSets, FiniteSetsExt

CONSTANTS
  Workers,   (* cpu_count()                                                *)
  MaxName,   (* bound: data sets are named 0 .. MaxName                    *)
  Files,     (* the sets of names a file may hold                          *)
  Jobs       (* the command lines considered                               *)

AllNames == 0 .. MaxName

(* --stats, --type, --graph and --combine.                                 *)
Job == [stats : BOOLEAN, type : {"video", "image"},
        graph : {"bar_chart", "heatmap"}, combine : Nat \ {0}]

ASSUME VisualizerAssumption ==
  /\ Workers \in Nat \ {0} /\ MaxName \in Nat
  /\ Files \subseteq SUBSET AllNames
  /\ Jobs \subseteq Job

Ids == 0 .. Workers - 1

VARIABLES
  job,       (* the command line                                           *)
  names,     (* the data sets in the file                                  *)
  pc,        (* what the parent is doing                                   *)
  pool,      (* the function its workers run                               *)
  started,   (* workers started so far                                     *)
  received,  (* results taken from the queue so far                        *)
  worker,    (* the state of each worker                                   *)
  key,       (* the position each worker reads next                        *)
  part,      (* how often each data set is in the result of a worker       *)
  queue,     (* the workers whose result is in the queue                   *)
  total,     (* how often each data set is in the combined result          *)
  frames,    (* the data sets added up in each block the parent has read   *)
  closed     (* the parent has closed its file                             *)

parentVars == <<pc, pool, started, received, total, frames, closed>>
workerVars == <<worker, key, part>>

vars == <<job, names, parentVars, workerVars, queue>>

None == [n \in AllNames |-> 0]

TypeOK ==
  /\ job \in Jobs /\ names \in Files
  /\ pc \in {"start", "spawn", "collect", "animate", "play", "done", "error"}
  /\ pool \in {"none", "image", "video"}
  /\ started \in 0 .. Workers /\ received \in 0 .. Workers
  /\ worker \in [Ids -> {"new", "opening", "running", "put", "lost"}]
  /\ key \in [Ids -> Nat]
  /\ part \in [Ids -> [AllNames -> Nat]]
  /\ queue \subseteq Ids
  /\ total \in [AllNames -> Nat]
  /\ frames \in Seq(SUBSET AllNames)
  /\ closed \in BOOLEAN

-----------------------------------------------------------------------------
(* MeasureData                                                             *)

(* ceil(a / b)                                                             *)
CeilDiv(a, b) == (a + b - 1) \div b

Stored == Cardinality(names)

(* __len__ of a reader that combines c data sets.                          *)
Length(c) == CeilDiv(Stored, c)

(* Mutant of Window: one data set too many.                                *)
WindowOneMore(c, k) ==
  CASE c = 1 -> {k}
    [] c > 1 /\ Length(c) = 1 -> 0 .. Stored - 1
    [] OTHER -> k .. k + (IF Length(c) = k /\ Stored % c # 0
                          THEN Stored % c ELSE c)

(* The data sets __getitem__ adds up for position k: the window slides by  *)
(* one data set per position.  A reader of length one hands the whole file *)
(* to generate_image.                                                      *)
Window(c, k) ==
  CASE c = 1 -> {k}
    [] c > 1 /\ Length(c) = 1 -> 0 .. Stored - 1
    [] OTHER -> k .. k + (IF Length(c) = k /\ Stored % c # 0
                          THEN Stored % c ELSE c) - 1

(* More than one block is added up into a list, which has no flatten().    *)
Flattens(c) == c = 1 \/ Length(c) = 1

(* The combines of the parent's reader: all data sets for an image.        *)
Combines == IF job.type = "image" THEN Stored ELSE job.combine

-----------------------------------------------------------------------------
(* The slice of a worker                                                   *)

(* len(measurement) in image_worker and in video_worker.                   *)
PoolLength == IF pool = "image" THEN Stored ELSE Length(job.combine)

First(w) == CeilDiv(PoolLength, Workers) * w

(* Mutant of Last: the end of a slice is part of it.                       *)
LastInclusive(w) ==
  Min({CeilDiv(PoolLength, Workers) * (w + 1) + 1, PoolLength})

(* Mutant of Last: the end of the last slice is not cut off.               *)
LastUncut(w) == CeilDiv(PoolLength, Workers) * (w + 1)

Last(w) == Min({CeilDiv(PoolLength, Workers) * (w + 1), PoolLength})

-----------------------------------------------------------------------------
(* The parent                                                              *)

Init ==
  /\ job \in Jobs /\ names \in Files
  /\ pc = "start" /\ pool = "none"
  /\ started = 0 /\ received = 0
  /\ worker = [w \in Ids |-> "new"]
  /\ key = [w \in Ids |-> 0]
  /\ part = [w \in Ids |-> None]
  /\ queue = {}
  /\ total = None /\ frames = <<>> /\ closed = FALSE

(* print_min_max_mean.                                                     *)
StartStats ==
  /\ pc = "start" /\ job.stats
  /\ pool' = job.type /\ pc' = "spawn"
  /\ UNCHANGED <<job, names, started, received, total, frames, closed,
                 workerVars, queue>>

(* An image needs one block; after the first one a video sets up its       *)
(* animation, which reads on until the reader ends.                        *)
AfterBlock ==
  IF job.type = "image" THEN "done"
  ELSE IF pc = "play" THEN "play" ELSE "animate"

(* Mutant of Position: the counter is used after it was advanced.          *)
PositionAdvanced == Len(frames) + 1

(* self.iteration - 1 in __next__.                                         *)
Position == Len(frames)

Reading == (pc = "start" /\ ~job.stats) \/ pc = "play"

(* __next__ raises StopIteration for a missing data set and for a position *)
(* beyond the length.  The first block is read outside of an iteration.    *)
EndOfFile ==
  /\ Reading /\ Combines # 0
  /\ \/ Combines > 1 /\ Length(Combines) < Position
     \/ /\ Combines = 1 \/ Length(Combines) # 1
        /\ ~(Window(Combines, Position) \subseteq names)
  /\ pc' = IF pc = "start" THEN "error" ELSE "done"
  /\ UNCHANGED <<job, names, pool, started, received, total, frames, closed,
                 workerVars, queue>>

(* All data sets of an empty file are none: the length is divided by that. *)
NoLength ==
  /\ Reading /\ Combines = 0
  /\ pc' = "error"
  /\ UNCHANGED <<job, names, pool, started, received, total, frames, closed,
                 workerVars, queue>>

NextBlock ==
  /\ Reading /\ Combines # 0
  /\ Combines = 1 \/ (Length(Combines) # 1 /\ Position <= Length(Combines))
  /\ Window(Combines, Position) \subseteq names
  /\ frames' = Append(frames, Window(Combines, Position))
  /\ pc' = AfterBlock
  /\ UNCHANGED <<job, names, pool, started, received, total, closed,
                 workerVars, queue>>

(* generic_video: FuncAnimation asks the reader for its length before any  *)
(* frame is shown or saved, and a closed file has none.                    *)
Animate ==
  /\ pc = "animate"
  /\ pc' = IF closed THEN "error" ELSE "play"
  /\ UNCHANGED <<job, names, pool, started, received, total, frames, closed,
                 workerVars, queue>>

(* Mutant of GenerateImage: the parent keeps its file open.                *)
GenerateImageOpen ==
  /\ Reading /\ Combines > 1
  /\ Length(Combines) = 1 /\ Position <= 1
  /\ pool' = "image" /\ pc' = "spawn"
  /\ UNCHANGED <<job, names, started, received, total, frames, closed,
                 workerVars, queue>>

(* The only block is computed by generate_image, after closing the file.   *)
GenerateImage ==
  /\ Reading /\ Combines > 1
  /\ Length(Combines) = 1 /\ Position <= 1
  /\ closed' = TRUE
  /\ pool' = "image" /\ pc' = "spawn"
  /\ UNCHANGED <<job, names, started, received, total, frames, workerVars,
                 queue>>

(* Mutant of Spawn: one process too many.                                  *)
SpawnOneMore ==
  /\ pc = "spawn"
  /\ worker' = [worker EXCEPT ![started] = "opening"]
  /\ started' = started + 1
  /\ pc' = IF started = Workers THEN "collect" ELSE pc
  /\ UNCHANGED <<job, names, pool, received, total, frames, closed, key,
                 part, queue>>

Spawn ==
  /\ pc = "spawn"
  /\ worker' = [worker EXCEPT ![started] = "opening"]
  /\ started' = started + 1
  /\ pc' = IF started + 1 = Workers THEN "collect" ELSE pc
  /\ UNCHANGED <<job, names, pool, received, total, frames, closed, key,
                 part, queue>>

(* queue.get(), once per worker.                                           *)
Collect ==
  /\ pc = "collect"
  /\ \E w \in queue :
       /\ queue' = queue \ {w}
       /\ total' = [n \in AllNames |-> total[n] + part[w][n]]
  /\ received' = received + 1
  /\ IF received + 1 < Workers
     THEN UNCHANGED <<pc, frames>>
     ELSE IF job.stats
          THEN pc' = "done" /\ UNCHANGED frames
          ELSE /\ pc' = AfterBlock
               /\ frames' = Append(frames, {n \in AllNames : total'[n] > 0})
  /\ UNCHANGED <<job, names, pool, started, closed, workerVars>>

-----------------------------------------------------------------------------
(* image_worker and video_worker                                           *)

Lose(w) ==
  worker' = [worker EXCEPT ![w] = "lost"] /\ UNCHANGED <<key, part, queue>>

(* image_worker looks at the first data set for the shape of the result.   *)
Open(w) ==
  /\ worker[w] = "opening"
  /\ IF pool = "image" /\ 0 \notin names
     THEN Lose(w)
     ELSE /\ worker' = [worker EXCEPT ![w] = "running"]
          /\ key' = [key EXCEPT ![w] = First(w)]
          /\ UNCHANGED <<part, queue>>
  /\ UNCHANGED <<job, names, parentVars>>

(* What measurement[i] adds up for a worker.                               *)
Item(k) == Window(IF pool = "image" THEN 1 ELSE job.combine, k)

(* It raises an exception when a data set is missing, and in video_worker  *)
(* when a heatmap row cannot be flattened.  A video_worker whose reader has*)
(* length one runs a pool of its own, and is as good as lost when that one *)
(* never answers.                                                          *)
Readable(k) ==
  /\ Item(k) \subseteq names
  /\ pool = "video" /\ job.graph = "heatmap" => Flattens(job.combine)

Read(w) ==
  /\ worker[w] = "running" /\ key[w] < Last(w)
  /\ IF Readable(key[w])
     THEN /\ part' = [part EXCEPT ![w] =
                        [n \in AllNames |->
                           @[n] + (IF n \in Item(key[w]) THEN 1 ELSE 0)]]
          /\ key' = [key EXCEPT ![w] = @ + 1]
          /\ UNCHANGED <<worker, queue>>
     ELSE Lose(w)
  /\ UNCHANGED <<job, names, parentVars>>

(* video_worker starts from result[0], which an empty slice does not have. *)
Put(w) ==
  /\ worker[w] = "running" /\ key[w] >= Last(w)
  /\ IF pool = "video" /\ part[w] = None
     THEN Lose(w)
     ELSE /\ worker' = [worker EXCEPT ![w] = "put"]
          /\ queue' = queue \cup {w}
          /\ UNCHANGED <<key, part>>
  /\ UNCHANGED <<job, names, parentVars>>

-----------------------------------------------------------------------------

Parent ==
  \/ StartStats \/ EndOfFile \/ NoLength \/ NextBlock \/ GenerateImage
  \/ Spawn \/ Collect \/ Animate

Worker(w) == Open(w) \/ Read(w) \/ Put(w)

Next == Parent \/ \E w \in Ids : Worker(w)

(* The operating system runs every process.                                *)
Fairness == WF_vars(Parent) /\ \A w \in Ids : WF_vars(Worker(w))

Spec == Init /\ [][Next]_vars /\ Fairness

-----------------------------------------------------------------------------
(* Properties                                                              *)

Contiguous == names = 0 .. Stored - 1

(* A combined result is only produced from all workers, and every data set *)
(* of the file is in it exactly once, unless --combine lets the windows of *)
(* video_worker overlap.                                                   *)
CountedOnce ==
  received = Workers /\ (pool = "image" \/ job.combine = 1) =>
    total = [n \in AllNames |-> IF n \in names THEN 1 ELSE 0]

(* An uncombined video reads the data sets one by one in the order they    *)
(* were measured, up to the first name that is missing.                    *)
PlayedInOrder ==
  ~job.stats /\ job.type = "video" /\ job.combine = 1 =>
    /\ \A f \in 1 .. Len(frames) : frames[f] = {f - 1}
    /\ pc = "done" =>
         Len(frames) \notin names /\ 0 .. Len(frames) - 1 \subseteq names

(* A combined video of a file without gaps adds up runs of that many data  *)
(* sets, each starting one data set after the one before; only a last run  *)
(* may be shorter.  Although the positions end with the number of blocks,  *)
(* not of data sets, so that the end of the file is never read, at least   *)
(* that many data sets are.                                                *)
SlidingVideo ==
  /\ ~job.stats /\ job.type = "video" /\ job.combine > 1
  /\ Contiguous /\ Length(job.combine) > 1
  => /\ \A f \in 1 .. Len(frames) :
          \/ frames[f] = f - 1 .. f - 2 + job.combine
          \/ /\ f = Len(frames)
             /\ frames[f] = f - 1 .. f - 2 + (Stored % job.combine)
     /\ pc = "done" =>
          \A n \in 0 .. Length(job.combine) - 1 :
            \E f \in 1 .. Len(frames) : n \in frames[f]

(* --combine asks for as many data sets as the file has, or more.          *)
OneBlock == job.combine > 1 /\ Length(job.combine) = 1

(* A video of a file without gaps is played, except that one whose data    *)
(* sets all fit into one block never is: the block is computed for it, and *)
(* then it fails on the file that was closed for that.                     *)
OneBlockIsNotPlayed ==
  ~job.stats /\ job.type = "video" /\ Contiguous /\ names # {} =>
    /\ pc = "error" => OneBlock /\ frames = <<names>>
    /\ pc \in {"play", "done"} => ~OneBlock

(* No worker has a reason to raise an exception.                           *)
EveryWorkerAnswers ==
  /\ Contiguous /\ names # {}
  /\ pool = "video" =>
       /\ \A w \in Ids : First(w) < Last(w)
       /\ job.graph = "heatmap" => job.combine = 1 \/ Length(job.combine) = 1

(* A pool over a file without gaps answers, if no slice of video_worker is *)
(* empty and none of its rows is a list.                                   *)
PoolEnds ==
  (pc = "spawn" /\ EveryWorkerAnswers) ~> pc \notin {"spawn", "collect"}

(* README.md: --stats provides information about the whole data set.       *)
StatsEnd ==
  (pc = "start" /\ job.stats /\ Contiguous /\ names # {}) ~> pc = "done"
=============================================================================
