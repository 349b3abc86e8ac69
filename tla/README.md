# Verification of the cache noise profiler and visualizer

The repository holds a C program, `profiler`, that measures how much other code
disturbs a CPU cache (it fills the cache with its own lines, yields, and times
how long each line takes to read back), and Python tools that prepare the
system and draw the measured matrices. This directory holds TLA+ modules that
model the program, TLC configurations that check them on small instances, and
proofs of the most important properties for every instance.

## Inventory

| Part | Source | State | Operations | What makes it correct |
|---|---|---|---|---|
| Program life cycle | `src/main.c`, `inc/error.h` | arguments, output, buffer pointer, recorded core, PID | set up, mode, tear down; `EXIT_ON_FAIL` runs a failed call up to three times and jumps to `FINALIZE` | stops when asked, kills only what it started, leaves nothing running |
| Processes, signals, counter | `src/sys_action.c` | flag `terminated`, perf events, children | `run_program`, `focus_cpu_core`, `enable/disable_cpu_cycle_counter`, two signal handlers | every signal ends the run; counter, workload and profiler on one core |
| Measurement | `src/profile.c` | loop counters, result matrix, the CPU cache | `profile`, `prime`, `probe`, `benchmark` | exactly `--iter` matrices; a matrix shows the accesses of other code and nothing else |
| Benchmark mode | `src/profile.c` | the measured results | `benchmark` and its statistics | the printed numbers are what their names say |
| Output | `src/output.c` | type, HDF5 handle, `iter` | create, write one matrix, close | data sets `0, 1, ...` without a gap |
| Aligned buffer | `src/alloc.c` | `*buffer`, the rejected buffers, `err` | `alloc_aligned`, `test_alignment`, `free_aligned` | every line of the buffer on its own cache line; huge pages given back |
| System information | `src/sys_info.c` | main's `cache`, filled file by file from sysfs and procfs | cache search, pagemap decoding, huge page size | the right cache is found, geometry is consistent |
| Error texts | `src/error.c` | constant table | `decode_error` | a message belongs to the error it reports |
| Visualizer | `tools/visualize.py` | HDF5 file, chunk cursor, worker processes and their queue | `MeasureData`, `image_worker`, `video_worker`, plots | every data set counted once; terminates |
| SMT switch | `tools/toggleSMT.py` | online files of sysfs | parse, enable, disable | one thread per physical core stays online |
| Other switches | `tools/toggleRDPMC.py`, `tools/toggleHugepages.py` | one procfs/sysfs number | write it | - |

How they interact: `main` calls the others in a fixed order; signal handlers
interrupt it anywhere and set `terminated`, which only the loop of `profile`
reads; the buffer pointer travels from `alloc_aligned` through `profile` to
`FINALIZE`; the HDF5 file is the only interface between profiler and
visualizer; the tools change kernel settings that the profiler reads later.

What is hard to test: signals between any two instructions, a workload that
exits, stops or has its PID reused, calls that fail and are evaluated again,
other processes competing for huge pages, cores that go offline while their
caches are looked up, and other code using the cache between any two accesses.
`PROJECT.json` lists these hazards with the line where each one bites and the
properties aimed at it.

## Modules

| Module | Models | Kind |
|---|---|---|
| `Profiler` | one run of `main` with `profile.c`, `sys_action.c`, `output.c`, the signal handlers, the workload and the `--pid` process | state machine |
| `Session` | what a run promises to whoever starts it | abstract specification, implemented by `Profiler` |
| `Setup` | the calls of `main` before the measurement, with `sys_info.c` file by file, against the tools that change the machine | state machine |
| `ErrorTable` | the codes of `error.h`, the table and search of `error.c` | functions |
| `Statistics` | the numbers `benchmark` prints | functions |
| `AllocReturns` | the contract between `main` and `alloc_aligned` | constants |
| `AlignedAlloc` | `alloc.c` against the kernel's pool of huge pages | state machine |
| `PageMap` | `get_physical_address` and the line number computed from it | functions |
| `PrimeProbe` | `prime` and `probe`, access by access, against a set-associative cache | state machine |
| `Visualizer` | `visualize.py`: reader, worker pools, parent | state machine |
| `ToggleSMT` | `toggleSMT.py`, write by write | state machine |
| `MC*` | values of the constants for TLC | instances |
| `ProfilerProofs`, `RunProofs` | theorems about `Profiler`: promptness, limits, file; core, kill, end of a run | proofs |
| `SessionProofs` | `Profiler` implements `Session` | proofs |
| `SetupProofs`, `PrimeProbeProofs`, `VisualizerProofs`, `ToggleSMTProofs` | theorems about the module of that name | proofs |
| `AlignedAllocProofs` | theorems about `AlignedAlloc` and `PageMap` | proofs |

Operators named `...` after a definition's name plus a suffix, with a comment
"Mutant of", are changed versions of that definition with a plausible bug; they
are not part of the specification and show that each property can fail.

### Profiler

`pc` is the call that `main` or `profile()` makes next; one action is one call
with all that it changes. `EXIT_ON_FAIL` is the operator `Return`: the macro
names its argument three times, so that a failed call is evaluated twice more
(for `decode_error` and for the printed code) before `main` jumps to
`FINALIZE`. The variable `evals` counts these evaluations; since the jump is
taken whatever the later ones return, `evals > 1` means that the run has
failed. What a repeated evaluation does again is in the actions: another
workload is spawned (`child` and `perf` are indexed by the evaluation), another
round of measurements is run.

`Signal`, `AlarmFires`, `HandleSigchld` run between any two calls, as the
handlers do. A child is `running`, `zombie`, `free` (reaped by the handler) or
`recycled` (its number belongs to somebody else). `--pid` names the process
`Target`. The matrices are abstracted to the name of their data set; `saved` and
`blank` are the data sets with and without content. `H5Fclose` may fail to flush the
file (`damaged`); `main` ignores that, and the exit code is the same.

`--iter` is an `int` made by `atoi`, which `profile()` takes as `uint32_t`: `Limit` is
that conversion, so that a negative number is a large limit. `IntLimit` stands for
2^31.

A measurement that has begun is finished: the handler only sets `terminated`,
which the loop tests before the next one. `alloc_aligned` is one step that may
return anything in `AllocReturn`; using a buffer that is not mapped ends the
process (`crashed`).

### Session

The abstract specification of a run: matrices are delivered, at most `limit` in
each attempt, one at most after the run was asked to stop; an attempt can be
repeated; the run ends as `complete`, `stopped` or with `nothing`, and may claim
the first two only if that is what happened. `Profiler` implements it under the
mapping of its operator `Promise`: `--iter` is `limit`, `evals` is `attempt`,
`matrices` is `delivered`, `terminated` is `asked`, and `Result` reads the outcome
from `pc`, `exitCode` and `evals`. `profiler_live` checks the whole of it including
`Ends`; the safety part is also proved.

### Setup and ErrorTable

`Setup` opens up the calls that `Profiler` treats as one step each from
`focus_cpu_core` to `alloc_aligned`: where a run that prints information, a benchmark
or an unknown mode leaves that path (`Branch`) and where a profile run goes on to
its workload. `ready` means that `main` goes on to the workload and `profile()`, or
to `benchmark()`. Of `alloc_aligned` only its look at the number of huge pages is
here; that no page is free or none fits is a fault, and the business of
`AlignedAlloc`. One step is one file of sysfs:
`cache_info_fill` reads five numbers through `READ_PROP_PUT` and then the type. A
field of `cache_info_t` is abstracted to the index directory it was read from, so
that "one cache or a mixture of two" is visible; the values are looked up in
`machine`. Between any two steps `toggleSMT.py` may take a core offline or back,
after which the kernel removes or adds its directories one by one (external), and
`toggleRDPMC.py` may write another mode, or `toggleHugepages.py` switch between some
huge pages and none (`huge`). Core and level are cut to a byte
(`ByteLimit`), `info->level` is arbitrary if nothing was read into it, and the
unchecked `fopen` of the type file crashes the program when the directory has gone.

`errors` holds what the three evaluations of a failed call returned.
`ErrorTable!Decode` is the search of `decode_error`; a text is abstracted to the
name of the code whose entry it stands in. C does not order the evaluation that is
decoded and the one that is printed, so `MessageFits` asks for both.

### Statistics

What `benchmark` computes from its results, as functions on sequences of integers;
a quotient is a pair. `MCProfiler` compares them with reference definitions.

### AlignedAlloc and PageMap

A step is a system call or one turn of a loop. `TestPage` is one turn of
`test_alignment`: the write that brings the page in (any free frame), the
lookup in the pagemap, the comparison. Regions are virtual addresses, frames are
physical huge pages, `frame` is the page table. Reservation follows the kernel:
`mmap` succeeds when enough free frames are not yet promised to others. `State`
is the abstraction of the buffer that `Profiler` uses, and `KeepsContract` says
that every return is one that `Profiler` expects (the two modules share
`AllocReturns`).

`PageMap` has what is behind the numbers: an address in bytes, its small page, the
entry of `/proc/self/pagemap`, the 54-bit field the frame number is kept and shifted
in (gcc computes the shift in the width of the field), and the line number.

### PrimeProbe

One step per memory access of the two assembler loops; between any two of them
`ForeignAccess` loads a line of other code. Timing is abstracted to hit or miss.
The cache replaces the least recently used line, the policy for which the
opposite order of `prime` and `probe` makes sense; real caches approximate it.
`noise` and `calm` are history variables: which foreign lines were used in a set
during its measurement, and whether all of them fell between its prime and its
probe.

### Visualizer

A matrix is abstracted to how often each data set was added to it; a block is the
set of data sets in it, and `frames` are the blocks the parent has read: the first
one before its plot is drawn, the others while the animation runs. Between them is
`Animate`, the constructor of `FuncAnimation` (matplotlib 2.1.1, as pinned in
`requirements.txt`), which asks the reader for its length before anything is
shown or saved. The parent
waits for as many results as there are CPUs. A worker that raises an exception
is `lost`. The file is any set of names: `ContiguousFile` of `Profiler` says
which ones a run without failures writes.

### ToggleSMT

Each read of a thread's state and each write is a step that may fail, which ends
the script. A thread that is offline has no topology and goes into the group
`Unknown`. `Rank` is the order of the thread numbers as strings, which is how the
script sorts them.

## Runs

| Run | Shows |
|---|---|
| `profiler` | for the command lines of the help text, bound and unbound, and every combination of failing calls: at most one matrix after a stop request, `--iter` respected per evaluation, no gap in the file but one for each failure, every matrix of a good run given to HDF5, on which core counter and target are, whom SIGKILL hits, nothing left running |
| `profiler_live` | a stop request, the end of the workload, `--iter` and `--seconds` end the program; every run is one that `Session` allows |
| `setup` | a successful search never mixes two caches, finds the right one on a quiet machine, `main` gets to a measurement or benchmark exactly after its preparations, the message fits the error |
| `profiler_failure` | *violated*: the exit code of a failed run is not `EXIT_FAILURE` |
| `profiler_stop` | *violated*: SIGCHLD stops the run although no child has exited |
| `profiler_kill` | *violated*: with `--pid` and `--program` the `--pid` process is killed |
| `alloc` | the contract, soundness of a passed test, no leaked huge pages, exhaustive search, termination |
| `alloc_doc` | *violated*: success does not imply an aligned buffer |
| `prime_probe` | what a matrix says about other code's accesses |
| `visualizer` | each data set counted once, videos in order, combined ones sliding by one data set, the one kind of video that is never played, pools that answer |
| `visualizer_stats` | *violated*: `--stats` hangs when the last slice is empty |
| `toggle_smt` | no physical core loses all its threads, the choice is carried out, thread 0 is left alone |

The five violated properties are statements of the repository's own comments
and documents; `PROJECT.json` quotes each one beside the code that disagrees.

Some properties have a hypothesis worth knowing, or record a limit of the code.
`CompleteRun` and `NothingLeftRunning` speak of runs in which no call failed: after
a failure the SIGKILL is skipped and the counter stays on. `CompleteRun` leaves open
whether the file could be closed, because the program does. `ContiguousFile`
has no gap until a call fails, and after it at most one for each failed evaluation.
`CounterOnThisCore` says on which core the counter is in every case but one: with
`-c ID` a profile run reads the counter of its own core, a benchmark always that of
core 0, which is the wrong one for any other `ID`; with `-c -1` the program only
warns that somebody else must bind it, and nothing holds but that the counter is on.
`KillScope` bounds when a foreign process can be hit, it does not exclude it.
`OneBlockIsNotPlayed` records that a video whose data sets all fit into one block
always fails. `CountedOnce` leaves out `--stats` with `--combine`, whose windows
overlap, and `SlidingVideo` says what the windows are. `GeometryIsWhole`
holds whatever the tools do, but not if all directories of the core had gone when
they were counted: then `info` was never written, and the comparison of its level
may pass. `SearchIsExact` and `SetupIsExact` are about a machine nobody touches
during the run, and `SetupIsExact` about one where no call fails for other reasons,
such as no huge page that fits; `SearchIsExact` also about numbers that fit into a byte, while
`SetupIsExact` shows that a larger core number is looked up as its last byte, and
that the core which this byte names has to be online as well.
`MessageFits` leaves out the codes for which the text is wrong or missing:
`ERROR_FMT` and `ERROR_CHMOD` have no entry, `ERROR_HDF5_ERROR` shares its number with
`ERROR_GET_CPU_CORE`.

### Bounds

- `Profiler`: two cores, `--iter` 0 (none) or 2, at most `MaxMatrices = 6`
  matrices, and with `IntLimit = 4` also -4, the least `int`, which is read as 4.
  Profile runs are bound to core 1 with every combination of options, and unbound
  with `--iter 2`; benchmarks are bound to 0, to 1, and unbound. A limit of 2 separates the first, a middle and the last turn of the
  loop; six matrices are three evaluations of it. A run without a limit waits at
  the bound for a signal, which is why the liveness properties are not weakened
  by it: they are about runs that are asked to stop or limited. The liveness run
  uses `--iter` 0 and 1, three matrices, and only the failures that repeat
  `run_program` and `profile()`, where a stop request could get lost, and of the
  cache search for a failure before them; its processes are unbound and may
  migrate.
- `Setup`: three cores with the byte scaled down to `ByteLimit = 4`, so that core 4
  is looked up as core 0 and level 5 as level 1; a usual desktop core (data,
  instruction, unified) and one whose last index is an instruction cache of a level
  without another; ten command lines, of every mode; one outside failure per run; core 1 is
  switched, with `MaxChanges = 2` writes of the tools in a run: offline and back
  online is the shortest way for a directory to vanish and return between two reads.
- `AlignedAlloc`: three huge pages and three addresses; caches of two pages, of
  less than one page that divides nothing, and one that fits by luck. Two pages
  are the smallest number for which a later page can fail after an earlier one
  passed; three frames let a search fail, succeed late or run out of memory. The
  instance of `PageMap` (pages of 4 bytes, a field of 64 values) is evaluated once,
  as the assumption `BytesAreLines` of `MCAlignedAlloc`.
- `Statistics`: all sequences of up to four results out of four values (the
  assumption `PrintedNumbers` of `MCProfiler`); odd and even lengths, and ties.
- `PrimeProbe`: two sets of three ways and three foreign lines, enough to evict
  a whole set. Foreign lines are interchangeable (symmetry).
- `Visualizer`: three workers, up to five data sets, so that slices are uneven,
  cut off and empty; one damaged file.
- `ToggleSMT`: four threads, numbered so that string order and numeric order
  differ; four topologies.

Deadlock checking is off for the two visualizer runs only: a parent whose worker
was lost does wait forever.

### Fairness

`Profiler`: the program itself is scheduled, a pending alarm expires, and a
pending SIGCHLD is delivered. Nothing makes the user send a signal, the workload
exit or the scheduler migrate. `AlignedAlloc`: only the program; other processes
may do nothing or interfere forever. `Visualizer`: the operating system runs the
parent and each worker. All are weak fairness of a whole process, never of a
single outcome of a call.

## Proofs

The theorems hold for every value of the constants under the assumptions named
in the modules (`ProfilerAssumption`, `SetupAssumption`, `AllocAssumption`,
`PageMapAssumption`, `PrimeProbeAssumption`, `VisualizerAssumption`,
`ToggleAssumption`), and do not use fairness. Every invariant that a passing run
checks has one, and so have the action property `ProbeSparesTheUnprobed` and the
safety part of the refinement. The assumptions say of what kind the constants
are (the cache has at least one set and way, the machine's directories have the
sizes their factors give, thread 0 comes first in the string order of the thread
numbers); none bounds the number of cores, pages, sets, workers, data sets or
repeated steps.

Few of the properties are inductive as they stand. What each one needs:

- `ProfilerProofs`. `TypeCorrect` is inductive as it stands. `StopsPromptly`
  (`late <= 1`) is not: a second late matrix could follow the first. `StopInv` adds
  that as long as the flag is not set nothing is late, and that once a matrix is
  late the program is never again inside a measurement that would be output.
  `LimitHolds` relates the matrices to the loop counter (`LimitInv`):
  `(evals - 1) * Limit + j` bounds them, and `j < Limit` inside the loop body.
  `FileIsContiguous` is inductive with types; its step is about one data set
  (`DatasetStep`: a name is lost only by a failure, and then one) and about the
  number of failures (`FailuresGrow`, `FailedWrite`), by cardinality.
- `RunProofs`. `CoreInv`: the counter of the *running* evaluation stays on until it is
  disabled, a target was moved to the recorded core before the loop began, and with
  `-c ID` that is the core of every step after the binding (`CounterIsOnThisCore`,
  `TargetIsOnThisCore`).
  `KillInv`: a number becomes free for another process only in the handler that
  sets `terminated`, and nobody is killed before the tear-down (`KillStaysInScope`).
  `QuietInv`: until a call fails there is one evaluation, so one workload and one
  counter to stop (`NothingKeepsRunning`). `FileInv`, with the `DoneInv` of the
  refinement: one data set per matrix, in a file that is open before the loop and
  closed, or damaged in the attempt, after it (`RunIsComplete`).
- `SessionProofs!SessionIsKept`: `Spec => Promise!Safety`, the refinement. `SessionInv`
  joins the invariants above with `DoneInv`: in a profile run without a failed call
  the loop counter is the number of matrices, and the loop is only left when asked
  to or when `j` has reached the limit, which is remembered up to the end. A step of
  `LoopTest`, say, is a stutter of `Session`, a failing call is `Retry`, a signal is
  `Ask`, the last step of `main` is `End` with the `Result` that `DoneInv` justifies.
- `SetupProofs`. `TypeInv` adds that the search stays inside the directories that
  were counted, and that `core` is one of the machine past the binding.
  `GeometryInv`: the files read in this turn come from directory `i`; at the type
  file, and between two turns, all five come from the same one (`GeometryHolds`).
  `UntouchedInv` is about a machine nobody has touched: no hit lies before the
  directory the search is at and no file before the current one can fail
  (`SearchInv`), a failed call fails in the same way each time it is evaluated
  (`RepeatInv`), and each step of `main` knows the checks it is past
  (`ProgressInv`). Under it `SearchExact`, `SetupExact` and `MessageIsRight` are the
  comparison of what happened with what the machine holds. The proof found that
  `SetupIsExact` had to require the core named by the last byte to be online too;
  the instance never switches that core.
- `AlignedAllocProofs`. `SearchInv` carries through the search that rejected
  buffers stay mapped until it is over. That is why the buffer in hand is none of
  them, and why freeing them later does not touch it (`AllocSound`). The arithmetic
  is in `PassedIsAligned`: when the first line of each huge page is on the right
  cache line, so are all lines after it, also when the page size does not divide
  the cache size; it rests on the uniqueness of quotient and remainder. `SeenInv`:
  every frame looked at is still behind a mapped buffer, so the next one is new and
  the number of tries is at most the number of frames seen (`SearchExhausts`, by
  cardinality). `ContractInv`: a return that reports an error before the search
  leaves `*buffer` as it was, all others have set it (`ContractIsKept`, which
  discharges what `Profiler` assumes of its buffer). `LeakInv`: all that is mapped
  is the buffer in hand and the rejected buffers from `i` on (`NothingLeaks`).
  `BytesAreLines`: a huge page keeps distances between addresses
  (`HugePageIsLinear`), so the number `test_alignment` computes from bytes is the
  `LineId` of `AlignedAlloc`, and the other lines of the page follow it. It needs
  that the physical address fits into 54 bits.
- `PrimeProbeProofs`. `AccessesInBounds`: the offset `way * sets + set` is a
  bijection onto the lines of the buffer, the result index is `set * ways + way`.
  One access to a set under LRU is described once, in positions (`TouchIsAccess`),
  and the `AccessKeeps...` lemmas say what it preserves: the order of two lines, the
  lines above one, the absence of one. `OrderInv` says of each way still to be timed
  that it is older than the loaded ways below it and than the noise of a calm set,
  that nothing else lies above it, and that it is in the set or the set is full. A
  miss therefore needs at least `Ways - way` foreign lines, a hit in a calm set has
  room left, and a miss takes all higher ways along (`ResultInv`; the counting is in
  `CoverCounts`, `NewerCount`, `RecentCount`). From it follow `MissesBounded`,
  `CalmSetsCount` and, from `OrderInv` alone, `UnprobedAreSpared`: the line a probe
  evicts is never one still to be timed.
- `VisualizerProofs`. `SlicesInOrder`: for every number of CPUs and positions the
  slices `First(w) .. Last(w) - 1` are disjoint, in order and cover all positions,
  the empty and the cut off ones among them. `PoolInv`: at most one pool is ever
  started. `SliceInv`: a worker that can still answer has counted its slice up to
  its cursor; `TotalInv`: the combined matrix is made of the slices of the workers
  whose results were taken. `AllCountedOnce` joins the two at the last result.
  `StreamInv` has one window per position read so far (`VideoInOrder`,
  `VideoSlides`), `BlockInv` the file that fits into one block: it is closed when the
  animation begins (`OneBlockFails`).
- `ToggleSMTProofs`. `ScanInv`: what was read is what was online, and threads
  without a topology share a group no core has. `PhaseInv` orders scan, prompt and
  writes. `SwitchInv`: a thread whose turn has not come is as it was, one whose turn
  has come is as wanted, unless its write is the one that failed. Each group has
  one leader (`LeaderExists`, `LeaderIsUnique`), which is never switched off;
  thread 0 is one (`ZeroLeads`).

The frame lemmas (`SetupFrame`, `SearchFrame`, ...) say which
actions leave which variables alone, so that each invariant has one proof step
per action that can disturb it.

Only model-checked: all liveness (`StopsWhenAsked`, `Terminates`, `PoolEnds`, ...,
the `Ends` of `Session` among it) and with it everything about fairness and
ENABLED, which the provers do not handle; `PrintedNumbers`, since `Statistics` folds
over sequences of any length and a proof would be an induction over them. The
violated properties are refuted by one behaviour each, which is what TLC shows.

## Not modelled

Text written to stdout and to plots, parsing of the command line beyond its
result, building of `argv` for the workload, rounding in the printed statistics,
the contents of `/proc/meminfo` (reading it succeeds or fails), and undefined
behaviour beyond the use of unmapped memory, unread fields and missing files.
A pool of huge pages that `toggleHugepages.py` shrinks while `alloc_aligned` searches it
is not modelled. The loop counter of `profile()` is taken to wrap like a `uint32_t`
where the `int` of the source overflows, after 2^31 matrices; the wrap of
the way counter of `prime` and `probe` is read as -1. The build has no behaviour. The
hazards in `PROJECT.json` without a property say why.

## Plan

Done, in this order: `Profiler` with its contract for the buffer, `AlignedAlloc`
showing that the contract is kept, `PrimeProbe`, `Visualizer`, `ToggleSMT`; then
`Setup` with `ErrorTable`, `Session` with its refinement and proof, `PageMap` with
its theorem, the combined videos of `Visualizer`, `Statistics`; then a theorem for
every invariant the runs check.

What is left, by importance:

1. The safety core of the liveness properties: a pool in which every worker has
   something to answer never loses one, and a parent that still waits has a worker
   that still works or a result in the queue (`PoolEnds` without its fairness); a
   bound that every step of the search for a buffer decreases (`Terminates`).
2. The two modules on the HDF5 file as one statement: the names a `Profiler` run
   without a failed call leaves are a file without gaps as `Visualizer` reads it.
3. `AlignedAlloc` as an implementation of an abstract buffer search, so that
   `KeepsContract` becomes a refinement.
