# Verification of RASR: TLA+ models, model checking and proofs

RASR (the RWTH ASR toolkit, `src/src`) is a speech recognition toolkit in C++.
This directory holds TLA+ models of the parts of it that keep state across
calls, threads and process lifetimes, the TLC configurations that check them
and TLAPS proofs about them. Every definition is translated from the source
file and lines that `PROJECT.json` ("map") names. Paths below are relative to
`src/src`.

| Module | Role |
|---|---|
| `MapReduce` | what a thread pool promises its client |
| `ThreadPool` | `Core/ThreadPool.hh`, with the monitor of `Core/Thread.hh` |
| `ThreadPoolProofs` | theorems about `ThreadPool`, the refinement included |
| `ArchiveStore` | what an archive is to its users |
| `FileArchive` | `Core/FileArchive.cc` under `Core/Archive.cc`, with crashes |
| `MCFileArchive` | the usages of an archive that TLC checks |
| `FileArchiveProofs` | theorems about `FileArchive`, the refinement included |
| `FileArchiveCrashProofs` | what the first crash, and what `recover()`, leaves of an archive |
| `FlowStream` | what a flow network delivers to its outputs |
| `FlowNetwork` | run time of `Flow`: links, nodes, network |
| `MCFlowNetwork` | two small networks for TLC |
| `FlowNetworkProofs` | theorems about `FlowNetwork` |
| `WriteBackStore` | what an object cache promises its clients |
| `ObjectCache` | `Core/ObjectCache.hh` with the list of most recently used objects, failing files, crashes |
| `ObjectCacheProofs` | theorems about `ObjectCache`, the refinement included |
| `BatchScorer` | the ring buffers of `Nn/` and `Mm/BatchFeatureScorer.cc` |
| `RecognizerDelay` | `Speech/DelayedRecognizer.cc` in front of such a scorer, under two of its drivers |
| `MCRecognizerDelay` | scorers, sizes and drivers for TLC |
| `RecognizerDelayProofs` | theorems about `RecognizerDelay` and its scorers |
| `TraceManager` | trace ids of `Search/AdvancedTreeSearch`: the tables, and the frame that uses them |
| `MCTraceManager` | modifications and symmetry for TLC |
| `TraceManagerProofs` | theorems about `TraceManager`, for as long as positions fit into an id |
| `TraceManagerRoom` | how wide an id has to be for that |

Each run is `tlc -config X.cfg M` with the module and configuration that
`PROJECT.json` ("runs") names, for instance `tlc -config MCObjectCache.cfg
ObjectCache`; the proofs are checked by `tlapm ThreadPoolProofs.tla` and so on,
one call for each `*Proofs` module and `TraceManagerRoom`.

## 1. The system

| Component | State | Operations | Talks to |
|---|---|---|---|
| `Core::ThreadPool` | task queue, two counters, terminate flag, one mapper per thread | init, submit, wait, reset, combine, destruction | its client, its threads, through one mutex and two conditions |
| `Core::FileArchive` | the file; an index in memory (files, empty segments, end of the archive, changed) | open, read, write, remove, clear, recover, close | the file system; `Flow::CacheNode`, `ObjectCache`, feature caches use it |
| `Flow` network | per link: a slot, a queue, attributes; per node: parameters, position | putData, putAttributes, getData, getAttribute, parameters, reset | nodes call `work` and `configure` of their predecessors |
| Flow sources and joins | position in the audio file; the packets being merged | configure, work | the links above |
| `Flow::CacheNode` | a context per segment: reader or writer on an archive | setParameter, configure, work | archives; the flow network |
| `Flow::Cutter`, `Synchronization`, `SequenceFilter` | a window of packets, a position | configure, work | the flow network |
| `Core::ObjectCache` | list and table of the objects in memory, dirty flags, a directory, a size | find for reading or writing, insert, save, write back, resize, switch directory, clear | one file per object; adaptation code in `Speech` accumulates into it |
| `Core` reference counting, `Flow::Data` | counts, sentinels that are never freed | increment, decrement, makePrivate | everything in `Flow` |
| other archives (bundle, directory, mapped), `CacheManager` | lists of archives or files | as an archive | file system, a distribution service |
| `Core` configuration, XML, streams | parsed text | parse, print | all components |
| `Signal` | sliding windows, normalisation state, filters | work | the flow network |
| `Speech` | corpus visitors, recognizers, alignments | visit a segment | flow network, search, `Bliss` |
| Recognizer delay, batch scorers | a delay buffer and an offset; the scorer's ring, its position, cached scores | enter segment, add, flush, reset; addFeature, getScorer, flush, getScore | the flow network on one side, the search on the other |
| Trace manager of the tree search | two tables with free lists; ids in every hypothesis | getTrace, modify, resolve, clean up | the steps of a frame in `SearchSpace` |
| `Search` (trees, WFST, seq2seq) | hypotheses, look-ahead tables, `SimpleThreadPool` | feed, prune, trace back | `Am`, `Lm`, `Bliss` |
| `Lm` | n-gram tables, histories with reference counts, state caches of neural models | extend, score | `Search` |
| `Am`, `Mm`, `Cart`, `Nn`, `Math`, `Tensorflow`, `Sparse`, `Mc` | parameters, statistics | estimate, score | numerics libraries |
| `Bliss` | corpus, lexicon, segment order | read, iterate | `Speech` |
| `Fsa`, `Flf`, `Lattice`, `OpenFst` | automata, cached states | algorithms | `Search`, `Tools` |
| `Tools`, `Python`, `Test` | - | command lines, bindings, tests | all components |

What makes each of them correct, and where it is hard:

* **Thread pool.** Every task is mapped exactly once, `wait` returns when and
  only when all are done, mappers are not touched while a worker uses one, and
  nothing is freed under a worker. Hard: two counters changed at eight places,
  wakeups that may be lost or spurious, a gap between `wait` and what follows.
* **Archive.** Files come back as written, in later processes too; a process
  that dies leaves a file the next one can read. Hard: positions computed in
  four places, segments that are used again, buffered writes in an order, a
  flag that vouches for a table, a table that is overwritten by the next file.
* **Flow.** Every output delivers its stream in order, once; packets that are
  joined belong together; nothing runs unconfigured, attributes are up to date;
  `getData` returns. Hard: outputs read at different rates, links with a slot
  *and* a queue, lazily propagated attributes, reset and parameters between
  calls, sentinels in the stream.
* **Object cache.** An object is found as it was last changed, whatever was
  evicted or reloaded in between; memory stays within its size; a client's
  reference stays valid until its next access. Hard: write-back inside loops
  that make room, files that do not open, crashes between opening and writing.
* **Recognizer delay.** The score the search asks for is that of the feature it
  is fed with. Hard: two buffers of different sizes, started at different times,
  segments shorter than either, drivers with different ways to reset.
* **Trace ids.** An id leads to its item through copies, modifications and
  cleanups. Hard: ids that are packed into one word, a second table under the
  first, positions that are used again, ids that no cleanup visits.
* **Not modelled, same kind**: cache contexts (a crash between attributes and
  data), cutter (history of seeks), sliding windows (flush at the end), history
  managers (reference counts), `SimpleThreadPool` (waits without predicates).

The flow network runs in one thread: the threads of nodes are compiled out
(`Flow/Node.cc:280`). `Core::ThreadPool` is driven by one client thread. The
object cache, the recognizer delay and the trace manager are sequential too:
what is hard about them is the order of legal calls, failures and crashes.
`hazards` in `PROJECT.json` lists what is hard to test, with its line and the
properties that guard it, or why none does.

## 2. ThreadPool

One `ThreadPool` action is one critical section, from the acquisition of
`monitor_` to its release or to a wait. A thread that leaves a condition wait
takes the monitor again in a step of its own, so others may run in between;
both conditions may wake without a signal. `combine` reads one mapper per step,
outside the monitor, as the code does. The exception is the end of
`terminateThreads`: it joins the threads while it holds the monitor, so
`JoinWorkers` waits in the place `joining` and no worker gets the monitor
meanwhile (`MonitorFree`). `pc` says where each worker is (`fetch`, `waiting`,
`woken`, `map`, `exit`, then `leaving`: counted out by `threadTerminated` but
still in `run()`, and `done`: the thread is over), `client` where the client is; `tasks`, `active`, `running`, `terminate` are the members of
`ThreadPoolImpl`. A mapper is the sequence of tasks it has mapped.

| Run | Checks | Bounds |
|---|---|---|
| `threadpool` | `CountersExact`: the counters equal what they stand for. `MappersQuiescent`: nothing queued and nobody in `map` while mappers are read or reset. `NoTaskTwice`: a task is in one place, tasks start in order. `NobodyInDeadPool`: mappers and thread objects are freed only when every thread is over, which the counter alone does not say. `NoTaskDropped`: `terminate_` does not overtake the queue. `CallReturns`, `EveryTaskMapped`: no wakeup is lost. `MapReduceOK`: the refinement | 3 workers, 3 tasks |
| `threadpool_nostart` | **violated**: `WaitCompletes` when a thread fails to start | 2 workers, 1 task |

Three workers let one work, one wait and one be between the two; three tasks
let the queue be longer than one while the workers are busy. A task is not
looked at, so more of them repeat the same steps. Fairness is weak, per thread:
the scheduler runs a thread that can run, and the mutex is eventually granted.
No fairness is given to the client's decision to make a call, nor to a spurious
wakeup. `MapReduce` is the abstract pool: a reducer sees the bag of tasks
submitted since the last reset.

Proved in `ThreadPoolProofs`, for any finite set of workers and any number of
tasks, whether or not threads start: `TypeCorrect`, `CountersCorrect`,
`NoRaceOnMappers`, `ShutdownDropsNothing`, and `SafeDestruction` (`pc = "done"`
for each). The invariant is
`IInv == TypeOK /\ CountersExact /\ TerminateLate /\ Asleep /\ Started /\
AllLeft /\ NobodyInDeadPool`. `CountersExact` is inductive with the types, but mapper
quiescence is not: it needs `Asleep`, that *no worker is active at all* after
`wait` has returned to `reset`, `combine` or `shutdown`. That stays true
because a worker that wakes for nothing finds the queue empty and sleeps
again, and because only the client fills the queue. A zero counter gives an
empty set of active workers by `CountersExact` and finite cardinality.
`TerminateLate` says that the flag comes only after such a wait, `Started` that
`init` gives all workers their thread at once, and `AllLeft` that while the
threads are joined no worker is left who would need the monitor: so the joins
under it do not block for ever.

Proved there too, for the same: `TasksOnce` (`NoTaskTwice`) and
`PoolImplementsMapReduce`, the whole refinement. `NoTaskTwice` is not inductive
by itself: that a task is in one place only says nothing of the number the next
`submit` gives out. The invariant is `RInv == IInv /\ NoTaskTwice /\ Numbered /\
Fresh /\ Collecting`. `Numbered`: no task anywhere has a higher number than the
last one submitted. `Fresh`: nothing has been mapped before `init`. `Collecting`:
in the loop of `combine` the reducer holds the tasks of the mappers read so far,
each once. Every step of a worker takes a task, finishes one or leaves the tasks
alone (`WorkerStepKinds`), and none of the three changes the bag of tasks that
`MapReduce` keeps; at the end of `combine` `MappersQuiescent` gives that what was
collected is that bag.

## 3. FileArchive

The file is a flag and a sequence of *cells*: tags, a name, sizes, pieces of
data, table entries. That keeps positions, sizes, overlap and truncation
exact while bytes are not modelled: a file of length `s` with its name takes
`s + 5` cells, an empty segment keeps its length. The stream is buffered; a
*run* is what is written between two seeks, and stays in `pending` until the
next seek or flush. A run that begins behind the end of the file leaves a *hole*
in front of it. A crash loses the last run, keeps it, or, when it holds a payload
larger than the buffer, keeps a part of it. `mem` is the index in
memory. Opening reads the table when the flag is set, or scans; a scan that
meets something that is no tag moves on in steps of four bytes and may or may
not meet a tag again (`resync`): that depends on the lengths in bytes, which the
model does not have, so a usage says which of the two its scans may do. The
variable `recovered` is a history variable: `recover()` was called; so is `call`,
the last call that may change the archive, with its name and, for a write, its
data. A failed `verify` in `remove` is the state "aborted".

`ArchiveStore` is a store of named files whose interface is the calls: `Write`,
`Remove` and `Clear` each count a call, note which it was, and change the store
as that call asks: the named file gets exactly the data written, or is gone, or
all are gone. No other step changes the store. In the refinement the abstract
`call` and `calls` are `call` and `ops` of the archive, set by `WriteFile`,
`RemoveFile` and `ClearArchive`; `store` is `Contents`, what lies where the index
lists a file, in the open archive or as the next process will find it. So a file
that is lost or altered at a close or an open, a write that stores nothing or
something else, and an old version that comes back all break `StoreOK`. A crash or
`recover()` (`Orderly` no longer holds) ends the promise.

| Run | Checks | Bounds |
|---|---|---|
| `archive` | all five usages below, chosen in the initial state: `Tiled`: files and empty segments cover the data region without gap or overlap, tags in place. `StoreOK`: without crashes the archive refines `ArchiveStore`: each call does what it asks, and closing and opening change nothing. `CrashKeepsOthers`: the first crash harms no file but the one that was written or removed. `FlagHonest`: the flag in the file is set only when its table is there. `RecoverLosesNothing`: `recover()` finds every complete file of an archive that was never scanned, or has just been, and never writes its table over a complete file that it has found | 2 names; see the usages |
| `archive_recover` | **violated**: `FlagMeansTable` when `recover()` is called on an open archive | lengths 0 and 2, 3 operations |

A usage is a record (`MCFileArchive`): which lengths are written, how many
operations and crashes, whether files are overwritten, whether `recover()` is
called, whether a crash may fall between the flag and the truncation, whether a
scan may meet a tag again.

* `Clean`: lengths 0 and 2, 5 operations, no crash. Two names and two lengths,
  an empty file among them, give reuse of an empty segment (exact fit), segments that do not fit, and
  removal of the last and of another segment; five operations allow write,
  write, remove, reuse, overwrite.
* `Crashy`: lengths 1 and 3, 4 operations, one crash at any point. A payload of
  3 can be torn, and leaves old cells behind a shorter archive.
* `Twice`: as `Crashy`, 3 operations and two crashes, so that what the scan found
  after the first is written over before the second.
* `Repair`: lengths 1 and 3, 4 operations, one crash, `recover()`, and the crash
  between flag and truncation (`Core/FileArchive.cc:452`); a scan does not meet a
  tag again. `Aligned`: lengths 0 and 3, 3 operations, and it does. Here `recover()`
  is called after a crash and again after `recover()`, on a file that is shorter
  than what lies behind it, and between writes.

`FlagHonest` holds until `recover()` is called and excepts the usages with that
last crash. For `recover()`, `archive_recover` shows why: it leaves `changed_`
set, the next write does not clear the flag and goes over the table. For the
crash there is a hazard entry: the flag is written before the file is cut.

`CrashKeepsOthers` speaks of one crash, because two are worse. The scan
lists a file whose end tag is missing although it leaves `endOfArchive_` in front
of it (`Core/FileArchive.cc:398`). The next file is then written over it while
both stay in the index; removing the torn one cuts the archive off in front of
the new one, and the next table goes over it. So without the condition `crashes =
0` the usage `Twice` breaks `CrashKeepsOthers`, at the second crash. The model
does what the code does; no comment of the code promises more.

`RecoverLosesNothing` cannot promise to find every complete file again. After a
death in front of the truncation, or a write after `recover()`, an old table ends
the file and is taken for the current one; a file written behind it, and another
death, leave cells without tags in front of a good file, and the scan may end
there. What holds is in two parts. A file that `recover()` does find, and whose
end tag is there, keeps its content, whatever the archive has been through; the
table goes behind it. And it is found where the archive has not been scanned
before (`Orderly`), or where the index is what opening has just found by a scan
(`JustScanned`), as in the archiver's `recover` command, which opens and recovers.
`JustScanned` asks for a usage in which a scan may go only one way, as the scan of
one file does. `recover()` is one step; a death inside it is not modelled.

Proved in `FileArchiveProofs`, for all names, lengths and numbers of operations:

* `SegmentsStayTiled` (`Spec => []Tiled`) and `ArchiveImplementsStore` (`Spec =>
  StoreOK`). Without crashes an archive is never scanned, so the invariant `SInv`
  speaks of tables only. It says by status what describes the file: while the
  archive is open, `Described(mem, Image.cells)`, the segments of the index tile
  the cells up to `endOfArchive_` and carry their tags; when it is unchanged or
  closed, `Saved`, the table at the end of the file gives that index back; and in
  between, `Written`, the table is there but may have old cells behind it. `Tiled`
  alone is not inductive: it says nothing of a closed archive, nor of what is
  still in the buffer. The lemmas are about what one operation does to a tiling
  (a segment cut off at the end, marked as empty, used again, put at the end) and
  about `TableBack`, reading what `writeFileInfoTable` wrote. For the refinement
  each lemma also says that no other segment's data change (`AllKept`), and that
  the file written has its data and its size (`Holds`); `OrderlyStep` puts
  together which call a step is and what it does to the files.
* `TypeCorrect` (`Spec => []TypeOK`), for every usage and any number of crashes.
  What is hard is that after a crash the index is what the scan makes of the
  file. `TypeInv` therefore says of every cell in the file that it is one the
  archive writes (`CellOK`), so that whatever the scan takes for a header, in the
  middle of a table or of data, has the fields of one; of every run waiting to be
  written that its cells are such (`RunTyped`); and of the file that it is long
  enough to be cut behind the table when `Finish` gets there (`Ending`).
  `ScannedTyped` is by induction over the passes of the scan, on `Counting`, which
  is proved from the least element of a set of numbers; `Iteration` says that the
  recursive function which the scan is exists.
* `FlagStaysHonest` (`Spec => []FlagHonest`), with any number of crashes at any
  point. Here the index may have gaps and overlaps, so nothing is said of
  segments. The invariant `FlagInv` is about runs: as long as the archive is
  unchanged the flag, if set, has its table and the buffer is empty; the first run
  of the first change clears the flag (`Quiet`); no later run but the last of
  `Finish` sets it (`Harmless`), and what a crash leaves of a run is as harmless.
  It rests on `TypeInv`, for the index that a scan gives.

* `CrashesKeepOthers` (`Spec => CrashKeepsOthers`), in `FileArchiveCrashProofs`: the
  first crash, at any point of any operation and whatever part of a payload has
  reached the file, costs no file that was completely in the file but the one
  that was being written or removed. `SInv` and `FlagInv` hold until then. They do
  not say what the scan meets, which the next process relies on as the flag is
  clear: a wrong length in one segment hides every segment behind it. The third
  invariant, `HeadInv`, says that all segments of the index begin as the scan
  expects it (`Headed`), and of the buffer that it holds nothing, the flag of a
  new archive, or one file of an index whose other segments are all in the file
  (`Waiting`; all of a segment is written by the one run of a file, and marking
  one as empty does not touch its neighbours). What a crash leaves of the runs is
  a file that they have written up to somewhere (`Leaves`, `CrashSplit`). In each
  such file the segments up to the durable one still follow each other without a
  gap (`Found`): a torn file has its header, so the scan passes over it to the
  end of its gap or finds nothing behind it. `ScanFinds` is the induction over the
  passes: the scan stands at the begin of a segment in front of the file, or has
  listed it (`Seeking`). Both alignments are covered.
  A segment with an empty name is an empty one, hence the assumption
  `NameOK`: no file has that name. The death in front of `truncate64` is not one of
  the crashes of which the property speaks.

* `RecoverKeeps` (`Spec => RecoverLosesNothing`), there too, for any number of
  crashes and calls of `recover()`. The segments need neither tile the file nor
  lie in front of `endOfArchive_`, so the argument is about the scan alone: by
  induction over its passes, a file of the index whose end tag is in its place
  ends in front of `endOfArchive_`, and that is not behind the position of the scan
  (`Passing`, `ScanEnds`). `recover()` writes only behind `endOfArchive_`
  (`RecoverWrites`). That it finds the files of an archive that was never scanned
  follows from `HeadInv` and `ScanFinds`; that it finds again what opening found,
  from the invariant `ScanInv`: an unchanged index of a file with a clear flag is
  what a scan of this file gives, and nothing is in the buffer.

## 4. FlowNetwork

Nodes have one output port with any number of links. A node without inputs is
a source, one with a single input repeats, one with several merges. `From` and
`Inputs` are the graph, constants. A pull keeps an explicit `stack` of the
`work` calls under way: `Take` a packet from the demanded link, `Work` when it
holds none (the predecessor's `work` is called), `RepeatNonData` at an input
port, `Put` at the end of a node's `work`. Calls of the client happen between
pulls (`goal = NoLink`). Configuration and erasure are recursions over the
graph that end in a least fixed point (`Cone`, `Successors`): one step each,
written without recursion, so the module can be proved about. Attributes are
represented by what they were derived from: pairs of a node and the value of
its parameter; a packet by where its data come from, so that a merger's output
shows which packets it has joined.

Histories: `log` holds the packets of each origin since the last restart,
`seen` and `result` what each output has delivered. A restart is whatever clears
links and starts the stream anew (configuration of a source, `putAttributes`,
`reset`).

| Run | Network | Checks |
|---|---|---|
| `flow_input` | input port, diamond, one of its nodes with links that are always queued; outputs at the join and on that branch; 7 calls | `SlotOrQueue`, refinement `StreamOK` of `FlowStream` |
| `flow_mixed` | a source and an input port joined, outputs behind and at the join, parameters of the source and the join; 5 calls | `ConfiguredUpstream`, `WorksConfigured`, `AttributesCurrent`, `PullReturns` |

A diamond with an output on one branch is the smallest graph where a link
queues up: reading the branch twice spills the other branch's slot into its
queue. Seven calls let an output fall behind by three, be reset and catch up.
`PullReturns` assumes weak fairness of the steps of a pull: it is a running
function call, nothing else runs in its thread.

`StreamOK` is stated for one origin, and no run has two: `reset` clears what is
downstream of input ports only, so in a network with a source as well the
source's links keep their packets over a reset, although `Network.hh:408` says
that all are reset (a hazard entry). Another slip has no run: `putEos` puts
`lastNonData_`, as `putOod` does, whichever sentinel that is; both actions say
so.

Proved in `FlowNetworkProofs` for every graph, finite or not: `TypeCorrect`,
`LinksKeepOrder` (`SlotOrQueue`), `UpstreamConfigured`, `WorkConfigured`. The
invariant adds three facts. `Upstream`: where a link has attributes so have
the inputs of the node it comes from. This is kept by erasure because
`Successors` is closed downstream, and by configuration because `Cone` is
closed upstream through unconfigured links, the network's own links included.
`Siblings`: the links of a node have attributes together; this is why it is
enough to look at one. `Working`: each call of `work` under way was made for a
configured link, so by `Upstream` its inputs are configured, and it reads at
most as many links as the node has inputs (which gives the type of the
demanded link). Assumptions: the graph is a graph (`GraphAssumption`),
the bounds are numbers.

`AttributesUpToDate` proves `AttributesCurrent` for every graph, under
`~LateAttributes`: the attributes of a link are its node's parameter and what
the links into that node have. A parameter change keeps this because what
depends on it is erased (`ErasedCurrent`). Configuration computes a least fixed
point: `ConfiguredCurrent` uses that the set of derived tokens is the smallest one
closed under the rules, so that the derived attributes of a link are exactly
those of one step back, without an induction over the graph. The hypothesis is
needed: late attributes at an input port do not reach configured links
downstream.

`OneStream` proves the refinement `StreamOK` for every graph without cycles, of
any size, that has one origin of data (`Streaming`): one input port, with
attributes put before the network is configured and no node with a parameter
behind it, or one source, whose parameters may be set at any time. Splits, joins
and the outputs' positions are arbitrary. `flow_input` is an instance. Beyond
that the property is false, not only unproved: a parameter in the middle of the
graph, or late attributes, clear some links and leave others.
The invariant is a witness: numbers `made`, how many packets each node has put
since the last restart, such that a configured link holds exactly the origin's
packets between what the node below has read of it and what the node above has
put (`Inside`, `Outside`; slot and queue together are `Pending`), and a call of
`work()` under way has read the same next packet from every link it got to
(`Reading`), which makes what a join puts that very packet (`MergedIs`). What
makes it inductive is in the conjuncts around it: a node whose links have no
attributes has put nothing (`Still`), so that configuring it, which clears its
links, loses nothing, since what is downstream has no attributes either; if any
link has attributes the source's have (`SourceFirst`), so that the source
restarts only with everything else (`ConeReachesSource`); and calls go upstream
by rank (`Upwards`), so that no node is in two calls at once. A source whose
parameter was set is not `Running`: its links still hold packets that nobody can
read before they are cleared, and the witness is claimed anew at the restart.
Ranks, which exist for any acyclic graph that is finite, replace an induction
over paths: a set of nodes has a lowest one (`Lowest`).

Model-checked only: liveness (`PullReturns`).

Left out: `go()` with its sinks, nested networks, nodes with several output
ports, sources that fail to open (configuration always succeeds),
`putAttributes` on a configured network (excluded with `LateAttributes`: the
code leaves the attributes downstream as they were, and promises nothing), the
contents of attributes and data.

## 5. ObjectCache

`ObjectCache` is the template with `MruObjectCacheList`. `order` and `table` are
the list and its hash table, `files` the directories, `dir`, `mode` and
`maxSize` the settings. A call that has to make room is under way in `call`: it
runs the loop of `writeBack` item by item, and an item takes the steps a failure
or a crash can fall between: `OpenFile` (the file is truncated), `WriteItem` or
`WriteFails`, or `DropClean` for an object that was not changed. `OpenFails`
leaves the item where it is; the loops of the code then try it again, `save`
gives up. An object is a number, the client's n-th change makes value n; `ref` is
the reference the client holds, which every access but `setMaxSize` ends.

`WriteBackStore` is the promise: per directory and key a current object and
what the file holds. `Change`, `Clear`, `BeginSave`, `EndSave`, `Crash` are what
one expects. `Lose` is the price of two things the code does: an object whose
file could not be written leaves memory all the same, and so does one that a
client changed although it had found it for reading (`Scribble`). The refinement
maps the current object to `Found`: memory first, then the file, nothing while
the directory is being cleared.

| Run | Checks | Bounds |
|---|---|---|
| `objectcache` | `MemoryBounded`, `ReferenceValid`, the refinement `StoreOK`, `CallReturns` | 2 directories, 3 keys, sizes 1 and 2, both modes, 2 changes, 1 crash, files that fail |
| `objectcache_scribble` | **violated**: `ScribbleNotSaved` | 1 directory, 2 keys, 2 changes, no failure |

Three keys over a size of two give an order in which the wrong one could be
evicted; two sizes give `setMaxSize` with objects to drop; two directories give
a switch with dirty objects. Fairness: a call, once made, runs on (weak fairness
of its steps), and a file that is opened again and again opens in the end
(strong fairness of `OpenFile`; without it the loops of the code do not end).
`objectcache_scribble` is `Speech/AffineFeatureTransformEstimator.cc`: what it
finds for reading it finalizes and compacts "without writing the modification
back to cache", and an object that was dirty before is written back like that.

Proved in `ObjectCacheProofs`, for any directories, keys, sizes, bounds and any
choice of what may fail: `TypeCorrect`, `MemoryBound`, `ReferencesStay`, and
`CacheImplementsStore`, the whole refinement. The invariant is `IInv == Types /\
Listing /\ CallOK /\ WritingOK /\ RefOK /\ MemoryBounded`. `Listing`: `order`
lists the keys of `table`, each once. `CallOK`: what a call found when it began
still holds, above all that the key to be loaded is not in memory and that the
loop stops at `maxSize - 1`. `RefOK` is what makes references safe: the object a
client refers to comes *first*, and only `resize` runs while there is one; its
victim is the *last* of at least two. The refinement needs `CleanSaved` as well:
an object in memory that is not dirty equals its file, unless the file is torn
or the object was changed after it was found for reading. This is why dropping
it loses nothing, or is a `Lose`. `CallReturns` is liveness and only
model-checked. Assumptions: sizes are at least 1 (`parameterObjectCacheSize`),
`None` is no key, the bounds are numbers.

Left out: the list with random eviction, dump files, what an object is.

## 6. Recognizer delay and batch scorers

`RecognizerDelay` is the delay handler under two of its drivers: `speech` resets handler and scorer at the start of a segment
(`Speech/DelayedRecognizer.cc`), `flf` resets the handler at the end of one
(`Flf/Recognizer.cc`) and may abandon a segment. A third user,
`Flf/IncrementalRecognizer.cc`, drains and resets it at the end of a segment as
`flf` does, but also resets it within a segment to feed a stretch of it again
(`:738-743`), and builds a second handler on the same scorer to fill a cache
(`:1859-1863`); it is not modelled. `BatchScorer` holds the two
rings as operators on a record: `ring` (which feature is at a position),
`scored` (what the cached score of a position was computed from), `filled`,
`cur`. The search may ask for a score or not; a score is represented by the
feature it was computed from, so that a stale or shifted score is visible.

| Run | Checks | Bounds |
|---|---|---|
| `recognizer_delay` | `InStep`: the ring holds the first features of the delay buffer, from its position on. `RequirementsKept`: the documented requirements of `getScorer` and `flush`. `OwnScore`: a score is its feature's. `FedInOrder`: each feature once, in order, with its look-ahead. `EmptyAtTheEnd` | ring sizes 1 to 4, look-aheads 0, 1, 2, 4, three kinds of scorer, both drivers, 2 segments, 11 features |
| `recognizer_flushed` | **violated**: `FlushedOwnScore`, the last feature of a segment scored as zeros | 5 features, 1 segment |

Ring sizes and look-aheads cover every order of the two, equality included;
eleven features over two segments allow the ring of 4 to go round twice and a
segment shorter than either buffer on both sides. TLC stops at the end of the
last segment: deadlock is not an error there. `Mm`'s scorer is not run under
`flf`: its ring would start in the middle in the second segment (a hazard
entry). The loops of the code, over a flush and over the positions of a ring, are
closed forms in the model; `LoopsAtOnce` compares them with the loops round by
round (`DrainLoop`, `LoadLoop`: recursive functions over the rounds) in every
state of the run. Not modelled: the cache of context scorers, which several
recognizers share.

Proved in `RecognizerDelayProofs`, for every ring size, look-ahead and both drivers and
segments of any length: `WellTyped`, `KeepsRequirements`, `NothingLeft` and
`FeedsInOrder`. The invariant is `CInv == Types /\ Counted /\ InOrder /\
RequirementsKept`. `Counted` ties the number of positions in use to the length
of the delay buffer; this is where the code's `offset_` and the scorer's own
buffer size have to agree. `InOrder`: the buffer holds consecutive features, the
one before them is the one the search got last. `LoopsAsClosed` (`LoopsAtOnce`)
is by induction over the rounds of either loop: `DrainedByNext` and `LoadedToNext`
say how far one round gets.

`RingInStep` (`InStep`) and `ScoresItsOwn` (`OwnScore`) hold under `MmIsReset`: a
ring of `Mm` is used by the driver that resets it. The hypothesis is the
condition the run is restricted to, and it cannot be dropped: see the hazard at
`Speech/DelayedRecognizer.cc:68`. The invariant adds `Holds`, that the window of
the ring from the current position on holds the first features of the delay
buffer and, if any, their scores. The work is in the arithmetic of positions
modulo the ring size (`AtValue`, `AtInjective`, `AtEnds`). A ring has at least
one position; `Mm`'s parameter `buffer-size` would allow none.

## 7. TraceManager

A trace id is a word: the low 24 bits a position in the table of items, the high
8 bits 0, or a small modification plus one, or 255: then the low part is a
position in the table of modifications. Here it is a record of the two parts,
with the widths as constants (`W`, `Full`); a position beyond `W` runs into the
high part (`AsId`), as it does in the code. The tables are `SparseVector`s with
their free lists. The actions are the steps of a frame that touch ids:
`StartTree` (new items), `ExpandHmm` (copies, drops), `Correct` (modifications),
`Cleanup` or `NoCleanup`, `Rescore` (a new item with the old modification),
`EndFrame`, and `ClearSpace` between segments. Which hypotheses survive is left
open, so every outcome of pruning and scoring is included. Beside its id, each
hypothesis carries the item and the modification it should lead to (`item`,
`m`), read by the properties only.

| Run | Checks | Bounds |
|---|---|---|
| `trace_manager` | `FreeListExact`, `Addressable`, `ResolvesOwn`, `OwnCorrection`, `CleanupExact` | 2 items, 2 states, 4 frames, 1 new item per frame, cleanup every 2 frames, `W = 8`, `Full = 2` |
| `trace_state` | **violated**: `AllRetrieved`: a small modification loses the state | 1 item, 1 state |

`Full = 2` leaves one value for modifications that fit into the id; the two
modifications of the run are one that fits and one that does not. Four frames
with a cleanup every second are two cleanups with reuse of positions in between.
`W = 8` is enough for the tables of these frames (`Addressable`, which is
checked), and small enough that `NeedCleanup` fires. Items and states are
symmetric: nothing compares them.

Proved in `TraceManagerProofs`, for all widths, items, modifications and bounds:
`TypeCorrect`, `FreeListsExact`, `IdsResolve`, `CorrectionsKept`,
`CleanupsExact`, each of the form `Spec /\ []Addressable => ...`. The
invariant is that both tables are well formed (`Vector`: types, and the free list
names the unused positions once each), `Shape` of the hypotheses' tables, and for
each hypothesis `Own(h)`: its id leads to its item, directly, under a small
modification, or through an entry of the table of modifications that is in use
and whose own id is plain. `CleanupsExact` follows because visiting marks the
positions under modifications as well, and filtering keeps exactly the marked
ones.

Nothing in `modify()` or `insert()` ensures `Addressable`: `NeedCleanup` looks at
the number of items only, and what bounds the table of modifications is that a
cleanup happens every `CleanupInterval` frames. `TraceManagerRoom` says what it
takes: with `P` states in the tree and at most `F` new items a frame, `Room`
demands `P + CleanupInterval * (P + F) <= W` for the modifications and `P +
(CleanupInterval + 1) * F <= W` for the items. `AlwaysAddressable` proves `Room
=> (Spec => []Addressable)`, and `RoomSuffices` the five theorems above without
their hypothesis. The invariant `Bounded` counts the positions in use by the
phase of the frame and the frames since the last cleanup (`Uncollected`); TLC
has checked it too. The bound is sharp: in the instance of `trace_manager` it
equals `W`, and states with all eight modifications in use are reached. In the
code `W` is 2^24 and the interval is 10 by default, which leaves room for several
hundred thousand states per frame; but the parameter has no upper limit.

## 8. The disagreements found

| Run | The code | What it contradicts |
|---|---|---|
| `threadpool_nostart` | `init` ignores a failed `start()`: `wait` never returns | `Core/ThreadPool.hh:292` |
| `archive_recover` | `recover()` leaves `changed_` set: a write goes over the table, the flag stays 1 | `Core/FileArchive.cc:30-31` |
| `objectcache_scribble` | an object that was found for reading and finalized is written back | `Speech/AffineFeatureTransformEstimator.cc:82-84` |
| `recognizer_flushed` | `flush()` clears the ring before the last scorer is asked | `Nn/BatchFeatureScorer.hh:145` |
| `trace_state` | a modification that fits into the id drops its third value | `Search/AdvancedTreeSearch/TraceManager.hh:235-236` |

`PROJECT.json` ("findings") gives each with its lines and quotations.

## 9. Proved, model-checked, not modelled

Proved for every value of the constants (TLAPS): the safety of the thread pool's
counters, tasks and shutdown, with the refinement of `MapReduce`; of the archive's
segments without crashes, with the refinement of `ArchiveStore`, of its types
and its flag with crashes, of its files at the first crash and at every
`recover()`; of the flow network's links, configuration and attributes,
with the refinement of `FlowStream`; of the object cache, with its refinement; of
the recognizer delay and its scorers; of trace ids, and how wide they have to be.
Two of these have a hypothesis on the configuration that the code does not ensure
by itself, `MmIsReset` and `Room`, one the run's `~LateAttributes`, and the
stream of a flow network one on its graph, `Streaming`; each is explained in its
section.

Model-checked only: liveness (`CallReturns`, `EveryTaskMapped`, `PullReturns`).
Fairness and `ENABLED` are beyond the provers, and so are the library's induction theorems, which take an operator as a
parameter. Induction over a set of numbers is not: the scan of an archive and
the loops of the recognizer delay are done that way, and so are the ranks of the
nodes of a network.

Not modelled:

* Numerics (`Math`, `Nn`, `Mm`, `Am`, `Signal` transforms): floating point, which
  TLA+ cannot enumerate; this is most of the code.
* Automata libraries (`Fsa`, `Flf`, `OpenFst`, `Lattice`): large and pure.
* The beam search itself: what survives is decided by scores; the trace model
  leaves it open.
* Text formats and configuration: parsing, no state that evolves.
* `CacheManager`, directory and mapped archives: I/O around a few lines.
* Failing streams in the archive (a full disk is reported as success).
* `SimpleThreadPool`: nothing instantiates it.
* `Flf/IncrementalRecognizer.cc`: its two handlers with a shared cache, see
  section 6.

## 10. Plan

Done: the thread pool, the archive with crashes, the flow network, the object
cache, the recognizer delay, the trace manager; four abstract specifications and
refinements; proofs about all six.

Left, in this order:

1. `CacheNode` on the abstract archive: contexts, attributes and data in two
   writes, an unfinished pull, a crash; composed with `ArchiveStore`.
2. `SlidingWindow` with `Delay`; `Cutter`; `Lm::HistoryManager`.
3. Extensions: failing configuration and `go()` in `FlowNetwork`, a failing stream
   in `FileArchive`, the cache of context scorers in `RecognizerDelay`.
