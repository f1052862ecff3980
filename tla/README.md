# DeepProve in TLA+

This directory holds a specification of the control of DeepProve: the graph
framework of `zkml`, the partitions its proofs are distributed by, the worker of
`deep-prove` that takes jobs from a gateway, the tensor stores an inference
writes to and a proof reads from, the cache of downloaded parameters, and the
cutting of a model into chunks. TLC checks the specifications on small
instances; TLAPS proves every safety property that a passing run checks for every value of
the constants.
Paths below are relative to the repository; line numbers of every definition are
in `PROJECT.json` under `map`.

Contents

1. The system
2. The modules and how they correspond to the code
3. The runs: bounds, fairness, what they show
4. Where code and documentation disagree
5. What is proved
6. What is only model-checked, and what is not modelled
7. Plan


## 1. The system

DeepProve proves that the output of a neural network was computed by that
network. A *client* sends a request to a *gateway* (not in this repository),
which splits it in jobs and hands them to *workers*. A job is an inference and the
splitting of its trace (chunk 0), the proof of one chunk of the model (chunk
i), or the aggregation of the chunk proofs. All three are partitions of one graph,
so the same executor code runs them. Tensors do not travel in the jobs: a trace is
*dried* (its handles keep only storage keys) and the tensors are in a store.

    gateway --job--> worker loop --> process_job --> PartitionScheduler --> executor --> GraphScheduler
       ^                |                |                                      |
       +----result------+                +--> Model::run --> runners --> tensor store (disk, HTTP server)

| component (source) | state | operations | hard behaviour |
|---|---|---|---|
| Graph scheduler (`zkml/src/graph/scheduler.rs`) | release policy, edge weights, `waiting_input_data`, `running_nodes`, `done_nodes` | `with_release_policy`, `init_nodes`, `mark_done`, `next_ready_nodes`, `is_done` | completions in any order; a release policy asked node by node in the order of a hash map; a failure halfway through `mark_done` |
| Executors (`zkml/src/graph/executor.rs`) | ready batch, channel, rayon tasks | `SequentialExecutor::run`, `ThreadPoolExecutor::run` | tasks that fail or panic while others run; a coordinator that blocks a pool thread; the pool overrides the caller's policy |
| Partitioning (`zkml/src/graph/partition.rs`) | a queue of partitions and `pending_child_outputs` per colour | `partition_by`, `try_run_partition`, `set_child_partition_output`, `is_done` | outputs late, twice, out of order; queues that might wait for one another |
| Prover graph (`zkml/src/iop/prover.rs`, `prover_graph.rs`, `model/exec_graph.rs`) | none (built once) | `build_execution_graph` | chunk proofs must reach the final node in the order of the chunks |
| Worker for a gateway (`deep-prove/src/bin/worker/lpn/`) | the job in hand, the retry counter | the loop of `http.rs`, `process_job`, `run_chunk_partition` | jobs early, twice, in any order; lost answers and retries; crashes |
| Tensor store, local (`tenstore/src/local.rs`, `genstore.rs`) | keys per run, LRU cache, files, the mutex's poison flag | fetch, store, clean-up, `in_new_run`, `with_run_id` | failing writes, shared files, a panic under the mutex |
| Inference runners (`zkml/src/model/mod.rs`, `trace.rs`, `tensor/handle.rs`) | use counts, handles with or without data, the channel to the saver thread | `model_inputs`, `run_layer`, drop of each of the stacked runners | a thread that saves what the inference has already dropped; errors seen only when it is joined |
| Tensor store, remote (`tenstore/src/remote/client.rs`) | a command queue, a map of prefetches, tasks, a local copy, the server's data | get, prefetch, put, clean-up, kill, with retries | a server that carries a request out twice, late or without a reply; prefetches that end between other commands; local copies of two runs in one file |
| Model and parameter store (`deep-prove/src/store.rs`) | objects, a lock file, partial files, sidecars | `download_object`, plain gets and puts | several processes on one cache, a kill between any two file operations, an object replaced meanwhile |
| Worker without a gateway (`deep-prove/src/bin/worker/api.rs`) | two queues behind a mutex | submit, fetch a proof, prove | order of proofs handed back |
| Graph building (`zkml/src/graph/graph.rs`) | nodes and links | insert, remove, relink, iterate | consistency of the node table and the links |
| Chunking (`zkml/src/iop/chunking.rs`) | the counters of `split`, a subgraph per chunk | `split`, `build_chunks`, `visit_chunks` | counters that run out in the middle of a split; a row of chunks that share one layer |
| Layers, quantization, sum-checks, commitments (`zkml/src/layers`, `quantization`, `iop`, `poly_commit`, `lookup`) | numbers | arithmetic | arithmetic, not control |
| LLM driver (`zkml/src/model/llm.rs`) | concatenation caches | one inference per token | one storage key per tensor and token |
| SoC model (`arkhe-soc-tlm`) | frame and block tables; counters | fountain code, signed frames | frames lost and reordered, a change of session |
| Command line, messages, telemetry, viewer, physics crates, Lean and Python files | - | input and output, simulation | none that another component relies on |

What makes the modelled ones correct, in one sentence each:

* Scheduler: a node starts once, after all its predecessors, with the right datum
  on each port, and what nobody consumes is an output of the graph.
* Executors: `run` returns `Ok` only for a complete graph, and it is known when it does not return.
* Partitions: running the parts gives what running the whole gives, whatever the
  order of delivery, and the parts never wait for one another.
* Worker: the final proof has every chunk in its place, and no job is dropped
  silently or kept for ever.
* Inference and store: no layer reads a tensor whose data are gone; memory is
  given back; once a trace is returned each of its tensors can be loaded from
  the store; what a run stored is removed when it ends.
* Remote store: every get and put is answered, a get returns what the last put left
  on the server or something older or stored locally of which it is known why, and a client
  that is gone has left nothing of a run it cleaned up.
* Download cache: what enters the cache was verified, what is served is the
  object, and every call returns.
* Chunking: no layer and no link of the model is lost or doubled, the chunks are even,
  and they are visited in an order that their dependencies allow.

The hazards, each at the line where it bites, are listed in `PROJECT.json` with the
properties that watch it.


## 2. The modules and how they correspond to the code

**`DagExecution`** is the abstract specification: nodes start once, after their
predecessors finished; finished nodes give results; a run may be aborted. It says
nothing of edges, payloads, waiting inputs or policies.

**`GraphScheduler`** is `scheduler.rs`, one action per public operation, under any
caller. `weight` is the `Option` on each edge, `waiting` is `waiting_input_data`,
`running` and `done` the two hash sets. A payload is abstracted to where it
comes from (`In(n, p)`, `Out(n, p)`), so a datum on the wrong edge or port is a
different datum. `Accepted(R)` is what `ReleasePolicy::accept` lets through
when it is asked about the candidates one after the other in the order of a hash
map: under `UniqueColoring` a maximal set of distinct, unoccupied colours. `policy` is
`release_policy`: a scheduler begins with `UniqueColoring`, and `WithReleasePolicy` sets it before
`init_nodes`. `Execute` stands for the other operations, `Stop` for the end of an execution.
`MarkDoneErr` is the failure on an edge of several links, which is discovered after
part of the work is done. `given` and `outputs` are history variables: the
arguments each node was released with and what `mark_done` returned.

**`ThreadPoolExecutor`** and **`SequentialExecutor`** extend it: their actions are the
lines of the two `run` functions, each conjoined with the scheduler operation it
calls; **`Executors`** is the trait they implement, chosen at the start, and states
the contract of `run` for both. The caller comes with a scheduler of either policy
(`CallerPolicy`); the sequential executor keeps it, and the first thing the pool does is
`scheduler.with_release_policy(ReleasePolicy::All)` (`executor.rs:182`), the action `ReleaseAll`, so
that in the pool nodes of one colour do run together. In the pool the coordinator (`pc`) occupies a thread of the rayon pool until
its closure returns (`FreeThreads`), tasks are `queued`, `executing` and `over`, and
a send to a receiver that was dropped is a panic. rayon and crossbeam are external.

**`Partitioning`** has `partition_by` as operators (components of one colour found in
topological order, the edges between them, the root, the checks of
`Partition::new`) and what executing a graph or a part of it computes; a value
is its own history. **`PartitionScheduler`** puts one scheduler per colour
side by side with a network that delays, reorders and repeats the outputs sent from
one to another. **`ProverGraph`** instantiates it with the graph that
`build_execution_graph` makes for `NumChunks` chunks.

**`DistributedProving`** is the worker loop and `process_job`. The partitions of the
prover graph are run by one operator each (`RunSource`, `RunChunk`, `Aggregate`);
that these are what the partition schedulers give is what `RoutesOfProving` and
`ProofAndIO` of `ProverGraph` check. The gateway is external and assumed of nothing: it
hands out any job at any time with any results it has been sent, and forgets which came
first.

**`DiskStore`** is one process's local store: the effect of each operation on the
keys, the cache, the files and the mutex's poison flag, as operators that a caller
conjoins with its own step (each holds the mutex from first to last line). A store may
fail when the file is created, when it is written, or silently when the `BufWriter` is
dropped. Eviction may take any entry. **`InferenceRun`** composes it with
`Model::run`: the actions are the start of a run, a layer as all three runners see
it, the saver thread, the join in the drop of `StoreRunner`, the clean-up of
`in_new_run`, the loading of a dried trace by later jobs until the gateway has no
more of them, and the death of the process. Whether a worker proves in memory and cleans up (`"job"`) or dries the trace and
keeps it for later jobs (`"plan"`) is chosen in `Init`, as the worker's command
line does.

**`DownloadCache`** is `download_object`, every file operation an action of its own, by
several processes on one directory: the three calls of `cache_valid`, the removal of a
stale file, the lock file (an inode that may be unlinked while another process
holds it open), resumption of the `.partial` file, `If-Match` and range requests, the
second GET when the server knows no ranges (which may fail too), the running digest, rename and sidecar. A file is the sequence of its blocks. A process may be
killed at any step, its lock goes with it, and the object in S3 may be replaced.

**`RemoteStore`** is the client of `remote/client.rs`: the calls (one at a time, behind
the mutex of `GenStore`), the branches of the worker's `select!` that take a finished prefetch or a command, the spawned
tasks and the awaited `put`, `Kill` and `join_all`, and an external server whose
connection may break before or after it has the request, or leave it to be carried out
later. The worker's local store has an entry per key (`local`: in memory, on disk, unknown) and a file per
`FileOf(k)`: `InternalKey::rooted_at` (`local.rs:37`) leaves out the run, so the copies of one tensor that two
runs prefetch are in one file. Once one of them is out of memory a get reads what was stored last for either; and
when the clean-up of one run has removed the file, a get of the other panics in `file_size` (`local.rs:20`) and
the worker is `"dead"` (`GetPanics`, `SendFails`). `promised` and `erased` are history variables: what a get may
return, and the runs of which nothing may be left. A put that succeeds promises its own data and what is older and
still under way (`Older`: a local copy, a finished prefetch, a put given up that the server may still carry out, an
unknown key if a clean-up of the run is); a prefetch stored in the same file adds its data
to the promise of the other run's key (`Overwritten`). The branch of the `select!` that joins finished tasks only
logs, or passes a task's panic on; no task panics here, since what it sends to has a receiver.

**`Chunking`** is `DefaultChunkingStrategy::split` node by node (the groups of
splittable layers, the allotment of chunks to them, the placing of whole nodes, pieces, split
and recombination layers with the counters the code keeps), then `build_chunks` and
`visit_chunks`. Where the code would index past its subgraphs, take a counter below zero or return
an error, the state is `"failed"`. Two rows of pieces with no whole node between them (two branches
that are split) take `num_vertical_chunks` from one to zero and below (`chunking.rs:1389`): that panics
where overflow is checked, as in the profile of the tests, which is what the model does; the release
profile wraps.

`MC...` modules give the graphs and shapes that a `.cfg` cannot write; the
`...Proofs` modules hold the theorems. Operators named `Bug...` stand before
the definition they are a plausible mistake of; nothing refers to them, they
are there to be put in its place to see which property notices.


## 3. The runs

| run | module | instance | distinct states |
|---|---|---|---|
| `scheduler_color` | `MCGraphScheduler` | every DAG on 4 nodes, every 2-colouring; both policies; shared, unused and caller-fed ports; 4 graphs with multi-link edges | 24,006 |
| `executors` | `MCExecutors` | both executors; diamond, chains, join, fork with one, two and four colours, some with multi-link edges, one with a source that is not fed; callers of both policies; pools of 1 to 3 threads; two nodes that may fail, two that may panic | 9,352 |
| `partition` | `MCPartitionScheduler` | the prover graph of 3 chunks, and every DAG with one sink on 4 nodes with every supported 3-colouring | 15,318 |
| `proving` | `MCDistributedProving` | 2 chunks, 2 workers, 4 jobs, up to 3 results in an aggregation job, 2 tries | 129,668 |
| `inference` | `MCInferenceRun` | 2 runs of 2 layers with a skip connection, a doubled link and proving data; one failing store, one crash | 139,537 |
| `download` | `MCDownloadCache` | 2 processes, 3 calls, an object of two blocks replaced by one of one block or the reverse, with an etag only or with a sha256 only; one kill; 2 tries of everything | 746,175 |
| `remote` | `MCRemoteStore` | one tensor of 2 runs (2 keys, one local file), put before by another process; 4 calls, 2 faults of the server or the connection, 2 tries | 1,464,566 |
| `chunking` | `MCChunking` | every graph of 4 and 5 nodes, a path of 4 whose dimension changes, paths of 7 with skips; any splittable layers; two branches of split layers; 1 to 8 chunks | 1,616,152 |
| `executor_error`, `plans_interleaved`, `download_mixed`, `chunking_path` | see section 4 | the smallest instance that shows the disagreement | - |

**What they show.**

* `scheduler_color`: exact edge contents, arguments in their places, at
  most one released node per colour (`ColorExclusion`; sources are exempt because
  `init_nodes` does not ask the policy), refinement of `DagExecution`, completion.
* `executors`: what `Ok` means, with nothing left behind; that each executor knows
  where every running node is (batch, task, message, or lost to a panic); that
  `run` returns except in three cases, named by `Hangs`, in which it never does: a pool of one thread, which the
  coordinator keeps to itself; a task that panics while the coordinator listens, whose `recv` cannot fail since it
  holds a sender itself; and a source that was given no input, over which the sequential executor spins, unless a
  failure ends the run. `RunReturns` states both directions, so that a fourth case would violate it, and so would a
  repair of the three.
* `partition`: nothing lost, nothing invented, no slot of `pending` that nobody will
  empty, no output refused, no deadlock between queues, and for the prover graph the
  routes and the order of chunk proofs.
* `proving`: complete and ordered final proofs, grounded results, answered jobs.
* `inference`: layers find their data, handles are freed, a returned trace is
  readable, clean-up is complete, runs end.
* `download`: what is moved into the cache has the checksum that HEAD gave; while the
  object stays what it is, a caller maps exactly it; every call returns. The first
  two say nothing once two processes have held a lock at once (`overlap`), which
  unlinking the lock file while it is held makes possible (a hazard with a note).
* `remote`: one map entry per prefetch under way; after a put, gets return what is promised (the data of the put,
  what was older and still under way, or what was stored for the other run in the same file) and nothing else;
  nothing left of an erased run after the worker has stopped or died; every call
  is answered. So the run shows that a prefetched copy outlives a put, that a clean-up sent before a put can delete
  what it stored, and that a get can return another run's data, and that nothing worse happens. `LatePuts` names when
  `clean_up` promises nothing: a put of the run was given up and may still be carried out.
* `chunking`: a node is left for each chunk that is left, so that no counter goes below zero; without
  splitting the chunks are even and as many as asked; the chunks together are the model; the visits respect dependencies
  and end.

**Bounds.** Four nodes are the least with a diamond (two paths that meet), a fork
of three and a join of three, and all orders of completion and all DAGs are
covered, so a wrong dependency count, port or colour shows. Three threads are a
coordinator and two tasks at once; with two threads nothing overlaps, and with one nothing runs; the pool has any
of the three sizes. Three chunks
make the order of proofs matter beyond a swap. Four jobs
are one inference, two chunks and an aggregation, or fewer of them and a repetition, by two
workers that interleave; `ATTEMPTS = 2` (5 in the code) has a first and a last try.
`MaxProofs = 3` is one result of each of the three chunk jobs. Two layers with a doubled link, a skip
and an output that is also an input to a layer exercise every term of the use
count; `MaxFaults = 1` and `MaxCrashes = 1` put each fault and the crash at every point, and two runs let the
second meet what the first left. In `download` one process calls twice, so that its second call meets what the
lock of its first has left to the other; two blocks are what a partial file, a resumption
and a shorter replacement need. An object with both kinds of metadata does nothing that one with a sha256 only does not: the etag occurs
only in `If-Match`, which turns a GET of a replaced object into a failure that is possible anyway. In `remote` four calls are a put, a prefetch, a get and one that
interferes; two faults on a call with `Attempts = 2` use its tries up; two keys with one file are
the least that can overwrite each other, and data put before let a prefetch find something without a put of its own. Five nodes and eight
chunks let a row of pieces be longer than the chunks left; paths of seven have split layers
with several whole chunks between them, and two branches have two rows that follow each other. Counters stop at their bounds by guards
(`MaxJobs`, `MaxCalls`, `MaxReplaced`, `MaxFaults`, `MaxCrashes`), so no state constraint hides states.
No symmetry is declared, since most runs check liveness. The theorems of
section 5 hold without these bounds.

**Assumptions on inputs.** Graphs are acyclic with input ports numbered from 0
(`IsGraph`, `MkGraph`). `Completes` needs every source
to be fed (`SourcesFed`). `partition` takes
the graphs that meet `Supported` in `Partitioning.tla`: accepted by `partition_by`, and with
crossing edges that go from a root to a source, at most one per ordered pair of
colours; `partition_by` does not check the second part, and the prover graph satisfies
it (an `ASSUME` that TLC evaluates). `InferenceRun` takes models whose layers are in
topological order and whose outputs are all linked (`ForwardOrder`). A plan starts only
when no other is under way, except in `plans_interleaved`. `Chunking` takes models in which
every node is read by another or by an output, and splittable layers with one input.

**Fairness.** `GraphScheduler`: weak fairness of `Execute`, because both executors call
on until `is_done`; nobody has to choose a policy. `Executors`: weak fairness of the coordinator, of each
task, which are threads or jobs of a pool that the operating system and rayon
schedule, and of the one thread of the sequential executor. `PartitionScheduler`: of
`Next`, since whoever drives the schedulers runs what is ready and delivers what
was sent; losses are not assumed away for the worker, whose module has no such
fairness. `DistributedProving`: of processing and reporting by each worker, not of the
gateway, of crashes or of restarts. `InferenceRun`: of the two threads; jobs, clean-up
and crashes are not fair. `DownloadCache`: of the steps each process takes inside
`download_object`, not of calls, kills or replacements. `RemoteStore`: of the worker, which takes some branch of its
`select!` that is ready (not of each branch), and of the calls to the server together, one of which gets a reply, a
refusal or a broken connection; without the latter a get may wait for ever, since the code sets no
timeout for it. `Chunking` has no liveness property: that it ends is part of
`VisitedInOrder` (no pass without progress) and of its bounded counters.

Deadlock is checked in `scheduler_color`. It is off elsewhere: there
the system may really stop (a `recv` that never returns, all jobs handed out, every
run or call over, a refused output, chunks visited).


## 4. Where code and documentation disagree

Each has a run whose single property is what the comment says and whose trace is the
code's behaviour. Details are in `PROJECT.json` under `findings`.

* `executor_error` (`executor.rs:231`): an error of one node while another still
  runs comes out of `run` as a panic, not as the error line 54 promises.
* `plans_interleaved` (`local.rs:37`): file names leave out the run, so two plans on
  one local store overwrite each other, although `genstore.rs:30` tells runs apart.
* `download_mixed` (`store.rs:653`): `If-Match` compares with the etag of this call's
  HEAD, not with that of the object the partial file was begun with; after a kill and a
  replacement the two are mixed, which lines 650-652 say is prevented.
* `chunking_path` (`chunking.rs:1389`): a path with one splittable layer, cut in five
  chunks, runs out of vertical chunks and `split` panics. The theorems on `Chunking` say what holds
  all the same: what is returned is right, also where `split` does not always return.

Three more are listed as hazards with a note instead of a run: a node that panics in the
thread pool leaves the coordinator waiting for ever (`executor.rs:220`; `RunReturns`
says so); two partitions of one colour that feed a third share a slot
(`partition.rs:751`; the prover's graphs do not have this shape, and `Supported` excludes
it); an input without a link is dried before `StoreRunner` sends it
(`model/mod.rs:1032`; `ForwardOrder` excludes it).


## 5. What is proved

**`GraphSchedulerProofs`**, for any nodes, colours and set of graphs with
`GraphsAssumption`, `NoDataAssumption`, and either policy, whenever it was set. The inductive invariant is

    IInv == TypeOK /\ DependencyOrder /\ EdgeHoldsItsDatum /\ WaitingExact
            /\ ArgumentsRouted /\ OutputsExact /\ ColorExclusion

The parts need each other. `mark_done` fills only edges to nodes that have not
started (`Filled`); that this is all of them (`FilledIsOutgoing`) follows from
`DependencyOrder`, and `OutputsExact` and `EdgeHoldsItsDatum` rest on it. That a released
node has all its predecessors done follows from `EdgeHoldsItsDatum`, and that it gets the right
arguments also from `WaitingExact` (what `init_nodes` kept back is exactly the
feeds of unreleased nodes), which no run states but the induction needs. One
lemma per operation, then `Invariance`, `TypeCorrectness`, `SchedulerSafety`,
`NeverReexecutes`, and `Refinement` (`Spec => Dag!DagSpec`), which uses `IInv` to show that
what `mark_done` returns is what `DagExecution` adds to its results. The
acyclicity of the graph is not needed for safety: on a cycle nothing is ever ready.
`ColorsExclude` is one conjunct of `IInv`; `PayloadsInPlace` says that the arguments of a node are a
vector without gaps, with the datum of each port in its place. It takes that the input
ports of each node are consecutive (`ConsecutivePorts`), which `GraphScheduler` does not
ask of a graph: with a port left out the arguments behind it would move up by one. TLC evaluates it
for all graphs of the runs.

**`PartitionProofs`**, for any colours, numbers of partitions and graphs that `partition_by` accepts
(`Supported`), and for the prover graph of any number of chunks without that hypothesis. What makes the
difference to the scheduler is recursion over data, which is done by looking at a minimal node
that breaks a claim (`Least`, `HasMinimal`). `ArgumentsEquation` gives the recursive definition of the arguments
its equation, and `PartitionAgrees` is the core: a partition that is given the outputs of its
children computes for each of its nodes what the whole graph computes. `ForwardVisitsAll` says that the
search for partitions in topological order finds them all, so that the queues are what is pending. The
invariant is

    IInv == Shape /\ Routed /\ ResultsOfGraph /\ NothingMissing

`Routed`: an output in a slot or in the network is that of the partition it names, in the graph; with
`PartitionAgrees` the next output is that, too. `NothingMissing`: a partition that is no
longer queued has given its outputs of the graph, unless its colour failed. Hence `PartitionTypeOK`, `PartitionResults`, `PartitionPending` and `PartitionNothingLost`.
`ProverGraphSupported` shows that the graph of `build_execution_graph` satisfies `IsGraph` and
`Supported` for every number of chunks, so that the hypothesis is not empty, and gives
`ProverRoutes`, `ProverProofAndIO` and, with an invariant of its own, `ProverNeverRefuses`:
`ProverInv` adds that no partition is queued twice and that nothing is kept or on its way before the
inference and the splitting have run, so that no partition finds a slot it does not expect.

**`DistributedProvingProofs`**, for any number of chunks, traces, workers and tries. The
invariant adds to `ResultsGrounded` and `FinalProofComplete` that the job a
worker holds is one the gateway could have offered (`JobsOffered`) and that
what it is about to report is already good (`OutcomesGood`); results only grow,
so goodness is monotone (`GoodResultMonotone`, `GoodProofMonotone`,
`OfferedMonotone`), which is what lets a slow worker report late. `FirstIOFound` and
`FirstProofFound` discharge the `CHOOSE` of the first result that fits. Theorems:
`Invariance`, `TypeCorrectness`, `ProofsAreComplete`, `ResultsAreGrounded`,
`NoJobIsDropped`.

**`ExecutorsProofs`**, for any graph, policy of the caller, pool size and choice of nodes that fail or
panic. An executor only calls the scheduler, so `IInv` of `GraphSchedulerProofs` is
kept (its lemmas are cited for each call). `PoolTracks` adds that the running nodes are
the disjoint union of the batch, the pending tasks, the messages and what a panic has
lost, as long as the coordinator listens; so when none is running nothing is left, and
an error leaves either one running or the scheduler failed, which is why `Ok` cannot come
out then. Theorems: `ExecutorsInvariance`, `RunTypeCorrectness`, `NoNodeIsForgotten`,
`OkIsComplete`.

**`DownloadCacheProofs`**, for any processes, versions, sizes and bounds. Who is between
`flock` and the closing of the lock holds it (`LockKept`); while no two have held one at
once (`Alone`), nobody else writes to the partial file, and what a process has hashed is
what is in it, also after it resumed it (`PartialIsHashed`). With a checksum the digest
then decides (`PlacementIsVerified`). Without one the proof takes that the object was never replaced
(`OneVersion`): partial file and cache hold prefixes of its content, and a prefix of its
full length is it (`ServingIsTheObject`). `download_mixed` shows that this hypothesis is needed.

**`InferenceRunProofs`**, for any model in forward order, any placement of faults and
crashes and any eviction. `Counted`: the use count of a tensor is the number of links of it
that have not been read, counting outputs twice as the code does; hence it is never decremented below zero and a handle has its data exactly
while somebody will read it (`DataKept`, from which `LayersNeverDry` and `MemoryGivenBack`).
`SavedOrSent`: what the running layers have sent is in the channel or in the store, so that it
is in the store when the saver was joined without an error (`TracesLoad`, for plans that do not
interleave). `Owned`: each file belongs to a key of a run that will be cleaned up
(`RunsDiscarded`).

**`RemoteStoreProofs`**, for any keys, runs and assignment of keys to files in which the keys of one run have
files of their own (`FilesAssumption`), any data put before, and any number of calls, tries and faults
(`ResultsAssumption`: results are told from data). The mutex
makes a get or put the last command of the queue until it is answered (`QueueOrder`,
`OneAsked`); hence a worker that sees a get has no other in a task, at the server or
subscribed, and its branch for a second subscriber is never taken. `Entries`: each entry
of the map stands for one task or one result in the channel (`EntriesMatch`). `Kept`: while a key
is promised, what the server has of it, its local copy, the file that copy may be read from and the results in the
channel are among what is promised, and so is what a call under way or given up would leave; a repeated request has
the same key, so that retries keep this (`GetsReadPuts`). That the file is part of it is what makes `Overwritten`
necessary: a prefetch stored for another key writes it. `Cleaned`: of an
erased run either its clean-up is in the queue or a task, or the server has nothing, and
nothing that puts into it is left; a panic of the worker withdraws the runs whose clean-up it cuts short
(`CleanedUpOnStop`).

**`ChunkingProofs`**, for any model, number of chunks and least size of a chunk that meet
`ModelsAssumption` and `NumbersAssumption`. `Typed` holds the ranges of the variables and the
arithmetic of `split`: chunks that are allotted are available, at least as many nodes are left
as chunks (`chunking.rs:1308`), and a row of pieces has at least two. The inductive invariant is

    ChunksInv == Typed /\ Laid /\ Checked /\ InOrder        Laid = Positions and LinkedUp

`Positions` says where nodes are while `split` runs backwards over the model: each node that has been
visited is in one chunk, whole or in a row of pieces in chunks that follow each other; no chunk beyond the
one being filled has a node (`Upwards`), so that whole nodes visited later are in no lower chunk
(`Descending`), and links go from a chunk to itself or to a lower one (`FromAbove`). `LinkedUp` says which links there are, for a piece that is followed by another one of its
set (`FollowingAt`) and for one that is not (`FirstAt`), and that there are no others (`OnlyLinks`); with the pieces, split and
recombination layers taken for their node these are the links of the model. The links of a split layer are stated apart,
since it is placed later, with the whole node it reads (`BeforeSplitLinked`). `Checked` is what
`check_boundary_edges_consistency` lets through, and `InOrder` what `visit_chunks` has returned so far:
since what a chunk reads comes from higher chunks, its first pass visits them all, from the highest down.
`ChunksBalanced` needs one more invariant for models of which no layer is split, `Unsplit`: for some `q`
each chunk that is full has `q` or `q + 1` nodes, the larger ones first, and the nodes and chunks that are left divide
in the same way (`Even`). That `NextPowerOfTwo` finds a power of two is again shown by a least counterexample.


## 6. What is only model-checked, and what is not modelled

Every invariant and every action property of a passing run, and the refinement of
`DagExecution`, is stated by a theorem of section 5. Left to TLC are

* liveness (`Completes`, `RunReturns`, `AllRunOrError`, `JobsEnd`, `RunsEnd`, `CallsEnd`,
  `CallsAnswered`), which needs fairness and `ENABLED`, out of the prover's reach;
* the four properties of section 4, which do not hold.

Three kinds of hypotheses stand in the theorems beside the assumptions on constants: the results of
partitions take that the graphs meet `Supported` (the prover graph is proved to), `PayloadsInPlace` that
ports are consecutive, and `TracesLoad` that plans do not interleave (`plans_interleaved` shows why). What a
property itself excepts (an overlap of locks, an object replaced) is named in section 3.

Abstractions of the modelled components:

* `GraphScheduler`, `PartitionScheduler`: a payload is where it comes from.
* `DistributedProving`: the `ModelIO` and proofs of different attempts of
  chunk 0 may be mixed by a gateway that sends both (`FinalProofComplete` allows it; the code
  relies on one result per chunk).
* `DiskStore`, `InferenceRun`: `cast` and `contains` of the store (a fetch and
  a store by one caller; a read for the display), `DebugRunner` and
  `TrackerRunner` (observers), handles of split nodes, collisions of
  the 64-bit hash in file names are left out; any cache entry may be evicted, which is
  more than the LRU list does.
* `DownloadCache`: a HEAD that fails has touched nothing and is left out; of the two
  sidecars the one `cache_valid` reads is kept; a stream breaks between blocks only. The plain gets
  and puts of `S3Store` and `MemStore` are not modelled.
* `RemoteStore`: each put stores its own number; the
  local disk does not fail (`DiskStore` has the rest), and any entry in its memory may be evicted when
  one is added; serialization, compression and
  the waits between tries are left out, as is the client's own set `sending`, which is empty
  whenever a `put` begins, since the mutex lets one call at a time in. The server is known from the calls to it only.
* `Chunking`: nodes are numbered in the topological order `split` visits them in, reversed; input nodes are left
  out (each chunk has its own); only the first dimension of a layer, the one that is split, is kept; an
  error and a panic are both `"failed"`. `LLMChunkingStrategy`, which places the layers of
  one architecture by their types, is not modelled, nor are ports and shapes of edges.

Not modelled, and why the share of the repository that is modelled stays small: most of
its lines are layers, tensors, quantization, sum-checks, lookups, commitments and
transcripts. That is arithmetic over fields, fixed-point numbers and multi-dimensional arrays, one thread's
computation without control that a state machine could add to; what could be wrong in it
is in numbers far beyond what TLC can enumerate, and a model of it would restate the
formulas. A layer is a step here that may fail. Further:

* the worker's local API: each route is one critical section on a list, and the loop behind it
  is `InferenceRun`'s or `DistributedProving`'s job;
* the LLM driver: one thread that runs the modelled inference once per token;
  what could go wrong is in positions and shapes;
* command line and messages: serialization; the messages are the records of `DistributedProving`;
* telemetry, utilities, the viewer: nothing that another component relies on;
* the fountain code of the SoC model: its degrees and neighbours come from a
  pseudo-random generator that TLC would have to compute (hazards at `fountain_decoder.rs`);
* the rest of the SoC model, the safety core, bridges and physics crates, Lean files and Python
  scripts: small pure functions or simulations the prover does not use.


## 7. Plan

Done, in this order: `DagExecution`, `GraphScheduler` and its proofs; the executors;
`Partitioning`, `PartitionScheduler`, `ProverGraph`; `DistributedProving` and its
proofs; `DiskStore`, `InferenceRun`; `Chunking`; `DownloadCache` and its
proofs; `RemoteStore`; the proofs of the executors, of `InferenceRun` and of `RemoteStore`;
those of the partitions and the prover graph, of colours and ports, and of `Chunking`.

What is left, most important first:

1. Handles of split nodes (`TraceSplitterInfo` of `model/trace.rs` and its use in `run_layer`),
   extending `InferenceRun` with the pieces `Chunking` places.
2. `RemoteStore` as the store of `InferenceRun` (in place of `DiskStore`), so that
   `TraceReadable` is checked across a server that loses calls; `PromisedIsRead` is what it would use.
3. Proofs between components: that `RunSource`, `RunChunk` and `Aggregate` of `DistributedProving` are steps
   of the partitions of `ProverGraph`, as a refinement and not by its routes alone; that the contract of `Executors` is a
   refinement of `DagExecution`, too.
4. A condition on models and numbers of chunks under which `split` succeeds although some layers are
   split: `chunking_path` shows that the check of `chunking.rs:1238` is not one.
5. `LLMChunkingStrategy` (hazard at `chunking.rs:2061`), with the layer types of its architecture as a
   parameter.
6. The peeling decoder over sets of blocks, with its generator replaced by any choice
   of neighbours: a decoded block is the block that was sent.

A run that only repeats for one module what another run implies is merged into it, so that each
run keeps asking one question.
