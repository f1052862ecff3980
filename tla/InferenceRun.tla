---------------------------- MODULE InferenceRun ----------------------------
(***************************************************************************)
(* Running a model and keeping its tensors: Model::run of                  *)
(* zkml/src/model/mod.rs with the three runners it stacks, over the tensor *)
(* store of DiskStore.                                                     *)
(*                                                                         *)
(*   HandleLifetimeRunner  counts the uses of each tensor, and dries its   *)
(*                         handle (drops the data) after the last one;     *)
(*   TraceRunner           records the tensors of each layer in the trace; *)
(*   StoreRunner           sends each tensor over a channel to a thread    *)
(*                         that stores it, and joins it when dropped.      *)
(*                                                                         *)
(* Two threads, that of the inference and the saver, run side by side.  A  *)
(* worker runs one job at a time, in one of two ways.  A "job" worker runs *)
(* a model and proves its trace in memory, within in_new_run, which cleans *)
(* the run up.  A "plan" worker gives each plan a run of its own           *)
(* (with_run_id): one job runs the model and dries the trace, later jobs   *)
(* load the tensors of the trace from the store, and nothing cleans it up. *)
(***************************************************************************)
EXTENDS DiskStore, Sequences, Functions

CONSTANTS
    NumLayers,      \* layers, numbered in the order of forward_inners
    ModelInputs,    \* the tensors of the input nodes, in their order
    Outputs,        \* Outputs[n]: the tensors layer n produces, by port
    ProvingData,    \* ProvingData[n]: those it keeps for its proof alone
    Feeds,          \* the links of the graph: [tensor, to, port], to = 0
                    \* for an output node
    Interleaved,    \* may a plan start while another one is not done?
    MaxFaults,      \* bound: stores that fail
    MaxCrashes      \* bound: crashes of the process

Layer == 1..NumLayers
OutputNode == 0

ASSUME Graph ==
    /\ NumLayers \in Nat \ {0} /\ MaxFaults \in Nat /\ MaxCrashes \in Nat
    /\ ModelInputs \in Seq(Tensor)
    /\ Outputs \in [Layer -> Seq(Tensor)]
    /\ ProvingData \in [Layer -> Seq(Tensor)]
    /\ IsFiniteSet(Feeds)
    /\ Feeds \subseteq [tensor : Tensor, to : Layer \cup {OutputNode}, port : Nat]
    /\ Interleaved \in BOOLEAN

ASSUME NoRun == None \notin Run

InputTensors == Range(ModelInputs)
OutputsOf(n) == Range(Outputs[n])

(* What StoreRunner sends after layer n. *)
Sent(n) == Outputs[n] \o ProvingData[n]

(* A tensor has one producer, which comes before the layers it feeds, and  *)
(* every output of a layer is linked: a port without a link has no handle. *)
ASSUME ForwardOrder ==
    /\ \A n \in Layer : Range(Sent(n)) \cap InputTensors = {}
    /\ \A m, n \in Layer : m # n => Range(Sent(m)) \cap Range(Sent(n)) = {}
    /\ \A n \in Layer : OutputsOf(n) \cap Range(ProvingData[n]) = {}
    /\ \A f \in Feeds :
          \/ f.tensor \in InputTensors
          \/ \E m \in Layer : f.tensor \in OutputsOf(m) /\ (f.to = OutputNode \/ m < f.to)
    /\ \A n \in Layer : \A k \in OutputsOf(n) : \E f \in Feeds : f.tensor = k

VARIABLES
    worker,     \* "job" or "plan": what this worker runs
    run,        \* the run whose model is being run, None between jobs
    state,      \* of each run: "new", "running", "traced", "erred", "over",
                \* "panicked" or "lost"
    next,       \* the layer the inference runs next
    data,       \* the tensors whose handle holds its data
    uses,       \* the count of each storage key (handle_usage_count)
    queue,      \* the tensors sent to the saver and not received yet
    saver,      \* "off", "on", "done" or "failed"
    ending,     \* how the run ends once the saver is joined: "traced" or
                \* "erred", and "not yet" before
    faults, crashes,
    unflushed   \* a store has succeeded without its bytes reaching the file

inference == <<run, next, data, uses, queue, saver, ending>>
vars == <<store, worker, state, faults, crashes, unflushed, inference>>

(* The links that read tensor k; at one layer, or at any node. *)
FeedsOf(k) == {f \in Feeds : f.tensor = k}
FeedsInto(n) == {f \in Feeds : f.to = n}
InputsOf(n) == {f.tensor : f \in FeedsInto(n)}

(* The tensors of a complete trace. *)
TraceTensors == InputTensors \cup UNION {Range(Sent(n)) : n \in Layer}

Init ==
    /\ StoreInit
    /\ worker \in {"job", "plan"}
    /\ run = None
    /\ state = [r \in Run |-> "new"]
    /\ next = 1 /\ data = {} /\ uses = [k \in Tensor |-> 0]
    /\ queue = <<>> /\ saver = "off" /\ ending = "not yet"
    /\ faults = 0 /\ crashes = 0 /\ unflushed = FALSE
-----------------------------------------------------------------------------
(* Mutants: a tensor counted once whatever its links; once per node that   *)
(* reads it; the links of every node, not of output nodes alone, counted   *)
(* again by the constructor.                                               *)
BugCountOnce(k) == IF FeedsOf(k) = {} THEN 0 ELSE 1
BugCountNodes(k) == Cardinality({f.to : f \in FeedsOf(k) \ FeedsInto(OutputNode)})
BugCountTwice(k) == 2 * Cardinality(FeedsOf(k))

(* The count of a tensor when the layers start: one per link, and one more *)
(* per link to an output node, so that it never reaches zero.              *)
InitialUses(k) ==
    Cardinality(FeedsOf(k)) + Cardinality(FeedsOf(k) \cap FeedsInto(OutputNode))

(* The inputs whose handle keeps its data: an unused one is dried. *)
KeptInputs == {k \in InputTensors : InitialUses(k) > 0}

(* The counts after layer n, and the handles it dries: its inputs and      *)
(* outputs that nobody will read.                                          *)
UsesAfter(n) ==
    [k \in Tensor |-> uses[k] - Cardinality(FeedsOf(k) \cap FeedsInto(n))]
Dried(n) == {k \in InputsOf(n) \cup OutputsOf(n) : UsesAfter(n)[k] = 0}

(* The run stops: the StoreRunner is dropped, which closes the channel. *)
End(how) == ending' = how

(* Model::run up to the first layer.  The uses are counted, an input that  *)
(* nobody uses is dried, and only then are the inputs sent to the saver:   *)
(* sending a dry one loads it from the store, which does not know it.      *)
StartRun(r) ==
    /\ run = None
    /\ state[r] = "new"
    /\ \A other \in Run : state[other] \in {"traced", "erred"} =>
          Interleaved /\ worker = "plan"
    /\ run' = r
    /\ state' = [state EXCEPT ![r] = "running"]
    /\ next' = 1
    /\ uses' = [k \in Tensor |-> InitialUses(k)]
    /\ saver' = "on"
    /\ data' = KeptInputs
    /\ IF InputTensors = data'
       THEN queue' = ModelInputs /\ UNCHANGED ending
       ELSE \E k \in 1..Len(ModelInputs) :
                /\ ModelInputs[k] \notin data'
                /\ \A j \in 1..(k - 1) : ModelInputs[j] \in data'
                /\ queue' = SubSeq(ModelInputs, 1, k - 1) /\ End("erred")
    /\ UNCHANGED <<store, worker, faults, crashes, unflushed>>

Running == run # None /\ ending = "not yet"

(* One layer.  It reads its inputs (LayersReadData: none of them is dry);  *)
(* its outputs get handles, go to the saver and into the trace; and the    *)
(* tensors whose last use this was are dried.  A send to a saver that has  *)
(* stopped is an error.                                                    *)
RunLayer ==
    /\ Running /\ next \in Layer
    /\ InputsOf(next) \subseteq data
    /\ \/ /\ saver = "failed"
          /\ End("erred")
          /\ UNCHANGED <<next, data, uses, queue>>
       \/ /\ saver = "on"
          /\ queue' = queue \o Sent(next)
          /\ uses' = UsesAfter(next)
          /\ data' = (data \cup OutputsOf(next)) \ Dried(next)
          /\ next' = next + 1
          /\ UNCHANGED ending
    /\ UNCHANGED <<store, worker, state, run, saver, faults, crashes, unflushed>>

(* A layer returns an error: the run ends with it. *)
LayerFails ==
    /\ Running /\ next \in Layer
    /\ End("erred")
    /\ UNCHANGED <<store, worker, state, run, next, data, uses, queue, saver,
                   faults, crashes, unflushed>>

(* After the last layer the trace is complete. *)
BuildTrace ==
    /\ Running /\ next > NumLayers
    /\ End("traced")
    /\ UNCHANGED <<store, worker, state, run, next, data, uses, queue, saver,
                   faults, crashes, unflushed>>

(* The saver stores the next tensor of the channel; on an error it returns *)
(* it, and what was sent to it is gone with the channel.                   *)
SaveTensor ==
    /\ saver = "on" /\ queue # <<>>
    /\ \E outcome \in Outcomes :
          /\ IsFault(outcome) => faults < MaxFaults
          /\ faults' = IF IsFault(outcome) THEN faults + 1 ELSE faults
          /\ unflushed' = (unflushed \/ outcome = "not flushed")
          /\ StoreBytes(run, Head(queue), outcome)
          /\ IF ReportsError(outcome)
             THEN saver' = "failed" /\ queue' = <<>>
             ELSE queue' = Tail(queue) /\ UNCHANGED saver
    /\ UNCHANGED <<worker, state, run, next, data, uses, ending, crashes>>

(* Mutants: the saver returns when the channel is closed, with tensors     *)
(* still in it; the channel is closed only once the saver is joined.       *)
BugSaverReturnsEarly ==
    /\ saver = "on" /\ ending # "not yet"
    /\ saver' = "done" /\ queue' = <<>>
    /\ UNCHANGED <<store, worker, state, run, next, data, uses, ending,
                   faults, crashes, unflushed>>
BugSaverOutlivesRun ==
    /\ saver = "on" /\ queue = <<>> /\ run = None
    /\ saver' = "done"
    /\ UNCHANGED <<store, worker, state, run, next, data, uses, queue, ending,
                   faults, crashes, unflushed>>

(* The channel is closed and empty: the saver returns. *)
SaverReturns ==
    /\ saver = "on" /\ queue = <<>> /\ ending # "not yet"
    /\ saver' = "done"
    /\ UNCHANGED <<store, worker, state, run, next, data, uses, queue, ending,
                   faults, crashes, unflushed>>

(* Drop of the StoreRunner: it joins the saver, and panics if that failed. *)
(* The handles of the run go with its runners.                             *)
JoinSaver ==
    /\ ending # "not yet"
    /\ saver \in {"done", "failed"}
    /\ state' = [state EXCEPT ![run] =
                    IF saver = "failed" THEN "panicked"
                    ELSE IF ending = "erred" /\ worker = "plan" THEN "over" ELSE ending]
    /\ run' = None /\ data' = {} /\ saver' = "off" /\ ending' = "not yet"
    /\ UNCHANGED <<store, worker, next, uses, queue, faults, crashes, unflushed>>

(* Mutant: an error leaves in_new_run before the clean-up. *)
BugEndJob(r) ==
    /\ worker = "job"
    /\ state[r] \in {"traced", "erred"}
    /\ IF state[r] = "erred" THEN UNCHANGED store ELSE CleanUp(r)
    /\ state' = [state EXCEPT ![r] = "over"]
    /\ UNCHANGED <<worker, inference, faults, crashes, unflushed>>

(* The end of in_new_run: with a trace, which is proved from memory, or    *)
(* with an error, the run is cleaned up.  A panic has passed it by.        *)
EndJob(r) ==
    /\ worker = "job"
    /\ state[r] \in {"traced", "erred"}
    /\ CleanUp(r)
    /\ state' = [state EXCEPT ![r] = "over"]
    /\ UNCHANGED <<worker, inference, faults, crashes, unflushed>>

(* A chunk job of a plan loads a tensor of the dried trace, as often as    *)
(* the gateway hands it out.  Data that cannot be decoded, or no data,     *)
(* fail the job.                                                           *)
LoadTensor(r, k) ==
    /\ worker = "plan" /\ run = None
    /\ state[r] = "traced" /\ k \in TraceTensors
    /\ FetchBytes(r, k)
    /\ state' = IF Answer(r, k) \in {None, Torn}
                THEN [state EXCEPT ![r] = "over"] ELSE state
    /\ UNCHANGED <<worker, inference, faults, crashes, unflushed>>

(* No job is left of the plan. *)
PlanEnds(r) ==
    /\ worker = "plan" /\ run = None
    /\ state[r] = "traced"
    /\ state' = [state EXCEPT ![r] = "over"]
    /\ UNCHANGED <<store, worker, inference, faults, crashes, unflushed>>

(* The process dies, and another one opens the same root. *)
Crash ==
    /\ crashes < MaxCrashes
    /\ crashes' = crashes + 1
    /\ Reopen
    /\ state' = [r \in Run |-> IF state[r] \in {"new", "over"} THEN state[r] ELSE "lost"]
    /\ run' = None /\ data' = {} /\ queue' = <<>>
    /\ saver' = "off" /\ ending' = "not yet"
    /\ UNCHANGED <<worker, next, uses, faults, unflushed>>

InferenceThread ==
    RunLayer \/ LayerFails \/ BuildTrace \/ JoinSaver
SaverThread == SaveTensor \/ SaverReturns
Jobs ==
    \/ \E r \in Run : StartRun(r) \/ EndJob(r) \/ PlanEnds(r)
    \/ \E r \in Run, k \in Tensor : LoadTensor(r, k)

Next == Jobs \/ InferenceThread \/ SaverThread \/ Crash

(* Both are threads of the operating system, and nothing in the code holds *)
(* one back but what the guards say; whether a job comes is up to others.  *)
Fairness == WF_vars(InferenceThread) /\ WF_vars(SaverThread)

Spec == Init /\ [][Next]_vars /\ Fairness
-----------------------------------------------------------------------------
(* The types; no count of uses goes below zero (a usize in the code). *)
TypeOK ==
    /\ StoreTypeOK
    /\ worker \in {"job", "plan"}
    /\ run \in Run \cup {None}
    /\ state \in [Run -> {"new", "running", "traced", "erred", "over", "panicked", "lost"}]
    /\ next \in 1..(NumLayers + 1)
    /\ data \subseteq Tensor
    /\ uses \in [Tensor -> Nat]
    /\ queue \in Seq(Tensor)
    /\ saver \in {"off", "on", "done", "failed"}
    /\ ending \in {"not yet", "traced", "erred"}
    /\ faults \in 0..MaxFaults /\ crashes \in 0..MaxCrashes
    /\ unflushed \in BOOLEAN

(* No layer meets a dry handle: the counts keep the data of a tensor until *)
(* its last use.  (A dry one would be loaded from the store, which the     *)
(* saver may not have reached yet.)                                        *)
LayersReadData ==
    Running /\ next \in Layer => InputsOf(next) \subseteq data

(* Memory is given back as soon as it can be: the handles that hold data   *)
(* are those of the model's outputs and of tensors some layer still reads. *)
HandlesFreed ==
    Running => \A k \in data : \E f \in FeedsOf(k) : f.to = OutputNode \/ f.to >= next

(* Once Model::run has returned a trace, every tensor of it can be loaded  *)
(* from the store, and is that of this run: a dried trace loses nothing.   *)
(* The exception is a write error met in the drop of the BufWriter, which  *)
(* nobody is told of; the load fails then, and gives no wrong data.        *)
TraceReadable ==
    \A r \in Run, k \in TraceTensors : state[r] = "traced" =>
        \/ Answer(r, k) = <<r, k>>
        \/ unflushed /\ Answer(r, k) = Torn

(* in_new_run discards what a run stored: after it, with an error or not,  *)
(* the store knows no key of the run and no file is left.                  *)
Discarded ==
    worker = "job" /\ (\A r \in Run : state[r] \in {"new", "over"}) /\ crashes = 0 =>
        /\ \A r \in Run : storage[r] = {}
        /\ \A k \in Tensor : files[k] = None

(* A fetch never returns what another run has stored ("Unique run ID is    *)
(* used to differentiate keys from distinct runs", genstore.rs:30).        *)
RunsKeptApart ==
    \A r \in Run, k \in TraceTensors : state[r] = "traced" =>
        Answer(r, k) \in {<<r, k>>, Torn, None}

(* A run ends: the inference thread never waits for a saver that waits for *)
(* it, whatever fails.                                                     *)
RunsEnd == \A r \in Run : run = r ~> run # r
=============================================================================
