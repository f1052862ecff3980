------------------------ MODULE DistributedProving ------------------------
(***************************************************************************)
(* The proving of one plan by workers that take jobs from a gateway:       *)
(* process_job and run_chunk_partition of                                  *)
(* deep-prove/src/bin/worker/lpn/proving.rs on the partitions of the       *)
(* execution graph of zkml/src/model/exec_graph.rs, driven by the loop of  *)
(* lpn/http.rs.                                                            *)
(*                                                                         *)
(* The execution graph of k chunks has, for colour 0, the partition        *)
(* {Inference, Split} and then the partition {Final}, and for colour i the *)
(* partition {ChunkProver i}.  The gateway is external and not trusted to  *)
(* be tidy: it may hand out any job, early, twice, with any of the results *)
(* it has been sent, and forget the order they came in.                    *)
(***************************************************************************)
EXTENDS Naturals, FiniteSets, Sequences

CONSTANTS
    NumChunks,  \* how many chunks the model is split in
    Trace,      \* what inference may produce
    Worker,     \* the worker processes
    ATTEMPTS,   \* tries of retry_operation
    MaxJobs,    \* bound: how many jobs the gateway hands out
    MaxProofs,  \* bound: how many results it puts in an aggregation job
    None        \* no destination: an output of the whole graph

Chunk == 1 .. NumChunks

ASSUME NumChunksAssumption == NumChunks \in Nat \ {0}
ASSUME AttemptsAssumption == ATTEMPTS \in Nat \ {0}
ASSUME BoundsAssumption == MaxJobs \in Nat /\ MaxProofs \in Nat
ASSUME NoneAssumption == None \notin 0 .. NumChunks

---------------------------------------------------------------------------
(* Payloads: what travels in a SerializablePartitionOutput. *)

Input(i, t) == [kind |-> "input", chunk |-> i, trace |-> t]
ModelIO(t) == [kind |-> "io", chunk |-> 0, trace |-> t]
ChunkProof(x) == [kind |-> "proof", chunk |-> x.chunk, trace |-> x.trace]

(***************************************************************************)
(* run_chunk_partition, chunk 0 (is_source): {Inference, Split} runs, then *)
(* {Final} is not ready and the loop is left.  Inference's second port is  *)
(* an output of the whole graph, the ports of Split go to the chunks.      *)
(***************************************************************************)
RunSource(t) ==
    {[from |-> 0, to |-> i, data |-> Input(i, t)] : i \in Chunk}
        \cup {[from |-> 0, to |-> None, data |-> ModelIO(t)]}

BugForChunk(dep, i) == {o \in dep : o.data.kind = "input"}

\* The output in `dep` destined for chunk i.
ForChunk(dep, i) == {o \in dep : o.to = i}

(***************************************************************************)
(* run_chunk_partition, chunk i, with the result `dep` of chunk 0, or with *)
(* no dependency ({}): then nothing is ready, and no output is an error    *)
(* ({}).                                                                   *)
(***************************************************************************)
RunChunk(i, dep) ==
    IF ForChunk(dep, i) = {} THEN {}
    ELSE LET o == CHOOSE o \in ForChunk(dep, i) : TRUE
         IN  {[from |-> i, to |-> 0, data |-> ChunkProof(o.data)]}

\* process_job, aggregation: the ModelIO, and the proofs of chunk i meant for
\* the coordinator, among the outputs r of one chunk job.
IOsOf(r) == {o \in r : o.data.kind = "io"}
ProofsOf(r, i) == {o \in r : o.from = i /\ o.to = 0 /\ o.data.kind = "proof"}

Proved(s) == {i \in Chunk : \E j \in DOMAIN s : ProofsOf(s[j], i) # {}}

\* The first of the results s in which such an output is found.
FirstIO(s) ==
    s[CHOOSE j \in DOMAIN s : /\ IOsOf(s[j]) # {}
                              /\ \A h \in 1 .. j - 1 : IOsOf(s[h]) = {}]
FirstProof(s, i) ==
    s[CHOOSE j \in DOMAIN s : /\ ProofsOf(s[j], i) # {}
                              /\ \A h \in 1 .. j - 1 : ProofsOf(s[h], i) = {}]

BugFinalReady(s) == Proved(s) # {} /\ \E j \in DOMAIN s : IOsOf(s[j]) # {}

\* {Final} has an output of every child; without a ModelIO the job fails.
FinalReady(s) == Proved(s) = Chunk /\ \E j \in DOMAIN s : IOsOf(s[j]) # {}

(***************************************************************************)
(* The final proof Final builds from its inputs, in port order, next to    *)
(* the ModelIO of the first result that has one; {} is an error.           *)
(***************************************************************************)
Aggregate(s) ==
    IF ~FinalReady(s) THEN {}
    ELSE {[io |-> (CHOOSE o \in IOsOf(FirstIO(s)) : TRUE).data,
           proofs |-> [i \in Proved(s) |->
                          (CHOOSE o \in ProofsOf(FirstProof(s, i), i) : TRUE).data]]}

---------------------------------------------------------------------------
VARIABLES
    pc,        \* where each worker is in its loop
    job,       \* the job it works on
    outcome,   \* what process_job returned
    tries,     \* failed tries of the current retry_operation
    handed,    \* number of jobs handed out so far
    results,   \* chunk results the gateway has received
    proofs,    \* final proofs it has received
    answered   \* ids of the jobs it has been sent an answer for

vars == <<pc, job, outcome, tries, handed, results, proofs, answered>>

SomeResults == UNION {[1 .. n -> results] : n \in 0 .. MaxProofs}

\* The jobs the gateway may hand out now.
Offered(id) ==
    {[id |-> id, kind |-> "chunk", chunk |-> 0, from |-> <<>>]}
    \cup {[id |-> id, kind |-> "chunk", chunk |-> i, from |-> d] :
             i \in Chunk, d \in {<<>>} \cup {<<r>> : r \in results}}
    \cup {[id |-> id, kind |-> "aggregation", chunk |-> 0, from |-> s] : s \in SomeResults}

NoJob == [id |-> 0, kind |-> "none", chunk |-> 0, from |-> <<>>]
Failed == [kind |-> "error", value |-> {}]

Init ==
    /\ pc = [w \in Worker |-> "request"]
    /\ job = [w \in Worker |-> NoJob]
    /\ outcome = [w \in Worker |-> Failed]
    /\ tries = [w \in Worker |-> 0]
    /\ handed = 0
    /\ results = {} /\ proofs = {} /\ answered = {}

\* A job is received and parsed.  The loop goes on whether or not the ACK
\* gets through.
TakeJob(w) ==
    /\ pc[w] = "request" /\ handed < MaxJobs
    /\ \E j \in Offered(handed + 1) : job' = [job EXCEPT ![w] = j]
    /\ handed' = handed + 1
    /\ pc' = [pc EXCEPT ![w] = "process"]
    /\ UNCHANGED <<outcome, tries, results, proofs, answered>>

\* A response that does not parse: an error is sent, if the job id can be
\* read, and the loop goes on even if that fails.
MalformedJob(w) ==
    /\ pc[w] = "request" /\ handed < MaxJobs
    /\ handed' = handed + 1
    /\ answered' \in {answered, answered \cup {handed + 1}}
    /\ UNCHANGED <<pc, job, outcome, tries, results, proofs>>

BugComputed(j) ==       \* waits for the proofs that are missing
    IF j.kind = "aggregation"
    THEN {[kind |-> "proof", value |-> v] : v \in {Aggregate(j.from)} \ {{}}}
    ELSE {[kind |-> "result", value |-> RunSource(t)] : t \in Trace}

\* What process_job may return for job j.
Computed(j) ==
    IF j.kind = "aggregation" THEN {[kind |-> "proof", value |-> Aggregate(j.from)]}
    ELSE IF j.chunk = 0 THEN {[kind |-> "result", value |-> RunSource(t)] : t \in Trace}
    ELSE {[kind |-> "result",
           value |-> RunChunk(j.chunk, IF j.from = <<>> THEN {} ELSE j.from[1])]}

\* process_job ends: with what it computed, or with an error, its own or one
\* of the context, the tensor store or a panicking task.
ProcessJob(w) ==
    /\ pc[w] = "process"
    /\ \E o \in Computed(job[w]) :
        outcome' \in {[outcome EXCEPT ![w] = Failed]}
                     \cup (IF o.value = {} THEN {} ELSE {[outcome EXCEPT ![w] = o]})
    /\ pc' = [pc EXCEPT ![w] = "report"]
    /\ UNCHANGED <<job, tries, handed, results, proofs, answered>>

\* A try of submit_proof or submit_error reaches the gateway.
Delivered(w) ==
    /\ answered' = answered \cup {job[w].id}
    /\ results' = IF outcome[w].kind = "result" THEN results \cup {outcome[w].value} ELSE results
    /\ proofs' = IF outcome[w].kind = "proof" THEN proofs \cup outcome[w].value ELSE proofs

Forget(w) ==
    /\ job' = [job EXCEPT ![w] = NoJob]
    /\ outcome' = [outcome EXCEPT ![w] = Failed]
    /\ tries' = [tries EXCEPT ![w] = 0]

ReportOk(w) ==
    /\ pc[w] = "report"
    /\ Delivered(w)
    /\ Forget(w)
    /\ pc' = [pc EXCEPT ![w] = "request"]
    /\ UNCHANGED handed

BugLastTry(w) == tries[w] = ATTEMPTS

LastTry(w) == tries[w] + 1 = ATTEMPTS

BugReportFails(w) ==    \* gives up the job and goes on
    /\ pc[w] = "report"
    /\ Delivered(w) \/ UNCHANGED <<results, proofs, answered>>
    /\ IF LastTry(w) THEN Forget(w) /\ pc' = [pc EXCEPT ![w] = "request"]
       ELSE tries' = [tries EXCEPT ![w] = @ + 1] /\ UNCHANGED <<pc, job, outcome>>
    /\ UNCHANGED handed

\* The try fails, though the gateway may have received it; the last one ends
\* the worker.
ReportFails(w) ==
    /\ pc[w] = "report"
    /\ Delivered(w) \/ UNCHANGED <<results, proofs, answered>>
    /\ IF LastTry(w) THEN Forget(w) /\ pc' = [pc EXCEPT ![w] = "stopped"]
       ELSE tries' = [tries EXCEPT ![w] = @ + 1] /\ UNCHANGED <<pc, job, outcome>>
    /\ UNCHANGED handed

\* The process dies, and is started again by whoever runs it.
Crash(w) ==
    /\ pc[w] # "stopped"
    /\ Forget(w) /\ pc' = [pc EXCEPT ![w] = "stopped"]
    /\ UNCHANGED <<handed, results, proofs, answered>>

Restart(w) ==
    /\ pc[w] = "stopped"
    /\ pc' = [pc EXCEPT ![w] = "request"]
    /\ UNCHANGED <<job, outcome, tries, handed, results, proofs, answered>>

Work(w) == ProcessJob(w) \/ ReportOk(w) \/ ReportFails(w)

Next == \E w \in Worker :
    TakeJob(w) \/ MalformedJob(w) \/ Work(w) \/ Crash(w) \/ Restart(w)

Spec == Init /\ [][Next]_vars
FairSpec == Spec /\ \A w \in Worker : WF_vars(Work(w))

---------------------------------------------------------------------------
(* Properties. *)

\* What a chunk job may return, when the results in R have been sent: chunk
\* 0's outputs, or the one proof of a chunk, from an input that chunk 0
\* computed for that chunk and the gateway was sent.
GoodResult(r, R) ==
    \/ \E t \in Trace : r = RunSource(t)
    \/ \E i \in Chunk, t \in Trace :
          r = {[from |-> i, to |-> 0, data |-> ChunkProof(Input(i, t))]} /\ RunSource(t) \in R

\* A final proof has one proof of every chunk, each of that chunk and none
\* twice, and the ModelIO, all from results of chunk 0 in R.
GoodProof(p, R) ==
    /\ \E t \in Trace : p.io = ModelIO(t) /\ RunSource(t) \in R
    /\ DOMAIN p.proofs = Chunk
    /\ \A i \in Chunk : \E t \in Trace :
          p.proofs[i] = ChunkProof(Input(i, t)) /\ RunSource(t) \in R

TypeOK ==
    /\ pc \in [Worker -> {"request", "process", "report", "stopped"}]
    /\ \A w \in Worker :
        /\ pc[w] \in {"process", "report"} <=> job[w] # NoJob
        /\ pc[w] # "report" => outcome[w] = Failed
        /\ tries[w] \in 0 .. ATTEMPTS - 1
    /\ handed \in 0 .. MaxJobs
    /\ answered \subseteq 1 .. handed

\* Every proof the gateway is sent for the plan is complete and in order,
\* whatever jobs it handed out, in whatever order, with whatever results.
FinalProofComplete == \A p \in proofs : GoodProof(p, results)

\* Every chunk result it is sent is the outcome of an earlier one of chunk 0.
ResultsGrounded == \A r \in results : GoodResult(r, results)

\* A worker that goes on to the next job has sent an answer for the last one
\* (one that could not has stopped); its answer may arrive more than once.
JobsAreAnswered ==
    [][\A w \in Worker :
          job[w] # NoJob /\ job'[w] = NoJob =>
              job[w].id \in answered' \/ pc'[w] = "stopped"]_vars

\* No job keeps a worker for ever.
JobsEnd == \A w \in Worker : (pc[w] \in {"process", "report"}) ~> (pc[w] \in {"request", "stopped"})
===========================================================================
