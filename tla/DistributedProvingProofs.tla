---------------------- MODULE DistributedProvingProofs ----------------------
(***************************************************************************)
(* For every number of chunks and workers, and whatever the gateway hands  *)
(* out, the proofs it receives are complete, and no worker drops a job.    *)
(***************************************************************************)
EXTENDS DistributedProving, WellFoundedInduction, TLAPS

\* A set of naturals has a least element.
LEMMA LeastNat ==
    ASSUME NEW T \in SUBSET Nat, T # {}
    PROVE  \E x \in T : \A y \in T : x <= y
<1> DEFINE R == OpToRel(<, Nat)
<1>1. \E x \in T : \A y \in T : ~ (<<y, x>> \in R)
  <2>1. IsWellFoundedOn(R, Nat)
    BY NatLessThanWellFounded
  <2> HIDE DEF R
  <2> QED  BY <2>1, WFMin
<1>2. \A x, y \in Nat : y < x => <<y, x>> \in R
  BY DEF OpToRel
<1> HIDE DEF R
<1> QED
  <2>1. PICK x \in T : \A y \in T : ~ (<<y, x>> \in R)
    BY <1>1
  <2>2. \A y \in T : ~(y < x)
    BY <1>2, <2>1
  <2> QED  BY <2>2

---------------------------------------------------------------------------
(* What the jobs compute. *)

\* Good results and proofs stay good when more results arrive.
LEMMA GoodResultMonotone ==
    ASSUME NEW R, NEW S, R \subseteq S, NEW r, GoodResult(r, R)
    PROVE  GoodResult(r, S)
BY DEF GoodResult

LEMMA GoodProofMonotone ==
    ASSUME NEW R, NEW S, R \subseteq S, NEW p, GoodProof(p, R)
    PROVE  GoodProof(p, S)
<1>1. \E t \in Trace : p.io = ModelIO(t) /\ RunSource(t) \in S
  BY DEF GoodProof
<1>2. \A i \in Chunk : \E t \in Trace : p.proofs[i] = ChunkProof(Input(i, t)) /\ RunSource(t) \in S
  BY DEF GoodProof
<1> QED  BY <1>1, <1>2 DEF GoodProof

\* The output of chunk 0's result for chunk i is chunk i's input.
LEMMA SourceForChunk ==
    ASSUME NEW i \in Chunk, NEW t \in Trace
    PROVE  ForChunk(RunSource(t), i) = {[from |-> 0, to |-> i, data |-> Input(i, t)]}
<1>1. i # None /\ i # 0
  BY NoneAssumption, NumChunksAssumption DEF Chunk
<1> QED  BY <1>1 DEF ForChunk, RunSource

\* A chunk job computes a good result from a good one.
LEMMA RunChunkGood ==
    ASSUME NEW R, NEW dep \in R, GoodResult(dep, R), NEW i \in Chunk, RunChunk(i, dep) # {}
    PROVE  GoodResult(RunChunk(i, dep), R)
<1>1. ForChunk(dep, i) # {}
  BY DEF RunChunk
<1>2. PICK t \in Trace : dep = RunSource(t)
  <2>1. SUFFICES ASSUME NEW h \in Chunk, NEW t \in Trace,
                        dep = {[from |-> h, to |-> 0, data |-> ChunkProof(Input(h, t))]}
                 PROVE  FALSE
    BY DEF GoodResult
  <2>2. i # 0
    BY NumChunksAssumption DEF Chunk
  <2> QED  BY <1>1, <2>1, <2>2 DEF ForChunk
<1>3. ForChunk(dep, i) = {[from |-> 0, to |-> i, data |-> Input(i, t)]}
  BY <1>2, SourceForChunk
<1>4. RunChunk(i, dep) = {[from |-> i, to |-> 0, data |-> ChunkProof(Input(i, t))]}
  BY <1>3 DEF RunChunk
<1> QED  BY <1>2, <1>4 DEF GoodResult

\* The ModelIO of a good result is the one chunk 0 sent.
LEMMA IOGood ==
    ASSUME NEW R, NEW r \in R, GoodResult(r, R), NEW o \in IOsOf(r)
    PROVE  \E t \in Trace : o.data = ModelIO(t) /\ RunSource(t) \in R
<1>1. CASE \E t \in Trace : r = RunSource(t)
  <2>1. PICK t \in Trace : r = RunSource(t)
    BY <1>1
  <2>2. o \in RunSource(t) /\ o.data.kind = "io"
    BY <2>1 DEF IOsOf
  <2>3. o.data = ModelIO(t)
    BY <2>2 DEF RunSource, Input, ModelIO
  <2> QED  BY <2>1, <2>3
<1>2. CASE \E i \in Chunk, t \in Trace :
             r = {[from |-> i, to |-> 0, data |-> ChunkProof(Input(i, t))]}
  BY <1>2 DEF IOsOf, ChunkProof, Input
<1> QED  BY <1>1, <1>2 DEF GoodResult

\* A proof from chunk i in a good result is chunk i's.
LEMMA ProofGood ==
    ASSUME NEW R, NEW r \in R, GoodResult(r, R), NEW i \in Chunk, NEW o \in ProofsOf(r, i)
    PROVE  \E t \in Trace : o.data = ChunkProof(Input(i, t)) /\ RunSource(t) \in R
<1>1. CASE \E t \in Trace : r = RunSource(t)
  BY <1>1 DEF ProofsOf, RunSource, Input, ModelIO
<1>2. CASE \E h \in Chunk, t \in Trace :
             /\ r = {[from |-> h, to |-> 0, data |-> ChunkProof(Input(h, t))]}
             /\ RunSource(t) \in R
  <2>1. PICK h \in Chunk, t \in Trace :
             /\ r = {[from |-> h, to |-> 0, data |-> ChunkProof(Input(h, t))]}
             /\ RunSource(t) \in R
    BY <1>2
  <2>2. o = [from |-> h, to |-> 0, data |-> ChunkProof(Input(h, t))] /\ o.from = i
    BY <2>1 DEF ProofsOf
  <2> QED  BY <2>1, <2>2
<1> QED  BY <1>1, <1>2 DEF GoodResult

\* Where FirstIO and FirstProof point: at one of the results, that has one.
LEMMA FirstIOFound ==
    ASSUME NEW R, NEW n \in Nat, NEW s \in [1 .. n -> R],
           \E j \in DOMAIN s : IOsOf(s[j]) # {}
    PROVE  FirstIO(s) \in R /\ IOsOf(FirstIO(s)) # {}
<1> DEFINE T == {j \in 1 .. n : IOsOf(s[j]) # {}}
<1>0. T \in SUBSET Nat /\ T # {}
  OBVIOUS
<1> HIDE DEF T
<1>1. PICK j \in T : \A h \in T : j <= h
  BY <1>0, LeastNat
<1> USE DEF T
<1>2. /\ j \in DOMAIN s /\ IOsOf(s[j]) # {}
      /\ \A h \in 1 .. j - 1 : IOsOf(s[h]) = {}
  BY <1>1
<1> QED  BY <1>2 DEF FirstIO

LEMMA FirstProofFound ==
    ASSUME NEW R, NEW n \in Nat, NEW s \in [1 .. n -> R], NEW i \in Proved(s)
    PROVE  FirstProof(s, i) \in R /\ ProofsOf(FirstProof(s, i), i) # {}
<1> DEFINE T == {j \in 1 .. n : ProofsOf(s[j], i) # {}}
<1>0. T \in SUBSET Nat /\ T # {}
  BY DEF Proved
<1> HIDE DEF T
<1>1. PICK j \in T : \A h \in T : j <= h
  BY <1>0, LeastNat
<1> USE DEF T
<1>2. /\ j \in DOMAIN s /\ ProofsOf(s[j], i) # {}
      /\ \A h \in 1 .. j - 1 : ProofsOf(s[h], i) = {}
  BY <1>1
<1> QED  BY <1>2 DEF FirstProof

\* An aggregation job computes only complete proofs, from good results.
LEMMA AggregateGood ==
    ASSUME NEW R, \A r \in R : GoodResult(r, R),
           NEW n \in Nat, NEW s \in [1 .. n -> R], NEW p \in Aggregate(s)
    PROVE  GoodProof(p, R)
<1> DEFINE io == CHOOSE o \in IOsOf(FirstIO(s)) : TRUE
           pr(i) == CHOOSE o \in ProofsOf(FirstProof(s, i), i) : TRUE
<1>1. FinalReady(s)
  BY DEF Aggregate
<1>2. p = [io |-> io.data, proofs |-> [i \in Proved(s) |-> pr(i).data]]
  BY <1>1 DEF Aggregate
<1>3. \E t \in Trace : io.data = ModelIO(t) /\ RunSource(t) \in R
  <2>1. FirstIO(s) \in R /\ IOsOf(FirstIO(s)) # {}
    BY <1>1, FirstIOFound DEF FinalReady
  <2>2. io \in IOsOf(FirstIO(s)) /\ GoodResult(FirstIO(s), R)
    BY <2>1
  <2> HIDE DEF io
  <2> QED  BY <2>1, <2>2, IOGood
<1>4. ASSUME NEW i \in Chunk
      PROVE  \E t \in Trace : pr(i).data = ChunkProof(Input(i, t)) /\ RunSource(t) \in R
  <2>1. FirstProof(s, i) \in R /\ ProofsOf(FirstProof(s, i), i) # {}
    BY <1>1, FirstProofFound DEF FinalReady
  <2>2. pr(i) \in ProofsOf(FirstProof(s, i), i) /\ GoodResult(FirstProof(s, i), R)
    BY <2>1
  <2> HIDE DEF pr
  <2> QED  BY <2>1, <2>2, ProofGood
<1>5. Proved(s) = Chunk
  BY <1>1 DEF FinalReady
<1> HIDE DEF io, pr
<1> QED  BY <1>2, <1>3, <1>4, <1>5 DEF GoodProof
---------------------------------------------------------------------------
(* The inductive invariant: besides what the gateway has, what is on its   *)
(* way to it is good, and jobs carry only results it had.                  *)

GoodOutcome(o, R) ==
    \/ o = Failed
    \/ o.kind = "result" /\ GoodResult(o.value, R)
    \/ o.kind = "proof" /\ \A p \in o.value : GoodProof(p, R)

PerWorker ==
    /\ DOMAIN job = Worker
    /\ DOMAIN outcome = Worker
    /\ DOMAIN tries = Worker

JobsOffered == \A w \in Worker :
    job[w] # NoJob => \E id \in 1 .. handed : job[w] \in Offered(id)

OutcomesGood == \A w \in Worker : GoodOutcome(outcome[w], results)

IInv ==
    /\ TypeOK
    /\ PerWorker
    /\ JobsOffered
    /\ OutcomesGood
    /\ ResultsGrounded
    /\ FinalProofComplete

LEMMA GoodOutcomeMonotone ==
    ASSUME NEW R, NEW S, R \subseteq S, NEW o, GoodOutcome(o, R)
    PROVE  GoodOutcome(o, S)
BY GoodResultMonotone, GoodProofMonotone DEF GoodOutcome

LEMMA OfferedMonotone ==
    ASSUME results \subseteq results', NEW id
    PROVE  Offered(id) \subseteq Offered(id)'
<1>1. SomeResults \subseteq SomeResults'
  BY DEF SomeResults
<1> QED  BY <1>1 DEF Offered

\* An offered job is no empty slot.
LEMMA OfferedIsJob ==
    ASSUME NEW id, NEW j \in Offered(id)
    PROVE  j.id = id /\ j.kind # "none"
BY DEF Offered

\* A job computes only good outcomes, from the good results it was given.
LEMMA ComputedGood ==
    ASSUME ResultsGrounded, NEW id, NEW j \in Offered(id),
           NEW o \in Computed(j), o.value # {}
    PROVE  GoodOutcome(o, results)
<1>1. CASE j.kind = "aggregation"
  <2>1. j.from \in SomeResults
    BY <1>1 DEF Offered
  <2>2. PICK n \in Nat : j.from \in [1 .. n -> results]
    BY <2>1, BoundsAssumption DEF SomeResults
  <2>3. o = [kind |-> "proof", value |-> Aggregate(j.from)]
    BY <1>1 DEF Computed
  <2>4. \A p \in Aggregate(j.from) : GoodProof(p, results)
    BY <2>2, AggregateGood DEF ResultsGrounded
  <2> QED  BY <2>3, <2>4 DEF GoodOutcome
<1>2. CASE j.kind # "aggregation" /\ j.chunk = 0
  BY <1>2 DEF Computed, GoodOutcome, GoodResult
<1>3. CASE j.kind # "aggregation" /\ j.chunk # 0
  <2>1. j.chunk \in Chunk /\ (j.from = <<>> \/ \E r \in results : j.from = <<r>>)
    BY <1>3 DEF Offered
  <2> DEFINE dep == IF j.from = <<>> THEN {} ELSE j.from[1]
  <2>2. o = [kind |-> "result", value |-> RunChunk(j.chunk, dep)]
    BY <1>3 DEF Computed
  <2>3. j.from # <<>>
    BY <2>2 DEF RunChunk, ForChunk
  <2>4. dep \in results
    BY <2>1, <2>3
  <2> HIDE DEF dep
  <2>5. GoodResult(RunChunk(j.chunk, dep), results)
    BY <2>1, <2>2, <2>4, RunChunkGood DEF ResultsGrounded
  <2> QED  BY <2>2, <2>5 DEF GoodOutcome
<1> QED  BY <1>1, <1>2, <1>3

\* More results, and good ones, keep everything that was good good.
LEMMA KeepsGood ==
    ASSUME IInv, results \subseteq results',
           \A r \in results' : r \notin results => GoodResult(r, results),
           \A p \in proofs' : p \notin proofs => GoodProof(p, results)
    PROVE  ResultsGrounded' /\ FinalProofComplete'
<1>1. \A r \in results' : GoodResult(r, results)
  BY DEF IInv, ResultsGrounded
<1>2. \A p \in proofs' : GoodProof(p, results)
  BY DEF IInv, FinalProofComplete
<1>3. \A r \in results' : GoodResult(r, results')
  BY <1>1, GoodResultMonotone
<1>4. \A p \in proofs' : GoodProof(p, results')
  BY <1>2, GoodProofMonotone
<1>5. ResultsGrounded'
  BY <1>3 DEF ResultsGrounded, GoodResult, RunSource, Input, ModelIO, ChunkProof, Chunk
<1>6. FinalProofComplete'
  BY <1>4 DEF FinalProofComplete, GoodProof, RunSource, Input, ModelIO, ChunkProof, Chunk
<1> QED  BY <1>5, <1>6
---------------------------------------------------------------------------
(* Every step keeps the invariant. *)

LEMMA InitHolds == Init => IInv
<1> SUFFICES ASSUME Init PROVE IInv
  OBVIOUS
<1>1. TypeOK
  BY BoundsAssumption, AttemptsAssumption DEF Init, TypeOK
<1>2. PerWorker /\ JobsOffered /\ OutcomesGood
  BY DEF Init, PerWorker, JobsOffered, OutcomesGood, GoodOutcome
<1>3. ResultsGrounded /\ FinalProofComplete
  BY DEF Init, ResultsGrounded, FinalProofComplete
<1> QED  BY <1>1, <1>2, <1>3 DEF IInv

\* A step of worker w that leaves what the gateway was sent alone, and gives w
\* an offered job, a good outcome or nothing.
LEMMA StepOfOne ==
    ASSUME IInv, NEW w \in Worker,
           UNCHANGED <<results, proofs>>,
           handed' \in Nat, handed <= handed',
           PerWorker',
           \A v \in Worker \ {w} : job'[v] = job[v] /\ outcome'[v] = outcome[v],
           \/ job'[w] = job[w]
           \/ job'[w] = NoJob
           \/ \E id \in 1 .. handed' : job'[w] \in Offered(id),
           \/ outcome'[w] = outcome[w]
           \/ GoodOutcome(outcome'[w], results)
    PROVE  (PerWorker /\ JobsOffered /\ OutcomesGood /\ ResultsGrounded /\ FinalProofComplete)'
<1>1. JobsOffered'
  <2>1. \A id : Offered(id)' = Offered(id)
    BY DEF Offered, SomeResults
  <2>2. handed \in Nat
    BY BoundsAssumption DEF IInv, TypeOK
  <2>3. SUFFICES ASSUME NEW v \in Worker, job'[v] # NoJob
                 PROVE  \E id \in 1 .. handed' : job'[v] \in Offered(id)
    BY <2>1 DEF JobsOffered
  <2>4. CASE job'[v] = job[v]
    <3>1. PICK id \in 1 .. handed : job[v] \in Offered(id)
      BY <2>3, <2>4 DEF IInv, JobsOffered
    <3>2. id \in 1 .. handed'
      BY <2>2
    <3> QED  BY <2>4, <3>1, <3>2
  <2> QED  BY <2>3, <2>4
<1>2. OutcomesGood'
  <2>1. \A v \in Worker : GoodOutcome(outcome'[v], results)
    BY DEF IInv, OutcomesGood
  <2>2. \A v \in Worker : GoodOutcome(outcome'[v], results')
    BY <2>1
  <2> QED  BY <2>2 DEF OutcomesGood, GoodOutcome, GoodResult, GoodProof, RunSource, Input,
                      ModelIO, ChunkProof, Chunk, Failed
<1>3. ResultsGrounded' /\ FinalProofComplete'
  BY KeepsGood
<1> QED  BY <1>1, <1>2, <1>3

LEMMA TakeJobInv ==
    ASSUME IInv, NEW w \in Worker, TakeJob(w)
    PROVE  IInv'
<1>1. PICK j \in Offered(handed + 1) : job' = [job EXCEPT ![w] = j]
  BY DEF TakeJob
<1>2. handed \in Nat /\ handed + 1 \in 1 .. handed' /\ handed' \in 0 .. MaxJobs
  BY BoundsAssumption DEF IInv, TypeOK, TakeJob
<1>3. job'[w] = j /\ \A v \in Worker \ {w} : job'[v] = job[v]
  BY <1>1 DEF IInv, PerWorker
<1>4. PerWorker'
  BY <1>1 DEF IInv, PerWorker, TakeJob
<1>5. PerWorker' /\ JobsOffered' /\ OutcomesGood' /\ ResultsGrounded' /\ FinalProofComplete'
  BY <1>2, <1>3, <1>4, StepOfOne DEF TakeJob
<1>6. TypeOK'
  <2>1. j # NoJob
    BY OfferedIsJob DEF NoJob
  <2>2. answered' \subseteq 1 .. handed'
    BY <1>2 DEF IInv, TypeOK, TakeJob
  <2>3. pc' \in [Worker -> {"request", "process", "report", "stopped"}]
    BY DEF IInv, TypeOK, TakeJob
  <2>4. \A v \in Worker :
        /\ pc'[v] \in {"process", "report"} <=> job'[v] # NoJob
        /\ pc'[v] # "report" => outcome'[v] = Failed
        /\ tries'[v] \in 0 .. ATTEMPTS - 1
    BY <1>3, <2>1 DEF IInv, TypeOK, TakeJob
  <2> QED  BY <1>2, <2>2, <2>3, <2>4 DEF TypeOK, NoJob, Failed
<1> QED  BY <1>5, <1>6 DEF IInv

LEMMA MalformedJobInv ==
    ASSUME IInv, NEW w \in Worker, MalformedJob(w)
    PROVE  IInv'
<1>1. handed \in Nat /\ handed' = handed + 1 /\ handed' \in 0 .. MaxJobs
  BY BoundsAssumption DEF IInv, TypeOK, MalformedJob
<1>2. PerWorker'
  BY DEF IInv, PerWorker, MalformedJob
<1>3. PerWorker' /\ JobsOffered' /\ OutcomesGood' /\ ResultsGrounded' /\ FinalProofComplete'
  BY <1>1, <1>2, StepOfOne DEF MalformedJob
<1>4. TypeOK'
  BY <1>1 DEF IInv, TypeOK, MalformedJob, NoJob, Failed
<1> QED  BY <1>3, <1>4 DEF IInv

LEMMA ProcessJobInv ==
    ASSUME IInv, NEW w \in Worker, ProcessJob(w)
    PROVE  IInv'
<1>1. PICK x : outcome' = [outcome EXCEPT ![w] = x] /\ GoodOutcome(x, results)
  <2>1. PICK o \in Computed(job[w]) :
          outcome' \in {[outcome EXCEPT ![w] = Failed]}
                       \cup (IF o.value = {} THEN {} ELSE {[outcome EXCEPT ![w] = o]})
    BY DEF ProcessJob
  <2>2. CASE outcome' = [outcome EXCEPT ![w] = Failed]
    BY <2>2 DEF GoodOutcome
  <2>3. CASE outcome' = [outcome EXCEPT ![w] = o] /\ o.value # {}
    <3>1. PICK id \in 1 .. handed : job[w] \in Offered(id)
      BY DEF IInv, TypeOK, JobsOffered, ProcessJob
    <3>2. GoodOutcome(o, results)
      BY <2>3, <3>1, ComputedGood DEF IInv
    <3> QED  BY <2>3, <3>2
  <2> QED  BY <2>1, <2>2, <2>3
<1>2. outcome'[w] = x /\ \A v \in Worker \ {w} : outcome'[v] = outcome[v]
  BY <1>1 DEF IInv, PerWorker
<1>3. PerWorker'
  BY <1>1 DEF IInv, PerWorker, ProcessJob
<1>4. PerWorker' /\ JobsOffered' /\ OutcomesGood' /\ ResultsGrounded' /\ FinalProofComplete'
  <2>1. handed' \in Nat /\ handed <= handed'
    BY BoundsAssumption DEF IInv, TypeOK, ProcessJob
  <2> QED  BY <1>1, <1>2, <1>3, <2>1, StepOfOne DEF ProcessJob
<1>5. TypeOK'
  BY <1>2 DEF IInv, TypeOK, ProcessJob, NoJob, Failed
<1> QED  BY <1>4, <1>5 DEF IInv
\* What a try delivers, if it does, is good and an answer to a job handed out.
LEMMA DeliveredGood ==
    ASSUME IInv, NEW w \in Worker, pc[w] = "report", handed' = handed,
           Delivered(w) \/ UNCHANGED <<results, proofs, answered>>
    PROVE  /\ results \subseteq results'
           /\ ResultsGrounded' /\ FinalProofComplete'
           /\ answered' \subseteq 1 .. handed'
<1>1. CASE UNCHANGED <<results, proofs, answered>>
  <2>1. ResultsGrounded' /\ FinalProofComplete'
    BY <1>1, KeepsGood
  <2> QED  BY <1>1, <2>1 DEF IInv, TypeOK
<1>2. CASE Delivered(w)
  <2>1. GoodOutcome(outcome[w], results)
    BY DEF IInv, OutcomesGood
  <2>2. \A r \in results' : r \notin results => GoodResult(r, results)
    BY <1>2, <2>1 DEF Delivered, GoodOutcome, Failed
  <2>3. \A p \in proofs' : p \notin proofs => GoodProof(p, results)
    BY <1>2, <2>1 DEF Delivered, GoodOutcome, Failed
  <2>4. results \subseteq results'
    BY <1>2 DEF Delivered
  <2>5. ResultsGrounded' /\ FinalProofComplete'
    BY <2>2, <2>3, <2>4, KeepsGood
  <2>6. job[w].id \in 1 .. handed
    <3>1. PICK id \in 1 .. handed : job[w] \in Offered(id)
      BY DEF IInv, TypeOK, JobsOffered
    <3> QED  BY <3>1, OfferedIsJob
  <2> QED  BY <1>2, <2>4, <2>5, <2>6 DEF IInv, TypeOK, Delivered
<1> QED  BY <1>1, <1>2

\* When w forgets its job, or keeps it, all the rest is kept.
LEMMA ForgetKeeps ==
    ASSUME IInv, NEW w \in Worker, results \subseteq results', handed' = handed,
           \/ Forget(w)
           \/ UNCHANGED <<job, outcome>> /\ DOMAIN tries' = Worker
    PROVE  PerWorker' /\ JobsOffered' /\ OutcomesGood'
<1>1. PerWorker'
  BY DEF IInv, PerWorker, Forget
<1>2. \A v \in Worker : job'[v] \in {job[v], NoJob} /\ outcome'[v] \in {outcome[v], Failed}
  BY DEF IInv, PerWorker, Forget
<1>3. JobsOffered'
  <2>1. SUFFICES ASSUME NEW v \in Worker, job'[v] # NoJob
                 PROVE  \E id \in 1 .. handed' : job'[v] \in Offered(id)'
    BY DEF JobsOffered, NoJob
  <2>2. PICK id \in 1 .. handed : job[v] \in Offered(id)
    BY <1>2, <2>1 DEF IInv, JobsOffered
  <2>3. job'[v] = job[v] /\ Offered(id) \subseteq Offered(id)'
    BY <1>2, <2>1, OfferedMonotone
  <2> QED  BY <2>2, <2>3
<1>4. OutcomesGood'
  <2>1. \A v \in Worker : GoodOutcome(outcome'[v], results)
    BY <1>2 DEF IInv, OutcomesGood, GoodOutcome
  <2>2. \A v \in Worker : GoodOutcome(outcome'[v], results')
    BY <2>1, GoodOutcomeMonotone
  <2> QED  BY <2>2 DEF OutcomesGood, GoodOutcome, GoodResult, GoodProof, RunSource, Input,
                      ModelIO, ChunkProof, Chunk, Failed
<1> QED  BY <1>1, <1>3, <1>4

\* A worker that forgets its job and then asks for another or stops.
LEMMA ForgetTyped ==
    ASSUME IInv, NEW w \in Worker, Forget(w), NEW x \in {"request", "stopped"},
           pc' = [pc EXCEPT ![w] = x], handed' = handed, answered' \subseteq 1 .. handed'
    PROVE  TypeOK'
<1>1. job'[w] = NoJob /\ outcome'[w] = Failed /\ tries'[w] = 0
  BY DEF Forget, IInv, PerWorker
<1>2. \A v \in Worker \ {w} :
        job'[v] = job[v] /\ outcome'[v] = outcome[v] /\ tries'[v] = tries[v]
  BY DEF Forget, IInv, PerWorker
<1>3. 0 \in 0 .. ATTEMPTS - 1
  BY AttemptsAssumption
<1>4. pc' \in [Worker -> {"request", "process", "report", "stopped"}]
  BY DEF IInv, TypeOK
<1>5. \A v \in Worker :
        /\ pc'[v] \in {"process", "report"} <=> job'[v] # NoJob
        /\ pc'[v] # "report" => outcome'[v] = Failed
        /\ tries'[v] \in 0 .. ATTEMPTS - 1
  BY <1>1, <1>2, <1>3 DEF IInv, TypeOK
<1> QED  BY <1>4, <1>5 DEF IInv, TypeOK, NoJob, Failed

LEMMA ReportOkInv ==
    ASSUME IInv, NEW w \in Worker, ReportOk(w)
    PROVE  IInv'
<1>1. /\ results \subseteq results' /\ ResultsGrounded' /\ FinalProofComplete'
      /\ answered' \subseteq 1 .. handed'
  BY DeliveredGood DEF ReportOk
<1>2. PerWorker' /\ JobsOffered' /\ OutcomesGood'
  BY <1>1, ForgetKeeps DEF ReportOk
<1>3. TypeOK'
  BY <1>1, ForgetTyped DEF ReportOk
<1> QED  BY <1>1, <1>2, <1>3 DEF IInv

LEMMA ReportFailsInv ==
    ASSUME IInv, NEW w \in Worker, ReportFails(w)
    PROVE  IInv'
<1>1. /\ results \subseteq results' /\ ResultsGrounded' /\ FinalProofComplete'
      /\ answered' \subseteq 1 .. handed'
  BY DeliveredGood DEF ReportFails
<1>2. CASE LastTry(w)
  <2>1. Forget(w) /\ pc' = [pc EXCEPT ![w] = "stopped"] /\ handed' = handed
    BY <1>2 DEF ReportFails
  <2>2. PerWorker' /\ JobsOffered' /\ OutcomesGood'
    BY <1>1, <2>1, ForgetKeeps
  <2>3. TypeOK'
    BY <1>1, <2>1, ForgetTyped
  <2> QED  BY <1>1, <2>2, <2>3 DEF IInv
<1>3. CASE ~LastTry(w)
  <2>1. tries' = [tries EXCEPT ![w] = @ + 1] /\ UNCHANGED <<pc, job, outcome, handed>>
    BY <1>3 DEF ReportFails
  <2>2. PerWorker' /\ JobsOffered' /\ OutcomesGood'
    BY <1>1, <2>1, ForgetKeeps DEF IInv, PerWorker
  <2>3. \A v \in Worker : tries'[v] \in 0 .. ATTEMPTS - 1
    BY <1>3, <2>1, AttemptsAssumption DEF IInv, TypeOK, PerWorker, LastTry
  <2>4. TypeOK'
    BY <1>1, <2>1, <2>3 DEF IInv, TypeOK, NoJob, Failed
  <2> QED  BY <1>1, <2>2, <2>4 DEF IInv
<1> QED  BY <1>2, <1>3

LEMMA CrashInv ==
    ASSUME IInv, NEW w \in Worker, Crash(w)
    PROVE  IInv'
<1>1. ResultsGrounded' /\ FinalProofComplete'
  BY KeepsGood DEF Crash
<1>2. PerWorker' /\ JobsOffered' /\ OutcomesGood'
  BY ForgetKeeps DEF Crash
<1>3. answered' \subseteq 1 .. handed'
  BY DEF IInv, TypeOK, Crash
<1>4. TypeOK'
  BY <1>3, ForgetTyped DEF Crash
<1> QED  BY <1>1, <1>2, <1>4 DEF IInv

LEMMA RestartInv ==
    ASSUME IInv, NEW w \in Worker, Restart(w)
    PROVE  IInv'
<1>1. PerWorker'
  BY DEF IInv, PerWorker, Restart
<1>2. handed \in Nat
  BY BoundsAssumption DEF IInv, TypeOK
<1>3. PerWorker' /\ JobsOffered' /\ OutcomesGood' /\ ResultsGrounded' /\ FinalProofComplete'
  BY <1>1, <1>2, StepOfOne DEF Restart
<1>4. TypeOK'
  BY DEF IInv, TypeOK, Restart, NoJob, Failed
<1> QED  BY <1>3, <1>4 DEF IInv

LEMMA StutterInv ==
    ASSUME IInv, UNCHANGED vars
    PROVE  IInv'
<1>1. \A id : Offered(id)' = Offered(id)
  BY DEF vars, Offered, SomeResults
<1> QED
  BY <1>1 DEF IInv, vars, TypeOK, PerWorker, JobsOffered, OutcomesGood, ResultsGrounded,
              FinalProofComplete, GoodOutcome, GoodResult, GoodProof, NoJob, Failed

---------------------------------------------------------------------------
(* The theorems. *)

\* IInv is an invariant of process_job and the worker loop, however many
\* chunks, workers and jobs there are.
THEOREM Invariance == Spec => []IInv
<1>1. Init => IInv
  BY InitHolds
<1>2. IInv /\ [Next]_vars => IInv'
  BY TakeJobInv, MalformedJobInv, ProcessJobInv, ReportOkInv, ReportFailsInv, CrashInv,
     RestartInv, StutterInv DEF Next, Work
<1> QED  BY <1>1, <1>2, PTL DEF Spec

\* The states of the worker loop are consistent: a job is held exactly while
\* it is worked on, retries stay below ATTEMPTS, answers are for real jobs.
THEOREM TypeCorrectness == Spec => []TypeOK
<1>1. IInv => TypeOK
  BY DEF IInv
<1> QED  BY <1>1, Invariance, PTL

\* process_job never sends a final proof that lacks a chunk, has one twice or
\* in another's place, or one that no inference accounts for.
THEOREM ProofsAreComplete == Spec => []FinalProofComplete
<1>1. IInv => FinalProofComplete
  BY DEF IInv
<1> QED  BY <1>1, Invariance, PTL

\* run_chunk_partition returns a chunk's proof only for what chunk 0 computed
\* for that chunk.
THEOREM ResultsAreGrounded == Spec => []ResultsGrounded
<1>1. IInv => ResultsGrounded
  BY DEF IInv
<1> QED  BY <1>1, Invariance, PTL

\* The loop of lpn/http.rs goes on to the next job only after an answer.
THEOREM NoJobIsDropped == Spec => JobsAreAnswered
<1>1. IInv /\ [Next]_vars =>
        [\A w \in Worker :
            job[w] # NoJob /\ job'[w] = NoJob =>
                job[w].id \in answered' \/ pc'[w] = "stopped"]_vars
  <2> SUFFICES ASSUME IInv, Next, NEW w \in Worker, job[w] # NoJob, job'[w] = NoJob
               PROVE  job[w].id \in answered' \/ pc'[w] = "stopped"
    BY DEF vars
  <2>1. PICK v \in Worker :
          TakeJob(v) \/ MalformedJob(v) \/ Work(v) \/ Crash(v) \/ Restart(v)
    BY DEF Next
  <2>2. CASE TakeJob(v)
    <3>1. PICK j \in Offered(handed + 1) : job' = [job EXCEPT ![v] = j]
      BY <2>2 DEF TakeJob
    <3>2. j # NoJob
      BY OfferedIsJob DEF NoJob
    <3> QED  BY <3>1, <3>2 DEF IInv, PerWorker
  <2>3. CASE UNCHANGED job
    BY <2>3
  <2>4. CASE ReportOk(v)
    <3>1. v = w
      BY <2>4 DEF ReportOk, Forget, IInv, PerWorker
    <3> QED  BY <2>4, <3>1 DEF ReportOk, Delivered
  <2>5. CASE ReportFails(v)
    <3>1. v = w /\ LastTry(v)
      BY <2>5 DEF ReportFails, Forget, IInv, PerWorker
    <3> QED  BY <2>5, <3>1 DEF ReportFails, IInv, TypeOK
  <2>6. CASE Crash(v)
    <3>1. v = w
      BY <2>6 DEF Crash, Forget, IInv, PerWorker
    <3> QED  BY <2>6, <3>1 DEF Crash, IInv, TypeOK
  <2> QED
    BY <2>1, <2>2, <2>3, <2>4, <2>5, <2>6 DEF Work, MalformedJob, ProcessJob, Restart
<1> QED  BY <1>1, Invariance, PTL DEF Spec, JobsAreAnswered
===========================================================================
