------------------------ MODULE SequentialExecutor ------------------------
(***************************************************************************)
(* SequentialExecutor::run of zkml/src/graph/executor.rs: run the whole    *)
(* batch of ready nodes, mark each of them done, ask for the next batch.   *)
(* The worker runs its partitions with it (worker/lpn/proving.rs).         *)
(***************************************************************************)
EXTENDS GraphScheduler

CONSTANT MayErr    \* nodes whose run() may return Err

VARIABLES
    pc,     \* "start", "run" a batch, "mark" its nodes done, "over"
    batch,  \* ready_nodes not yet run
    ran,    \* nodes of the batch already run, not yet marked done
    final   \* what run() returned

allVars == <<vars, pc, batch, ran, final>>

SeqInit == Init /\ pc = "start" /\ batch = {} /\ ran = {} /\ final = "none"

CallInit ==
    /\ pc = "start"
    /\ InitNodes
    /\ batch' = running' /\ pc' = "run"
    /\ UNCHANGED <<ran, final>>

Return(r) == final' = r /\ pc' = "over"

\* while !scheduler.is_done(): run the batch; `?` returns the first error.
RunNode(n) ==
    /\ pc = "run" /\ ~IsDone
    /\ n \in batch
    /\ batch' = batch \ {n}
    /\ \/ ran' = ran \cup {n} /\ UNCHANGED <<pc, final>>
       \/ n \in MayErr /\ Return("err") /\ UNCHANGED ran
    /\ UNCHANGED vars

BatchRun ==
    /\ pc = "run" /\ ~IsDone /\ batch = {}
    /\ pc' = "mark"
    /\ UNCHANGED <<vars, batch, ran, final>>

\* mark_done(...).unwrap(): an Err of the scheduler is a panic.
MarkNode(n) ==
    /\ pc = "mark" /\ n \in ran
    /\ ran' = ran \ {n}
    /\ \/ MarkDone(n) /\ UNCHANGED <<pc, final>>
       \/ MarkDoneErr(n) /\ Return("panic")
    /\ UNCHANGED batch

NextBatch ==
    /\ pc = "mark" /\ ran = {}
    /\ \/ \E R \in SUBSET Node : NextReady(R) /\ batch' = R
       \/ Accepted({}) /\ batch' = {} /\ UNCHANGED vars
    /\ pc' = "run"
    /\ UNCHANGED <<ran, final>>

ReturnOutputs ==
    /\ pc = "run" /\ IsDone
    /\ Return("ok")
    /\ UNCHANGED <<vars, batch, ran>>

Returned == final # "none" /\ UNCHANGED allVars

SeqNext ==
    \/ CallInit \/ BatchRun \/ NextBatch \/ ReturnOutputs \/ Returned
    \/ \E n \in Node : RunNode(n) \/ MarkNode(n)

---------------------------------------------------------------------------
\* The state of run() keeps its types.
SeqTypeOK ==
    /\ TypeOK
    /\ pc \in {"start", "run", "mark", "over"}
    /\ batch \subseteq Node /\ ran \subseteq Node
    /\ final \in {"none", "ok", "err", "panic"}

\* The scheduler's running nodes are exactly those of the current batch, run
\* or not: between batches nothing is left running, so every batch starts
\* from a state where the colour policy has no earlier node to respect.
BatchIsRunning == final = "none" => running = batch \cup ran
===========================================================================
