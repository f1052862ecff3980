------------------------ MODULE ThreadPoolExecutor ------------------------
(***************************************************************************)
(* ThreadPoolExecutor::run of zkml/src/graph/executor.rs: a coordinator    *)
(* inside a rayon scope, one rayon task per released node, and a channel   *)
(* from the tasks back to the coordinator.                                 *)
(*                                                                         *)
(* The coordinator is itself a job of the pool and its recv() blocks the   *)
(* pool thread it runs on; once the closure has returned, rayon uses that  *)
(* thread for the tasks the scope still waits for.  (rayon and crossbeam   *)
(* are external: their behaviour is taken from how run() uses them.)       *)
(***************************************************************************)
EXTENDS GraphScheduler

CONSTANTS
    Threads,   \* the largest rayon pool
    MayErr,    \* nodes whose run() may return Err
    MayPanic   \* nodes whose run() may panic

ASSUME ThreadsAssumption == Threads \in Nat \ {0}
ASSUME FaultsAssumption == MayErr \subseteq Node /\ MayPanic \subseteq Node

VARIABLES
    threads,   \* size of the rayon pool, fixed when the pool is built
    pc,        \* where the coordinator is
    ready,     \* ready_nodes: the batch about to be spawned
    task,      \* state of the rayon task of each node
    chan,      \* messages [node, ok] sent and not yet received
    result,    \* what the closure returned
    panicked,  \* a task of the scope panicked
    final      \* what run() returned to its caller

execVars == <<threads, pc, ready, task, chan, result, panicked, final>>
allVars == <<vars, execVars>>

Message == [node : Node, ok : BOOLEAN]

ExecInit ==
    /\ Init
    /\ threads \in 1 .. Threads
    /\ pc = "start" /\ ready = {}
    /\ task = [n \in Node |-> "none"]
    /\ chan = <<>>
    /\ result = "none" /\ panicked = FALSE /\ final = "none"

RxAlive == pc # "closed"
Executing == {n \in Node : task[n] = "executing"}
Pending == {n \in Node : task[n] \in {"queued", "executing"}}

\* Pool threads that can take a task.
FreeThreads ==
    threads - Cardinality(Executing) - (IF pc = "closed" THEN 0 ELSE 1)

\* scheduler.with_release_policy(ReleasePolicy::All), whatever policy the
\* caller's scheduler has.
ReleaseAll ==
    /\ pc = "start"
    /\ WithReleasePolicy("All")
    /\ pc' = "init"
    /\ UNCHANGED <<threads, ready, task, chan, result, panicked, final>>

\* scheduler.init_nodes(input_data)?
CallInit ==
    /\ pc = "init"
    /\ InitNodes
    /\ ready' = running'
    /\ pc' = "loop"
    /\ UNCHANGED <<threads, task, chan, result, panicked, final>>

BugSpawnReady ==        \* spawns one node per turn of the loop
    /\ pc = "loop" /\ ~IsDone
    /\ IF ready = {} THEN UNCHANGED <<task, ready>>
       ELSE LET n == CHOOSE n \in ready : TRUE
            IN  task' = [task EXCEPT ![n] = "queued"] /\ ready' = ready \ {n}
    /\ pc' = "recv"
    /\ UNCHANGED <<vars, threads, chan, result, panicked, final>>

\* while !is_done: spawn every ready node, then wait.
SpawnReady ==
    /\ pc = "loop" /\ ~IsDone
    /\ task' = [n \in Node |-> IF n \in ready THEN "queued" ELSE task[n]]
    /\ ready' = {}
    /\ pc' = "recv"
    /\ UNCHANGED <<vars, threads, chan, result, panicked, final>>

\* Leave the closure, dropping the receiver.
Close(r) == pc' = "closed" /\ result' = r

ReturnOutputs ==
    /\ pc = "loop" /\ IsDone
    /\ Close("ok")
    /\ UNCHANGED <<vars, threads, ready, task, chan, panicked, final>>

RecvOk ==
    /\ pc = "recv" /\ chan # <<>> /\ Head(chan).ok
    /\ chan' = Tail(chan)
    /\ \/ MarkDone(Head(chan).node) /\ pc' = "next" /\ UNCHANGED result
       \/ MarkDoneErr(Head(chan).node) /\ Close("err")
    /\ UNCHANGED <<threads, ready, task, panicked, final>>

BugRecvErr ==           \* logs the error and leaves the loop
    /\ pc = "recv" /\ chan # <<>> /\ ~Head(chan).ok
    /\ chan' = Tail(chan)
    /\ Close("ok")
    /\ UNCHANGED <<vars, threads, ready, task, panicked, final>>

RecvErr ==
    /\ pc = "recv" /\ chan # <<>> /\ ~Head(chan).ok
    /\ chan' = Tail(chan)
    /\ Close("err")
    /\ UNCHANGED <<vars, threads, ready, task, panicked, final>>

\* ready_nodes = scheduler.next_ready_nodes()?
CallNext ==
    /\ pc = "next"
    /\ \/ \E R \in SUBSET Node : NextReady(R) /\ ready' = R
       \/ Accepted({}) /\ ready' = {} /\ UNCHANGED vars
    /\ pc' = "loop"
    /\ UNCHANGED <<threads, task, chan, result, panicked, final>>

BeginTask(n) ==
    /\ task[n] = "queued" /\ FreeThreads > 0
    /\ task' = [task EXCEPT ![n] = "executing"]
    /\ UNCHANGED <<vars, threads, pc, ready, chan, result, panicked, final>>

BugEndTask(n, ok) ==    \* sends successful results only
    /\ task[n] = "executing"
    /\ ok \/ n \in MayErr
    /\ task' = [task EXCEPT ![n] = "over"]
    /\ chan' = IF ok THEN Append(chan, [node |-> n, ok |-> TRUE]) ELSE chan
    /\ UNCHANGED <<vars, threads, pc, ready, result, panicked, final>>

\* node.run returned and the task sends its result; send().expect() panics
\* when the coordinator has dropped the receiver.
EndTask(n, ok) ==
    /\ task[n] = "executing"
    /\ ok \/ n \in MayErr
    /\ task' = [task EXCEPT ![n] = "over"]
    /\ IF RxAlive
       THEN /\ chan' = Append(chan, [node |-> n, ok |-> ok])
            /\ UNCHANGED panicked
       ELSE panicked' = TRUE /\ UNCHANGED chan
    /\ UNCHANGED <<vars, threads, pc, ready, result, final>>

\* node.run itself panicked: rayon keeps the panic for the end of the scope
\* and nothing is sent.
PanicTask(n) ==
    /\ task[n] = "executing" /\ n \in MayPanic
    /\ task' = [task EXCEPT ![n] = "over"]
    /\ panicked' = TRUE
    /\ UNCHANGED <<vars, threads, pc, ready, chan, result, final>>

\* The scope ends when the closure and all its tasks have: a panic of any
\* task is resumed, otherwise run() returns what the closure did.
EndScope ==
    /\ pc = "closed" /\ Pending = {} /\ final = "none"
    /\ final' = IF panicked THEN "panic" ELSE result
    /\ UNCHANGED <<vars, threads, pc, ready, task, chan, result, panicked>>

TaskStep(n) ==
    BeginTask(n) \/ (\E ok \in BOOLEAN : EndTask(n, ok)) \/ PanicTask(n)

Coordinator ==
    ReleaseAll \/ CallInit \/ SpawnReady \/ ReturnOutputs \/ RecvOk \/ RecvErr
        \/ CallNext \/ EndScope

Returned == final # "none" /\ UNCHANGED allVars

ExecNext == Coordinator \/ (\E n \in Node : TaskStep(n)) \/ Returned

---------------------------------------------------------------------------
\* The state of run() and of its tasks keeps its types.
ExecTypeOK ==
    /\ TypeOK
    /\ threads \in 1 .. Threads
    /\ pc \in {"start", "init", "loop", "recv", "next", "closed"}
    /\ ready \subseteq Node
    /\ task \in [Node -> {"none", "queued", "executing", "over"}]
    /\ chan \in Seq(Message)
    /\ result \in {"none", "ok", "err"}
    /\ panicked \in BOOLEAN
    /\ final \in {"none", "ok", "err", "panic"}

\* Nodes whose task is over and whose result is nowhere.
Lost == {n \in Node : task[n] = "over"} \ ({chan[i].node : i \in 1 .. Len(chan)} \cup done)

\* While the coordinator is alive, a node the scheduler holds to be running
\* is in exactly one place: the ready batch, a live task, or a message; and
\* no node is anywhere else.  Only a panic loses a result.
RunningAccountedFor ==
    LET inChan == {chan[i].node : i \in 1 .. Len(chan)}
    IN  pc # "closed" =>
          /\ running = ready \cup Pending \cup inChan \cup Lost
          /\ ready \cap (Pending \cup inChan \cup Lost) = {}
          /\ Pending \cap inChan = {}
          /\ Cardinality(inChan) = Len(chan)
          /\ Lost # {} => panicked
===========================================================================
