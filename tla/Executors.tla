---------------------------- MODULE Executors ----------------------------
(***************************************************************************)
(* The GraphExecutor trait of zkml/src/graph/executor.rs: a caller runs a  *)
(* graph with one of the two executors and knows only the contract of      *)
(* run(), which is stated here for both.  Which of them it is is chosen at *)
(* the start, as the two constructors do; the batch of the sequential one  *)
(* is the ready_nodes of the other.  The scheduler comes from the caller,   *)
(* with the release policy it likes: the sequential executor keeps it, the *)
(* pool replaces it.                                                       *)
(***************************************************************************)
EXTENDS ThreadPoolExecutor

VARIABLES
    executor,  \* "pool" or "sequential"
    ran        \* nodes of the batch run and not yet marked done

Sequential == INSTANCE SequentialExecutor WITH batch <- ready

runVars == <<allVars, executor, ran>>

RunInit ==
    /\ ExecInit
    /\ ran = {}
    /\ executor \in {"pool", "sequential"}

InPool == executor = "pool" /\ UNCHANGED <<executor, ran>>

InSequence ==
    executor = "sequential" /\ UNCHANGED <<executor, threads, task, chan, result, panicked>>

PoolStep(n) == InPool /\ TaskStep(n)

\* The caller makes its scheduler before it calls run().
CallerPolicy ==
    /\ pc = "start"
    /\ \E p \in ReleasePolicy : WithReleasePolicy(p)
    /\ UNCHANGED <<execVars, executor, ran>>

RunNext ==
    \/ CallerPolicy
    \/ InPool /\ ExecNext
    \/ InSequence /\ Sequential!SeqNext

\* The pool schedules its threads: the coordinator runs when it is not
\* waiting for a message, a task when it has a thread.  The sequential
\* executor is one thread, which keeps going until it returns.
RunSpec ==
    /\ RunInit /\ [][RunNext]_runVars
    /\ WF_runVars(InPool /\ Coordinator)
    /\ \A n \in Node : WF_runVars(PoolStep(n))
    /\ WF_runVars(InSequence /\ Sequential!SeqNext)

---------------------------------------------------------------------------
\* The state of run() keeps its types, whichever executor it is.
RunTypeOK ==
    IF executor = "pool" THEN ExecTypeOK /\ ran = {} ELSE Sequential!SeqTypeOK

\* RunningAccountedFor of ThreadPoolExecutor, BatchIsRunning of
\* SequentialExecutor: each executor knows where every running node is.
KeepsTrack ==
    IF executor = "pool" THEN RunningAccountedFor ELSE Sequential!BatchIsRunning

\* run() returns Ok exactly when every node was executed and none failed, and
\* then nothing of it is left behind: no task, message or batch.
OkMeansComplete ==
    final # "none" =>
        (final = "ok" <=>
            /\ IsDone /\ ~failed /\ ~panicked
            /\ chan = <<>> /\ Pending = {} /\ ready = {} /\ ran = {})

\* A run that ends neither with Ok nor with an error or a panic: a pool of
\* one thread, which the coordinator keeps to itself; a task that panicked
\* while the coordinator waits for its message; a source that was given no
\* input, of which the pool's recv() never hears and over which the
\* sequential executor spins, unless something else fails.
Hangs ==
    \/ executor = "pool" /\ threads = 1
    \/ executor = "pool" /\ panicked /\ RxAlive
    \/ ~SourcesFed /\ final \notin {"err", "panic"}

\* run() comes back, with Ok, an error or a panic, in every case but these
\* three (executor.rs:108, executor.rs:220), and in these three it never does.
RunReturns == <>[](final = "none" <=> Hangs)

\* A node's run has failed, by returning an error or by panicking.
NodeFailed ==
    panicked \/ result = "err" \/ \E i \in 1 .. Len(chan) : ~chan[i].ok

\* executor.rs:54 "Returns an error if any node execution fails or if there
\* are scheduling/coordination issues".
FailureIsReturned == NodeFailed ~> (final = "err")
==========================================================================
