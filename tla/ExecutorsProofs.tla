-------------------------- MODULE ExecutorsProofs --------------------------
(***************************************************************************)
(* For every graph, policy of the caller, pool size and choice of failing  *)
(* nodes: each executor keeps track of the nodes it has running, and run() *)
(* returns Ok exactly when all nodes were executed.                        *)
(*                                                                         *)
(* The argument: the scheduler's own invariant is kept, since an executor  *)
(* only calls its operations; while the coordinator lives, running nodes   *)
(* are split between the batch, the tasks, the channel and what a panic    *)
(* has lost (PoolTracks), so that nothing can be left when none is running *)
(* and an error always leaves one running or the scheduler failed.         *)
(***************************************************************************)
EXTENDS Executors, GraphSchedulerProofs, FiniteSetTheorems

InChan == {chan[i].node : i \in 1 .. Len(chan)}

\* No two messages of the channel are of one node.
Distinct == \A i, j \in 1 .. Len(chan) : chan[i].node = chan[j].node => i = j

\* Where the running nodes of the pool are, as long as somebody listens.
PoolTracks ==
    /\ running = ready \cup Pending \cup InChan \cup Lost
    /\ ready \cap (Pending \cup InChan \cup Lost) = {}
    /\ Pending \cap InChan = {}
    /\ Distinct

PoolInv ==
    /\ ExecTypeOK
    /\ ran = {}
    /\ pc # "closed" =>
          /\ PoolTracks /\ (panicked <=> Lost # {})
          /\ ~failed /\ result = "none" /\ final = "none"
    /\ pc \in {"recv", "next"} => ready = {}
    /\ pc = "closed" => result \in {"ok", "err"}
    /\ result = "ok" =>
          IsDone /\ ~failed /\ ~panicked /\ chan = <<>> /\ Pending = {} /\ ready = {}
    /\ result = "err" => failed \/ running # {}
    /\ final # "none" => Pending = {} /\ final = IF panicked THEN "panic" ELSE result

SeqInv ==
    /\ pc \in {"start", "run", "mark", "over"}
    /\ ready \subseteq Node /\ ran \subseteq Node
    /\ final \in {"none", "ok", "err", "panic"}
    /\ ~panicked /\ chan = <<>> /\ task = [n \in Node |-> "none"]
    /\ final = "none" => ~failed /\ running = ready \cup ran
    /\ final # "none" => pc = "over"
    /\ pc = "mark" => ready = {}
    /\ final = "ok" => IsDone /\ ~failed /\ ready = {} /\ ran = {}
    /\ final \in {"err", "panic"} => failed \/ running # {}

RunInv ==
    /\ IInv
    /\ executor \in {"pool", "sequential"}
    /\ executor = "pool" => PoolInv
    /\ executor = "sequential" => SeqInv

---------------------------------------------------------------------------
\* Both executors call the same scheduler (scheduler.rs:280).
LEMMA SameScheduler ==
    /\ Sequential!InitNodes <=> InitNodes
    /\ \A n : Sequential!MarkDone(n) <=> MarkDone(n)
    /\ \A n : Sequential!MarkDoneErr(n) <=> MarkDoneErr(n)
    /\ \A R : Sequential!NextReady(R) <=> NextReady(R)
    /\ \A R : Sequential!Accepted(R) <=> Accepted(R)
    /\ Sequential!IsDone <=> IsDone
    /\ Sequential!TypeOK <=> TypeOK
    /\ Sequential!vars = vars
<1>0. \A S : Sequential!Cardinality(S) = Cardinality(S)
  BY DEF Sequential!Cardinality, Cardinality
<1>1. Sequential!InitNodes <=> InitNodes
  BY DEF Sequential!Cardinality, Cardinality, Sequential!InitNodes, InitNodes,
         Sequential!IsSource, IsSource, Sequential!Incoming, Incoming,
         Sequential!FeedPorts, FeedPorts, Sequential!IntoValues, IntoValues,
         Sequential!In, In
<1>2. \A n : Sequential!MarkDone(n) <=> MarkDone(n)
  BY DEF Sequential!MarkDone, MarkDone, Sequential!Filled, Filled, Sequential!Outgoing,
         Outgoing, Sequential!Datum, Datum, Sequential!Out, Out, Sequential!Unlinked, Unlinked
<1>3. \A n : Sequential!MarkDoneErr(n) <=> MarkDoneErr(n)
  BY DEF Sequential!MarkDoneErr, MarkDoneErr, Sequential!Filled, Filled, Sequential!Outgoing,
         Outgoing, Sequential!Datum, Datum, Sequential!Out, Out
<1>4. \A R : Sequential!Accepted(R) <=> Accepted(R)
  BY DEF Sequential!Accepted, Accepted, Sequential!Candidates, Candidates,
         Sequential!Incoming, Incoming
<1>5. \A n : Sequential!ReadyInputs(n) = ReadyInputs(n)
  BY DEF Sequential!Cardinality, Cardinality, Sequential!ReadyInputs, ReadyInputs,
         Sequential!EdgePorts, EdgePorts,
         Sequential!WaitingPorts, WaitingPorts, Sequential!EdgeInto, EdgeInto,
         Sequential!Incoming, Incoming, Sequential!IntoValues, IntoValues, Sequential!In, In
<1>6. \A R : Sequential!NextReady(R) <=> NextReady(R)
  BY <1>4, <1>5 DEF Sequential!NextReady, NextReady
<1>7. Sequential!IsDone <=> IsDone
  BY <1>0 DEF Sequential!IsDone, IsDone
<1>8. (Sequential!TypeOK <=> TypeOK) /\ Sequential!vars = vars
  BY DEF Sequential!TypeOK, TypeOK, Sequential!ReleasePolicy, ReleasePolicy, Sequential!Data, Data, Sequential!vars, vars
<1> QED BY <1>1, <1>2, <1>3, <1>4, <1>6, <1>7, <1>8

---------------------------------------------------------------------------
LEMMA ChanTail ==
    ASSUME chan \in Seq(Message), chan # <<>>, Distinct, chan' = Tail(chan)
    PROVE  /\ Head(chan) \in Message /\ Head(chan).node \in InChan
           /\ InChan' = InChan \ {Head(chan).node}
           /\ chan' \in Seq(Message) /\ Distinct'
<1>1. /\ Head(chan) = chan[1] /\ Head(chan) \in Message /\ Len(chan) \in Nat \ {0}
      /\ chan' \in Seq(Message) /\ Len(chan') = Len(chan) - 1
      /\ \A i \in 1 .. Len(chan') : chan'[i] = chan[i + 1]
  OBVIOUS
<1>2. Head(chan).node \in InChan
  BY <1>1 DEF InChan
<1>3. InChan' = {chan'[i].node : i \in 1 .. Len(chan')}
  BY DEF InChan
<1>4. ASSUME NEW x \in InChan' PROVE x \in InChan \ {Head(chan).node}
  <2>1. PICK i \in 1 .. Len(chan') : x = chan'[i].node
    BY <1>3
  <2>2. i + 1 \in 1 .. Len(chan) /\ x = chan[i + 1].node /\ i + 1 # 1
    BY <1>1, <2>1
  <2>3. 1 \in 1 .. Len(chan)
    BY <1>1
  <2> QED BY <1>1, <2>2, <2>3 DEF InChan, Distinct
<1>5. ASSUME NEW x \in InChan \ {Head(chan).node} PROVE x \in InChan'
  <2>1. PICK i \in 1 .. Len(chan) : x = chan[i].node
    BY DEF InChan
  <2>2. i # 1
    BY <1>1, <2>1
  <2>3. i - 1 \in 1 .. Len(chan') /\ chan'[i - 1] = chan[i]
    BY <1>1, <2>2
  <2> QED BY <1>3, <2>1, <2>3
<1>6. Distinct'
  <2> SUFFICES ASSUME NEW i \in 1 .. Len(chan'), NEW j \in 1 .. Len(chan'),
                      chan'[i].node = chan'[j].node
               PROVE  i = j
    BY DEF Distinct
  <2>1. i + 1 \in 1 .. Len(chan) /\ j + 1 \in 1 .. Len(chan)
    BY <1>1
  <2>2. chan[i + 1].node = chan[j + 1].node
    BY <1>1
  <2>3. i + 1 = j + 1
    BY <2>1, <2>2 DEF Distinct
  <2> QED BY <2>3
<1> QED BY <1>1, <1>2, <1>4, <1>5, <1>6

LEMMA ChanAppend ==
    ASSUME chan \in Seq(Message), Distinct, NEW m \in Message, m.node \notin InChan,
           chan' = Append(chan, m)
    PROVE  InChan' = InChan \cup {m.node} /\ chan' \in Seq(Message) /\ Distinct'
<1>1. /\ Len(chan) \in Nat /\ Len(chan') = Len(chan) + 1 /\ chan' \in Seq(Message)
      /\ chan'[Len(chan')] = m
      /\ \A i \in 1 .. Len(chan) : chan'[i] = chan[i]
  OBVIOUS
<1>2. InChan' = {chan'[i].node : i \in 1 .. Len(chan')}
  BY DEF InChan
<1>3. ASSUME NEW x \in InChan' PROVE x \in InChan \cup {m.node}
  <2>1. PICK i \in 1 .. Len(chan') : x = chan'[i].node
    BY <1>2
  <2> QED BY <1>1, <2>1 DEF InChan
<1>4. m.node \in InChan'
  <2>1. Len(chan') \in 1 .. Len(chan')
    BY <1>1
  <2> QED BY <1>1, <1>2, <2>1
<1>5. ASSUME NEW x \in InChan PROVE x \in InChan'
  <2>1. PICK i \in 1 .. Len(chan) : x = chan[i].node
    BY DEF InChan
  <2>2. i \in 1 .. Len(chan')
    BY <1>1
  <2> QED BY <1>1, <1>2, <2>1, <2>2
<1>6. Distinct'
  <2> SUFFICES ASSUME NEW i \in 1 .. Len(chan'), NEW j \in 1 .. Len(chan'),
                      chan'[i].node = chan'[j].node
               PROVE  i = j
    BY DEF Distinct
  <2>1. \A k \in 1 .. Len(chan') :
            k = Len(chan') \/ (k \in 1 .. Len(chan) /\ chan'[k].node \in InChan)
    BY <1>1 DEF InChan
  <2>2. CASE i = Len(chan') \/ j = Len(chan')
    BY <1>1, <2>1, <2>2
  <2>3. CASE i # Len(chan') /\ j # Len(chan')
    BY <1>1, <2>1, <2>3 DEF Distinct
  <2> QED BY <2>2, <2>3
<1> QED BY <1>1, <1>3, <1>4, <1>5, <1>6

\* Fresh nodes: what next_ready_nodes releases was never started.
LEMMA ReleasedAreFresh ==
    ASSUME IInv, ~failed, NEW R \in SUBSET Node, Accepted(R)
    PROVE  R \cap Started = {}
<1>1. \A n \in R : n \in Candidates
  BY AcceptedAreCandidates
<1> QED BY <1>1, CandidateFacts DEF IInv

---------------------------------------------------------------------------
LEMMA RunInitInv == RunInit => RunInv
<1> SUFFICES ASSUME RunInit PROVE RunInv
  OBVIOUS
<1>1. IInv /\ TypeOK /\ running = {} /\ done = {} /\ failed = FALSE
  BY InitEstablishes DEF RunInit, ExecInit, Init, IInv
<1>2. /\ pc = "start" /\ threads \in 1 .. Threads /\ ready = {} /\ ran = {} /\ chan = <<>> /\ task = [n \in Node |-> "none"]
      /\ result = "none" /\ panicked = FALSE /\ final = "none"
      /\ executor \in {"pool", "sequential"}
  BY DEF RunInit, ExecInit
<1>3. InChan = {} /\ Pending = {} /\ Lost = {}
  BY <1>2 DEF InChan, Pending, Lost
<1>4. PoolInv
  <2>0. chan \in Seq(Message) /\ task \in [Node -> {"none", "queued", "executing", "over"}]
    BY <1>2
  <2>1. ExecTypeOK
    BY <1>1, <1>2, <2>0 DEF ExecTypeOK
  <2>2. PoolTracks
    BY <1>1, <1>2, <1>3 DEF PoolTracks, Distinct
  <2> QED BY <1>1, <1>2, <1>3, <2>1, <2>2 DEF PoolInv
<1>5. SeqInv
  BY <1>1, <1>2 DEF SeqInv
<1> QED BY <1>1, <1>2, <1>4, <1>5 DEF RunInv

---------------------------------------------------------------------------
\* An executor does to the scheduler what the scheduler's operations do.
LEMMA SchedulerKept ==
    ASSUME IInv,
           \/ \E p \in ReleasePolicy : WithReleasePolicy(p)
           \/ InitNodes
           \/ \E n \in Node : MarkDone(n) \/ MarkDoneErr(n)
           \/ \E R \in SUBSET Node : NextReady(R)
           \/ UNCHANGED vars
    PROVE  IInv'
BY NextPreserves DEF Next, Execute

\* The state of the pool while the coordinator lives.
Live ==
    /\ ExecTypeOK /\ ran = {} /\ pc # "closed"
    /\ PoolTracks /\ (panicked <=> Lost # {})
    /\ ~failed /\ result = "none" /\ final = "none"
    /\ pc \in {"recv", "next"} => ready = {}

LEMMA LiveIsInv == Live => PoolInv
BY DEF Live, PoolInv

LEMMA InvIsLive == PoolInv /\ pc # "closed" => Live
BY DEF Live, PoolInv

\* The batch is spawned, or the next one asked for (executor.rs:155).
LEMMA BatchStep ==
    ASSUME IInv, Live, ReleaseAll \/ CallInit \/ SpawnReady \/ CallNext, ran' = ran
    PROVE  IInv' /\ Live'
<1>1. /\ chan' = chan /\ result' = result /\ panicked' = panicked /\ final' = final
      /\ InChan' = InChan
  BY DEF ReleaseAll, CallInit, SpawnReady, CallNext, InChan
<1>2. IInv' /\ TypeOK' /\ threads' = threads
  BY SchedulerKept DEF ReleaseAll, ReleasePolicy, CallInit, SpawnReady, CallNext, IInv
<1>3. /\ IInv /\ TypeOK /\ running \subseteq Node /\ running \cap done = {}
      /\ chan \in Seq(Message)
  BY DEF IInv, TypeOK, DependencyOrder, Live, ExecTypeOK
<1>4. Distinct'
  BY <1>1 DEF Live, PoolTracks, Distinct
<1>5. CASE CallInit
  <2>1. /\ running = {} /\ done = {} /\ task' = task /\ ready' = running' /\ pc' = "loop"
        /\ done' = {} /\ failed' = failed
    BY <1>5 DEF CallInit, InitNodes
  <2>2. ready = {} /\ Pending = {} /\ InChan = {} /\ Lost = {}
    BY <2>1 DEF Live, PoolTracks
  <2>3. Pending' = Pending /\ Lost' = Lost
    BY <1>1, <2>1 DEF Pending, Lost, InChan
  <2>4. PoolTracks'
    BY <1>1, <1>4, <2>1, <2>2, <2>3 DEF PoolTracks
  <2>5. ExecTypeOK' /\ pc' # "closed"
    BY <1>1, <1>2, <2>1 DEF Live, ExecTypeOK, TypeOK
  <2> QED BY <1>1, <1>2, <2>1, <2>2, <2>3, <2>4, <2>5 DEF Live
<1>6. CASE SpawnReady
  <2>1. /\ running' = running /\ done' = done /\ failed' = failed
        /\ task' = [n \in Node |-> IF n \in ready THEN "queued" ELSE task[n]]
        /\ ready' = {} /\ pc' = "recv"
    BY <1>6 DEF SpawnReady, vars
  <2>2. ready \subseteq running /\ task \in [Node -> {"none", "queued", "executing", "over"}]
    BY DEF Live, PoolTracks, ExecTypeOK
  <2>3. Pending' = Pending \cup ready
    BY <1>3, <2>1, <2>2 DEF Pending
  <2>4. Lost' = Lost
    <3>1. ASSUME NEW n \in ready, task[n] = "over" PROVE n \in InChan \cup done
      BY <1>3, <2>2, <3>1 DEF Live, PoolTracks, Lost, InChan
    <3>2. \A n \in ready : n \notin InChan /\ n \notin done
      BY <1>3, <2>2 DEF Live, PoolTracks
    <3>3. \A n \in Node : task'[n] = "over" <=> task[n] = "over"
      BY <2>1, <2>2, <3>1, <3>2
    <3>4. {n \in Node : task[n] = "over"}' = {n \in Node : task[n] = "over"}
      BY <3>3
    <3> QED BY <1>1, <2>1, <3>4 DEF Lost, InChan
  <2>5. PoolTracks'
    BY <1>1, <1>4, <2>1, <2>3, <2>4 DEF Live, PoolTracks
  <2>6. ExecTypeOK' /\ pc' # "closed"
    <3>1. task' \in [Node -> {"none", "queued", "executing", "over"}]
      BY <2>1, <2>2
    <3> QED BY <1>1, <1>2, <2>1, <3>1 DEF Live, ExecTypeOK
  <2> QED BY <1>1, <1>2, <2>1, <2>4, <2>5, <2>6 DEF Live
<1>7. CASE CallNext
  <2>1. /\ pc = "next" /\ pc' = "loop" /\ task' = task
        /\ \E R \in SUBSET Node : /\ Accepted(R) /\ ready' = R /\ running' = running \cup R
                                  /\ done' = done /\ failed' = failed
    BY <1>7 DEF CallNext, NextReady, vars
  <2>2. PICK R \in SUBSET Node : /\ Accepted(R) /\ ready' = R /\ running' = running \cup R
                                 /\ done' = done /\ failed' = failed
    BY <2>1
  <2>3. R \cap running = {}
    BY <1>3, <2>2, ReleasedAreFresh DEF Live, Started
  <2>4. Pending' = Pending /\ Lost' = Lost
    BY <1>1, <2>1, <2>2 DEF Pending, Lost, InChan
  <2>5. PoolTracks'
    BY <1>1, <1>4, <2>1, <2>2, <2>3, <2>4 DEF Live, PoolTracks
  <2>6. ExecTypeOK' /\ pc' # "closed"
    BY <1>1, <1>2, <2>1, <2>2 DEF Live, ExecTypeOK
  <2> QED BY <1>1, <1>2, <2>1, <2>2, <2>4, <2>5, <2>6 DEF Live
<1>8. CASE ReleaseAll
  <2>1. /\ running' = running /\ done' = done /\ failed' = failed
        /\ task' = task /\ ready' = ready /\ pc' = "init"
    BY <1>8 DEF ReleaseAll, WithReleasePolicy
  <2>2. Pending' = Pending /\ Lost' = Lost
    BY <1>1, <2>1 DEF Pending, Lost, InChan
  <2>3. PoolTracks'
    BY <1>1, <1>4, <2>1, <2>2 DEF Live, PoolTracks
  <2>4. ExecTypeOK' /\ pc' # "closed"
    BY <1>1, <1>2, <2>1 DEF Live, ExecTypeOK
  <2> QED BY <1>1, <1>2, <2>1, <2>2, <2>3, <2>4 DEF Live
<1> QED BY <1>5, <1>6, <1>7, <1>8

\* A task begins, sends its result or panics while the coordinator listens
\* (executor.rs:180).
LEMMA LiveTaskStep ==
    ASSUME IInv, Live, NEW n \in Node, TaskStep(n), ran' = ran
    PROVE  IInv' /\ Live'
<1>1. /\ pc' = pc /\ ready' = ready /\ result' = result /\ final' = final /\ threads' = threads
      /\ running' = running /\ done' = done /\ failed' = failed
  BY DEF TaskStep, BeginTask, EndTask, PanicTask, vars
<1>2. IInv' /\ TypeOK'
  BY SchedulerKept DEF TaskStep, BeginTask, EndTask, PanicTask, IInv
<1>3. /\ running \cap done = {} /\ chan \in Seq(Message)
      /\ task \in [Node -> {"none", "queued", "executing", "over"}]
      /\ Distinct /\ RxAlive
  BY DEF IInv, DependencyOrder, Live, ExecTypeOK, PoolTracks, RxAlive
<1>4. CASE BeginTask(n)
  <2>1. task[n] = "queued" /\ task' = [task EXCEPT ![n] = "executing"] /\ chan' = chan
        /\ panicked' = panicked
    BY <1>4 DEF BeginTask
  <2>2. Pending' = Pending /\ Lost' = Lost /\ InChan' = InChan
    BY <1>1, <1>3, <2>1 DEF Pending, Lost, InChan
  <2>3. PoolTracks'
    BY <1>1, <2>1, <2>2 DEF Live, PoolTracks, Distinct
  <2>4. ExecTypeOK'
    BY <1>1, <1>2, <2>1 DEF Live, ExecTypeOK
  <2> QED BY <1>1, <1>2, <2>1, <2>2, <2>3, <2>4 DEF Live
<1>5. ASSUME task[n] = "executing"
      PROVE  n \in Pending /\ n \in running /\ n \notin InChan /\ n \notin done
  BY <1>3, <1>5 DEF Live, PoolTracks, Pending
<1>6. ASSUME NEW ok \in BOOLEAN, EndTask(n, ok) PROVE Live'
  <2> DEFINE m == [node |-> n, ok |-> ok]
  <2>1. /\ task[n] = "executing" /\ task' = [task EXCEPT ![n] = "over"]
        /\ chan' = Append(chan, m) /\ panicked' = panicked
    BY <1>3, <1>6 DEF EndTask
  <2>2. m \in Message /\ m.node = n
    BY DEF Message
  <2>3. InChan' = InChan \cup {n} /\ chan' \in Seq(Message) /\ Distinct'
    BY <1>3, <1>5, <2>1, <2>2, ChanAppend
  <2>4. Pending' = Pending \ {n}
    BY <1>3, <2>1 DEF Pending
  <2>5. Lost' = Lost
    <3>1. {x \in Node : task[x] = "over"}' = {x \in Node : task[x] = "over"} \cup {n}
      BY <1>3, <2>1
    <3>2. Lost' = {x \in Node : task[x] = "over"}' \ (InChan' \cup done')
      BY DEF Lost, InChan
    <3>3. Lost = {x \in Node : task[x] = "over"} \ (InChan \cup done)
      BY DEF Lost, InChan
    <3>4. n \notin Lost
      BY <2>1, <3>3
    <3> QED BY <1>1, <2>3, <3>1, <3>2, <3>3, <3>4
  <2>6. PoolTracks'
    BY <1>1, <1>5, <2>1, <2>3, <2>4, <2>5 DEF Live, PoolTracks
  <2>7. ExecTypeOK'
    BY <1>1, <1>2, <2>1, <2>3 DEF Live, ExecTypeOK
  <2> QED BY <1>1, <1>2, <2>1, <2>5, <2>6, <2>7 DEF Live
<1>7. CASE PanicTask(n)
  <2>1. /\ task[n] = "executing" /\ task' = [task EXCEPT ![n] = "over"]
        /\ chan' = chan /\ panicked' = TRUE
    BY <1>7 DEF PanicTask
  <2>2. Pending' = Pending \ {n} /\ InChan' = InChan /\ Distinct'
    BY <1>3, <2>1 DEF Pending, InChan, Distinct
  <2>3. Lost' = Lost \cup {n}
    <3>1. {x \in Node : task[x] = "over"}' = {x \in Node : task[x] = "over"} \cup {n}
      BY <1>3, <2>1
    <3>2. Lost' = {x \in Node : task[x] = "over"}' \ (InChan' \cup done')
      BY DEF Lost, InChan
    <3>3. Lost = {x \in Node : task[x] = "over"} \ (InChan \cup done)
      BY DEF Lost, InChan
    <3> QED BY <1>1, <1>5, <2>1, <2>2, <3>1, <3>2, <3>3
  <2>4. PoolTracks'
    BY <1>1, <1>5, <2>1, <2>2, <2>3 DEF Live, PoolTracks
  <2>5. ExecTypeOK'
    BY <1>1, <1>2, <2>1 DEF Live, ExecTypeOK
  <2> QED BY <1>1, <1>2, <2>1, <2>3, <2>4, <2>5 DEF Live
<1> QED BY <1>2, <1>4, <1>6, <1>7 DEF TaskStep

\* The state of the pool once the coordinator has left.
Closed ==
    /\ ExecTypeOK /\ ran = {} /\ pc = "closed"
    /\ result \in {"ok", "err"}
    /\ result = "ok" =>
          IsDone /\ ~failed /\ ~panicked /\ chan = <<>> /\ Pending = {} /\ ready = {}
    /\ result = "err" => failed \/ running # {}
    /\ final # "none" => Pending = {} /\ final = IF panicked THEN "panic" ELSE result

LEMMA ClosedIsInv == Closed <=> PoolInv /\ pc = "closed"
BY DEF Closed, PoolInv

\* The coordinator leaves with an error: a message is an error, or mark_done
\* fails (executor.rs:215).
LEMMA RecvStep ==
    ASSUME IInv, Live, RecvOk \/ RecvErr, ran' = ran
    PROVE  IInv' /\ (Live' \/ Closed')
<1> DEFINE n == Head(chan).node
<1>1. /\ ready' = ready /\ task' = task /\ panicked' = panicked /\ final' = final
      /\ threads' = threads
      /\ pc = "recv" /\ chan # <<>> /\ chan' = Tail(chan)
  BY DEF RecvOk, RecvErr
<1>2. IInv' /\ TypeOK'
  <2>1. chan[1] = Head(chan) /\ Head(chan) \in Message
    BY <1>1 DEF Live, ExecTypeOK
  <2>2. n \in Node
    BY <2>1 DEF Message
  <2> HIDE DEF n
  <2>3. MarkDone(n) \/ MarkDoneErr(n) \/ UNCHANGED vars
    BY DEF RecvOk, RecvErr, n
  <2> QED BY <2>2, <2>3, SchedulerKept DEF IInv
<1>3. /\ n \in InChan /\ InChan' = InChan \ {n} /\ chan' \in Seq(Message) /\ Distinct'
  BY <1>1, ChanTail DEF Live, ExecTypeOK, PoolTracks
<1>4. n \in running /\ ready = {} /\ running \cap done = {}
  BY <1>1, <1>3 DEF Live, PoolTracks, IInv, DependencyOrder
<1>5. CASE RecvErr
  <2>1. pc' = "closed" /\ result' = "err" /\ running' = running /\ failed' = failed
    BY <1>5 DEF RecvErr, Close, vars
  <2>2. ExecTypeOK'
    BY <1>1, <1>2, <1>3, <2>1 DEF Live, ExecTypeOK
  <2> QED BY <1>1, <1>2, <1>4, <2>1, <2>2 DEF Live, Closed
<1>6. CASE RecvOk /\ MarkDoneErr(n)
  <2>1. failed' = TRUE
    BY <1>6 DEF MarkDoneErr
  <2>2. CASE pc' = "closed" /\ result' = "err"
    <3>1. ExecTypeOK'
      BY <1>1, <1>2, <1>3, <2>2 DEF Live, ExecTypeOK
    <3> QED BY <1>1, <1>2, <2>1, <2>2, <3>1 DEF Live, Closed
  <2>3. CASE MarkDone(n)
    BY <1>6, <2>3 DEF MarkDone, MarkDoneErr
  <2> QED BY <1>6, <2>2, <2>3 DEF RecvOk, Close
<1>7. CASE MarkDone(n) /\ pc' = "next" /\ result' = result
  <2>1. running' = running \ {n} /\ done' = done \cup {n} /\ failed' = failed
    BY <1>7 DEF MarkDone
  <2> HIDE DEF n
  <2>2. Pending' = Pending
    BY <1>1 DEF Pending
  <2>3. Lost' = Lost
    <3>1. {x \in Node : task[x] = "over"}' = {x \in Node : task[x] = "over"}
      BY <1>1
    <3>2. Lost' = {x \in Node : task[x] = "over"}' \ (InChan' \cup done')
      BY DEF Lost, InChan
    <3>3. Lost = {x \in Node : task[x] = "over"} \ (InChan \cup done)
      BY DEF Lost, InChan
    <3> QED BY <1>3, <2>1, <3>1, <3>2, <3>3
  <2>4. n \notin Lost /\ n \notin Pending
    BY <1>3 DEF Live, PoolTracks, Lost, InChan
  <2>5. PoolTracks'
    BY <1>1, <1>3, <1>4, <2>1, <2>2, <2>3, <2>4 DEF Live, PoolTracks
  <2>6. ExecTypeOK'
    BY <1>1, <1>2, <1>3, <1>7 DEF Live, ExecTypeOK
  <2> QED BY <1>1, <1>2, <1>7, <2>1, <2>3, <2>5, <2>6 DEF Live
<1> QED BY <1>2, <1>5, <1>6, <1>7 DEF RecvOk

\* The loop ends when the scheduler is done: nothing of the run is left
\* (executor.rs:242).
LEMMA ReturnStep ==
    ASSUME IInv, Live, ReturnOutputs, ran' = ran
    PROVE  IInv' /\ Closed'
<1>1. /\ IsDone /\ pc' = "closed" /\ result' = "ok"
      /\ UNCHANGED <<vars, threads, ready, task, chan, panicked, final>>
  BY DEF ReturnOutputs, Close
<1>2. IInv' /\ TypeOK'
  BY <1>1, SchedulerKept DEF IInv
<1>3. ready = {} /\ Pending = {} /\ InChan = {} /\ Lost = {}
  BY <1>1 DEF IsDone, Live, PoolTracks
<1>4. chan = <<>> /\ ~panicked
  <2>1. chan \in Seq(Message) /\ ~panicked
    BY <1>3 DEF Live, ExecTypeOK
  <2>2. ASSUME chan # <<>> PROVE FALSE
    <3>1. 1 \in 1 .. Len(chan)
      BY <2>1, <2>2
    <3> QED BY <1>3, <3>1 DEF InChan
  <2> QED BY <2>1, <2>2
<1>5. IsDone' /\ ~failed' /\ Pending' = {}
  BY <1>1, <1>3 DEF IsDone, vars, Pending, Live
<1>6. ExecTypeOK'
  BY <1>1, <1>2 DEF Live, ExecTypeOK
<1> QED BY <1>1, <1>2, <1>3, <1>4, <1>5, <1>6 DEF Closed, Live

\* What is left of the tasks ends, and with it the scope (executor.rs:246).
LEMMA ClosedStep ==
    ASSUME IInv, Closed, ran' = ran, EndScope \/ \E n \in Node : TaskStep(n)
    PROVE  IInv' /\ Closed'
<1>1. /\ pc' = pc /\ ready' = ready /\ result' = result
      /\ threads' = threads /\ UNCHANGED vars
  BY DEF TaskStep, BeginTask, EndTask, PanicTask, EndScope
<1>2. IInv' /\ TypeOK' /\ running' = running /\ failed' = failed /\ (IsDone' <=> IsDone)
  BY <1>1, SchedulerKept DEF IInv, vars, IsDone
<1>3. CASE EndScope
  <2>1. /\ Pending = {} /\ final = "none" /\ final' = IF panicked THEN "panic" ELSE result
        /\ task' = task /\ chan' = chan /\ panicked' = panicked
    BY <1>3 DEF EndScope
  <2>2. Pending' = {}
    BY <2>1 DEF Pending
  <2>3. ExecTypeOK'
    BY <1>1, <1>2, <2>1 DEF Closed, ExecTypeOK
  <2> QED BY <1>1, <1>2, <2>1, <2>2, <2>3 DEF Closed
<1>4. ASSUME NEW n \in Node, TaskStep(n) PROVE Closed'
  <2>1. n \in Pending
    BY <1>4 DEF TaskStep, BeginTask, EndTask, PanicTask, Pending
  <2>2. result = "err" /\ final = "none"
    BY <2>1 DEF Closed
  <2>3. ~RxAlive
    BY DEF Closed, RxAlive
  <2>4. /\ chan' = chan /\ final' = final
        /\ task' \in [Node -> {"none", "queued", "executing", "over"}]
        /\ panicked' \in BOOLEAN
    BY <1>4, <2>3 DEF TaskStep, BeginTask, EndTask, PanicTask, Closed, ExecTypeOK
  <2>5. ExecTypeOK'
    BY <1>1, <1>2, <2>4 DEF Closed, ExecTypeOK
  <2> QED BY <1>1, <1>2, <2>2, <2>4, <2>5 DEF Closed
<1> QED BY <1>2, <1>3, <1>4

---------------------------------------------------------------------------
\* The sequential executor runs a batch, marks its nodes and asks for the next
\* (executor.rs:75).
LEMMA SequentialStep ==
    ASSUME IInv, SeqInv, Sequential!SeqNext,
           UNCHANGED <<task, chan, panicked>>
    PROVE  IInv' /\ SeqInv'
<1>1. /\ IInv /\ TypeOK /\ running \cap done = {} /\ running \subseteq Node
      /\ ~panicked' /\ chan' = <<>> /\ task' = [n \in Node |-> "none"]
  BY DEF IInv, DependencyOrder, SeqInv, TypeOK
<1>2. CASE Sequential!CallInit
  <2>1. /\ pc = "start" /\ InitNodes /\ ready' = running' /\ pc' = "run"
        /\ ran' = ran /\ final' = final
    BY <1>2, SameScheduler DEF Sequential!CallInit
  <2>2. IInv' /\ running' \subseteq Node
    BY <1>1, <2>1, SchedulerKept DEF IInv, TypeOK
  <2>3. running = {} /\ failed' = failed /\ ~failed
    BY <2>1 DEF InitNodes
  <2>4. final = "none" /\ ran = {}
    BY <2>1, <2>3 DEF SeqInv
  <2> QED BY <1>1, <2>1, <2>2, <2>3, <2>4 DEF SeqInv
<1>3. ASSUME NEW n \in Node, Sequential!RunNode(n) PROVE IInv' /\ SeqInv'
  <2>1. /\ pc = "run" /\ n \in ready /\ ready' = ready \ {n} /\ UNCHANGED vars
        /\ \/ ran' = ran \cup {n} /\ pc' = pc /\ final' = final
           \/ final' = "err" /\ pc' = "over" /\ ran' = ran
    BY <1>3, SameScheduler DEF Sequential!RunNode, Sequential!vars, vars, Sequential!Return
  <2>2. final = "none" /\ n \in running
    BY <2>1 DEF SeqInv
  <2>3. IInv' /\ running' = running /\ failed' = failed
    BY <1>1, <2>1, SchedulerKept DEF vars
  <2> QED BY <1>1, <2>1, <2>2, <2>3 DEF SeqInv
<1>4. CASE Sequential!BatchRun
  <2>1. /\ pc = "run" /\ ready = {} /\ pc' = "mark" /\ UNCHANGED vars
        /\ ready' = ready /\ ran' = ran /\ final' = final
    BY <1>4, SameScheduler DEF Sequential!BatchRun, Sequential!vars, vars
  <2>2. final = "none"
    BY <2>1 DEF SeqInv
  <2>3. IInv' /\ running' = running /\ failed' = failed
    BY <1>1, <2>1, SchedulerKept DEF vars
  <2> QED BY <1>1, <2>1, <2>2, <2>3 DEF SeqInv
<1>5. ASSUME NEW n \in Node, Sequential!MarkNode(n) PROVE IInv' /\ SeqInv'
  <2>1. /\ pc = "mark" /\ n \in ran /\ ran' = ran \ {n} /\ ready' = ready
        /\ \/ MarkDone(n) /\ pc' = pc /\ final' = final
           \/ MarkDoneErr(n) /\ final' = "panic" /\ pc' = "over"
    BY <1>5, SameScheduler DEF Sequential!MarkNode, Sequential!Return
  <2>2. final = "none" /\ ready = {}
    BY <2>1 DEF SeqInv
  <2>3. IInv'
    BY <1>1, <2>1, SchedulerKept
  <2>4. CASE MarkDone(n) /\ pc' = pc /\ final' = final
    <3>1. running' = running \ {n} /\ failed' = failed
      BY <2>4 DEF MarkDone
    <3> QED BY <1>1, <2>1, <2>2, <2>3, <2>4, <3>1 DEF SeqInv
  <2>5. CASE MarkDoneErr(n) /\ final' = "panic" /\ pc' = "over"
    <3>1. failed' = TRUE
      BY <2>5 DEF MarkDoneErr
    <3> QED BY <1>1, <2>1, <2>2, <2>3, <2>5, <3>1 DEF SeqInv
  <2> QED BY <2>1, <2>4, <2>5
<1>6. CASE Sequential!NextBatch
  <2>1. /\ pc = "mark" /\ ran = {} /\ pc' = "run" /\ ran' = ran /\ final' = final
        /\ (\E R \in SUBSET Node : NextReady(R) /\ ready' = R)
             \/ (ready' = {} /\ UNCHANGED vars)
    BY <1>6, SameScheduler DEF Sequential!NextBatch, Sequential!vars, vars
  <2>2. final = "none" /\ ready = {} /\ running = {}
    BY <2>1 DEF SeqInv
  <2>3. IInv'
    BY <1>1, <2>1, SchedulerKept
  <2>4. ready' \subseteq Node /\ running' = ready' /\ failed' = failed
    BY <2>1, <2>2 DEF NextReady, vars
  <2> QED BY <1>1, <2>1, <2>2, <2>3, <2>4 DEF SeqInv
<1>7. CASE Sequential!ReturnOutputs
  <2>1. /\ pc = "run" /\ IsDone /\ final' = "ok" /\ pc' = "over" /\ UNCHANGED vars
        /\ ready' = ready /\ ran' = ran
    BY <1>7, SameScheduler DEF Sequential!ReturnOutputs, Sequential!vars, vars, Sequential!Return
  <2>2. final = "none" /\ running = {}
    BY <2>1 DEF SeqInv, IsDone
  <2>3. IInv' /\ failed' = failed /\ IsDone'
    BY <1>1, <2>1, SchedulerKept DEF vars, IsDone
  <2> QED BY <1>1, <2>1, <2>2, <2>3 DEF SeqInv
<1>8. CASE Sequential!Returned
  <2>1. UNCHANGED vars /\ UNCHANGED <<pc, ready, ran, final>>
    BY <1>8, SameScheduler DEF Sequential!Returned, Sequential!vars, vars, Sequential!allVars
  <2>2. IInv' /\ running' = running /\ failed' = failed /\ (IsDone' <=> IsDone)
    BY <1>1, <2>1, SchedulerKept DEF vars, IsDone
  <2> QED BY <1>1, <2>1, <2>2 DEF SeqInv
<1> QED BY <1>2, <1>3, <1>4, <1>5, <1>6, <1>7, <1>8 DEF Sequential!SeqNext

---------------------------------------------------------------------------
LEMMA RunNextInv == RunInv /\ [RunNext]_runVars => RunInv'
<1> SUFFICES ASSUME RunInv, [RunNext]_runVars PROVE RunInv'
  OBVIOUS
<1>1. CASE InPool /\ ExecNext
  <2>1. executor = "pool" /\ executor' = executor /\ ran' = ran /\ IInv /\ PoolInv
    BY <1>1 DEF InPool, RunInv
  <2>2. CASE pc # "closed"
    <3>1. Live
      BY <2>1, <2>2, InvIsLive
    <3>2. ~EndScope /\ ~Returned
      BY <3>1 DEF EndScope, Returned, Live
    <3>3. IInv' /\ (Live' \/ Closed')
      BY <1>1, <2>1, <3>1, <3>2, BatchStep, LiveTaskStep, RecvStep, ReturnStep
      DEF ExecNext, Coordinator
    <3>4. PoolInv'
      BY <3>3, LiveIsInv, ClosedIsInv, PTL
    <3> QED BY <2>1, <3>3, <3>4 DEF RunInv
  <2>3. CASE pc = "closed"
    <3>1. Closed
      BY <2>1, <2>3, ClosedIsInv
    <3>2. CASE Returned
      <4>1. /\ UNCHANGED vars
            /\ UNCHANGED <<threads, pc, ready, task, chan, result, panicked, final>>
        BY <3>2 DEF Returned, allVars, execVars
      <4>2. IInv' /\ TypeOK' /\ failed' = failed /\ running' = running /\ (IsDone' <=> IsDone)
        BY <2>1, <4>1, SchedulerKept DEF vars, IsDone, IInv
      <4>3. Pending' = Pending
        BY <4>1 DEF Pending
      <4>4. ExecTypeOK'
        BY <3>1, <4>1, <4>2 DEF Closed, ExecTypeOK
      <4>5. Closed'
        BY <2>1, <3>1, <4>1, <4>2, <4>3, <4>4 DEF Closed
      <4>6. PoolInv'
        BY <4>5, ClosedIsInv, PTL
      <4> QED BY <2>1, <4>2, <4>6 DEF RunInv
    <3>3. CASE EndScope \/ \E n \in Node : TaskStep(n)
      <4>1. IInv' /\ Closed'
        BY <2>1, <3>1, <3>3, ClosedStep
      <4>2. PoolInv'
        BY <4>1, ClosedIsInv, PTL
      <4> QED BY <2>1, <4>1, <4>2 DEF RunInv
    <3> QED
      BY <1>1, <2>3, <3>2, <3>3
      DEF ExecNext, Coordinator, ReleaseAll, CallInit, SpawnReady, ReturnOutputs, RecvOk, RecvErr, CallNext
  <2> QED BY <2>2, <2>3
<1>2. CASE InSequence /\ Sequential!SeqNext
  <2>1. /\ executor = "sequential" /\ executor' = executor /\ IInv /\ SeqInv
        /\ UNCHANGED <<task, chan, panicked>>
    BY <1>2 DEF InSequence, RunInv
  <2>2. IInv' /\ SeqInv'
    BY <1>2, <2>1, SequentialStep
  <2> QED BY <2>1, <2>2 DEF RunInv
<1>3. CASE UNCHANGED runVars
  <2>1. /\ UNCHANGED vars
        /\ UNCHANGED <<threads, pc, ready, task, chan, result, panicked, final, executor, ran>>
    BY <1>3 DEF runVars, allVars, execVars
  <2>2. IInv' /\ TypeOK' /\ failed' = failed /\ running' = running /\ done' = done
        /\ (IsDone' <=> IsDone)
    BY <2>1, SchedulerKept DEF vars, IsDone, IInv, RunInv
  <2>3. Pending' = Pending /\ InChan' = InChan /\ Lost' = Lost /\ (Distinct' <=> Distinct)
    BY <2>1, <2>2 DEF Pending, InChan, Lost, Distinct
  <2>4. PoolInv => PoolInv'
    <3>1. ExecTypeOK => ExecTypeOK'
      BY <2>1, <2>2 DEF ExecTypeOK
    <3>2. PoolTracks => PoolTracks'
      BY <2>1, <2>2, <2>3 DEF PoolTracks
    <3> QED BY <2>1, <2>2, <2>3, <3>1, <3>2 DEF PoolInv
  <2>5. SeqInv => SeqInv'
    BY <2>1, <2>2 DEF SeqInv
  <2> QED BY <2>1, <2>2, <2>4, <2>5 DEF RunInv
<1>4. CASE CallerPolicy
  <2>1. /\ pc = "start" /\ \E p \in ReleasePolicy : WithReleasePolicy(p)
        /\ UNCHANGED <<threads, pc, ready, task, chan, result, panicked, final, executor, ran>>
        /\ running' = running /\ done' = done /\ failed' = failed
    BY <1>4 DEF CallerPolicy, execVars, WithReleasePolicy
  <2>2. IInv' /\ TypeOK' /\ (IsDone' <=> IsDone)
    BY <2>1, SchedulerKept DEF IsDone, IInv, RunInv
  <2>3. Pending' = Pending /\ InChan' = InChan /\ Lost' = Lost /\ (Distinct' <=> Distinct)
    BY <2>1 DEF Pending, InChan, Lost, Distinct
  <2>4. PoolInv => PoolInv'
    <3>1. ExecTypeOK => ExecTypeOK'
      BY <2>1, <2>2 DEF ExecTypeOK
    <3>2. PoolTracks => PoolTracks'
      BY <2>1, <2>3 DEF PoolTracks
    <3> QED BY <2>1, <2>2, <2>3, <3>1, <3>2 DEF PoolInv
  <2>5. SeqInv => SeqInv'
    BY <2>1, <2>2 DEF SeqInv
  <2> QED BY <2>1, <2>2, <2>4, <2>5 DEF RunInv
<1> QED BY <1>1, <1>2, <1>3, <1>4 DEF RunNext

\* Each executor only calls the scheduler, and knows where its running nodes
\* are until it returns (executor.rs:75, executor.rs:140).
THEOREM ExecutorsInvariance == RunSpec => []RunInv
<1> QED BY RunInitInv, RunNextInv, PTL DEF RunSpec

\* The state of run() keeps its types, whichever executor it is.
THEOREM RunTypeCorrectness == RunSpec => []RunTypeOK
<1>1. RunInv => RunTypeOK
  BY SameScheduler DEF RunInv, PoolInv, SeqInv, RunTypeOK, Sequential!SeqTypeOK, IInv
<1> QED BY <1>1, ExecutorsInvariance, PTL

\* The messages of different nodes are as many as the nodes they are of.
LEMMA ChanCardinality ==
    ASSUME chan \in Seq(Message), Distinct
    PROVE  Cardinality(InChan) = Len(chan)
<1> DEFINE S == 1 .. Len(chan)
           f == [i \in S |-> chan[i].node]
<1>1. Len(chan) \in Nat
  OBVIOUS
<1>2. IsFiniteSet(S) /\ Cardinality(S) = Len(chan)
  BY <1>1, FS_Interval
<1>3. f \in Bijection(S, InChan)
  BY DEF InChan, Distinct, Bijection, Injection, Surjection, IsInjective
<1>4. ExistsBijection(S, InChan)
  BY <1>3 DEF ExistsBijection
<1> QED BY <1>1, <1>4, FS_CountingElements

\* While the coordinator listens, a node the scheduler holds to be running is
\* in the batch, a live task, or the channel, unless its task panicked; in the
\* sequential executor it is in the batch (executor.rs:140).
THEOREM NoNodeIsForgotten == RunSpec => []KeepsTrack
<1>1. ASSUME RunInv PROVE KeepsTrack
  <2>1. CASE executor = "pool"
    <3>1. PoolInv
      BY <1>1, <2>1 DEF RunInv
    <3>2. ASSUME pc # "closed"
          PROVE  /\ PoolTracks /\ (Lost # {} => panicked) /\ Cardinality(InChan) = Len(chan)
      <4>1. Live
        BY <3>1, <3>2, InvIsLive
      <4> QED BY <4>1, ChanCardinality DEF Live, ExecTypeOK, PoolTracks
    <3> QED BY <2>1, <3>2 DEF KeepsTrack, RunningAccountedFor, PoolTracks, InChan
  <2>2. CASE executor = "sequential"
    BY <1>1, <2>2 DEF RunInv, SeqInv, KeepsTrack, Sequential!BatchIsRunning
  <2> QED BY <1>1, <2>1, <2>2 DEF RunInv
<1> QED BY <1>1, ExecutorsInvariance, PTL

\* run() returns Ok exactly when every node was executed, nothing failed and
\* nothing of the run is left behind (executor.rs:242).
THEOREM OkIsComplete == RunSpec => []OkMeansComplete
<1>1. ASSUME RunInv, final # "none"
      PROVE  final = "ok" <=>
                /\ IsDone /\ ~failed /\ ~panicked
                /\ chan = <<>> /\ Pending = {} /\ ready = {} /\ ran = {}
  <2>1. CASE executor = "pool"
    <3>1. PoolInv
      BY <1>1, <2>1 DEF RunInv
    <3>2. Closed
      BY <1>1, <3>1, ClosedIsInv DEF PoolInv
    <3>3. final = IF panicked THEN "panic" ELSE result
      BY <1>1, <3>2 DEF Closed
    <3>4. ASSUME final = "ok" PROVE result = "ok"
      BY <3>3, <3>4
    <3>5. ASSUME IsDone, ~failed, ~panicked PROVE final = "ok"
      BY <3>2, <3>3, <3>5 DEF Closed, IsDone
    <3> QED BY <3>2, <3>4, <3>5 DEF Closed
  <2>2. CASE executor = "sequential"
    <3>1. SeqInv
      BY <1>1, <2>2 DEF RunInv
    <3>2. Pending = {}
      BY <3>1 DEF SeqInv, Pending
    <3>3. ASSUME IsDone, ~failed PROVE final = "ok"
      BY <1>1, <3>1, <3>3 DEF SeqInv, IsDone
    <3> QED BY <3>1, <3>2, <3>3 DEF SeqInv
  <2> QED BY <1>1, <2>1, <2>2 DEF RunInv
<1>2. RunInv => OkMeansComplete
  BY <1>1 DEF OkMeansComplete
<1> QED BY <1>2, ExecutorsInvariance, PTL
============================================================================
