---------------------------- MODULE RemoteStore ----------------------------
(***************************************************************************)
(* The tensor store of kind Remote of one process: RemoteStore and         *)
(* RemoteClient of tenstore/src/remote, behind the mutex of GenStore.      *)
(*                                                                         *)
(* A call sends a command to the client's worker thread; get and put block *)
(* for the answer, prefetch and clean_up do not.  The worker selects among *)
(* commands and finished prefetches; what talks to the server is spawned   *)
(* as a task, but for put, which the worker awaits.  A call to the server  *)
(* whose connection breaks is repeated up to ATTEMPTS times, and the       *)
(* server may have carried it out, may do so later or may never have seen  *)
(* it.  The server is external, known from the calls to it.                *)
(*                                                                         *)
(* A key is an InternalKey, which names its run.  The local store is the   *)
(* DiskStore of the worker: it knows the keys it was given, has some of    *)
(* them in memory and the rest in their files; the file of a key is named  *)
(* without its run, so that the copies two runs have of one tensor are in  *)
(* one file.  Here its disk does not fail (DiskStore.tla has the rest).    *)
(* Each put stores data of its own, the number of the call; what another   *)
(* process put before is there at the start.                               *)
(***************************************************************************)
EXTENDS Integers, Sequences, FiniteSets

CONSTANTS
    Key,        \* the internal keys
    Attempts,   \* ATTEMPTS of retry_async_operation
    MaxCalls,   \* calls of the store
    MaxFaults,  \* calls to the server that go wrong
    None,       \* no data
    OnDisk,     \* known to the local store, not in its memory
    NotFound,   \* StoreError::RemoteKeyNotFound
    Failed      \* any other error

CONSTANTS
    RunOf(_),   \* the run a key belongs to
    FileOf(_),  \* rooted_at: the file of a key in the local store
    Before(_)   \* what another process has put under a key, or None

ASSUME BoundsAssumption ==
    Attempts \in Nat \ {0} /\ MaxCalls \in Nat /\ MaxFaults \in Nat
ASSUME ResultsAssumption ==
    /\ Cardinality({None, OnDisk, NotFound, Failed}) = 4
    /\ {None, OnDisk, NotFound, Failed} \cap (0 .. MaxCalls) = {}
    /\ {OnDisk, NotFound, Failed} \cap {Before(k) : k \in Key} = {}
    /\ None # "ok"
\* rooted_at has the id and the kind of the tensor, and leaves out the run.
ASSUME FilesAssumption ==
    \A k, l \in Key : RunOf(k) = RunOf(l) /\ FileOf(k) = FileOf(l) => k = l

VARIABLES
    client,      \* the call of the store, under the mutex
    queue,       \* commands sent to the worker
    worker,      \* "running", "stopping", "stopped", or "dead" of a panic
    prefetching, \* the worker's map: no entry, no subscriber, or one
    local,       \* what the local store knows: data in memory, OnDisk, or None
    files,       \* the files of the local store
    finished,    \* the channel of finished prefetches
    tasks,       \* the spawned tasks of the monitor that call the server
    sending,     \* the PUT the worker awaits
    server,      \* what the server has
    late,        \* calls the server may still carry out, though given up
    promised,    \* history: what a get of the key may return, {} for anything
    erased,      \* history: runs of which the server must keep nothing
    calls, faults  \* counters of the bounds

state == <<queue, worker, prefetching, local, files, finished, tasks, sending>>
remote == <<server, late, faults>>
history == <<promised, erased>>
vars == <<client, state, remote, history, calls>>

Data == (0 .. MaxCalls - 1) \cup ({Before(k) : k \in Key} \ {None})
Run == {RunOf(k) : k \in Key}
File == {FileOf(k) : k \in Key}
KeysOf(r) == {k \in Key : RunOf(k) = r}

Idle == [op |-> "none"]

Init ==
    /\ client = Idle /\ queue = <<>> /\ worker = "running"
    /\ prefetching = [k \in Key |-> "no"]
    /\ local = [k \in Key |-> None] /\ files = [f \in File |-> None]
    /\ finished = <<>> /\ tasks = {} /\ sending = {}
    /\ server = [k \in Key |-> Before(k)] /\ late = {} /\ faults = 0
    /\ promised = [k \in Key |-> {}] /\ erased = {}
    /\ calls = 0

---------------------------------------------------------------------------
(* RemoteClient: the calls, one at a time *)

Waiting == client.op \in {"get", "put"} /\ client.result = None

\* Puts and clean-ups are numbered: a put stores its number, and a clean-up
\* may be sent twice.
Send(cmd) ==
    /\ ~Waiting /\ client.op # "drop" /\ calls < MaxCalls /\ worker # "dead"
    /\ queue' = Append(queue, cmd)
    /\ calls' = calls + 1
    /\ UNCHANGED <<worker, prefetching, local, files, finished, tasks, sending, remote>>

Prefetch(k) ==
    /\ Send([op |-> "prefetch", on |-> k, n |-> 0])
    /\ client' = Idle
    /\ UNCHANGED history

Get(k) ==
    /\ Send([op |-> "get", on |-> k, n |-> 0])
    /\ client' = [op |-> "get", on |-> k, result |-> None]
    /\ UNCHANGED history

Put(k) ==
    /\ Send([op |-> "put", on |-> k, n |-> calls])
    /\ client' = [op |-> "put", on |-> k, result |-> None]
    /\ promised' = [promised EXCEPT ![k] = {}]
    /\ erased' = erased \ {RunOf(k)}

LatePuts(r) == {c \in late : c.op = "put" /\ RunOf(c.on) = r}

CleanUp(r) ==
    /\ Send([op |-> "clean-up", on |-> r, n |-> calls])
    /\ client' = Idle
    /\ promised' = [k \in Key |-> IF RunOf(k) = r THEN {} ELSE promised[k]]
    /\ erased' = IF LatePuts(r) = {} THEN erased \cup {r} ELSE erased

\* The worker has died and with it the end of the channel it received from:
\* every call returns an error.
SendFails(k) ==
    /\ worker = "dead" /\ client.op # "drop"
    /\ \E op \in {"get", "put"} : client' = [op |-> op, on |-> k, result |-> Failed]
    /\ UNCHANGED <<state, remote, history, calls>>

\* The client is dropped: it sends Kill and joins the worker.
Drop ==
    /\ ~Waiting /\ client.op # "drop"
    /\ client' = [op |-> "drop"]
    /\ queue' = IF worker = "dead" THEN queue ELSE Append(queue, [op |-> "kill"])
    /\ UNCHANGED <<worker, prefetching, local, files, finished, tasks, sending, remote, history, calls>>

Answer(result) == client' = [client EXCEPT !.result = result]

---------------------------------------------------------------------------
(* The worker's local store *)

InMemory(k) == local[k] \in Data

\* Data are put in memory, from where any of the others may go.
Cache(k, data) ==
    \E kept \in SUBSET {l \in Key : InMemory(l)} :
        local' = [l \in Key |-> IF l = k THEN data
                               ELSE IF InMemory(l) /\ l \notin kept THEN OnDisk
                               ELSE local[l]]

Contains(k) == InMemory(k) \/ (local[k] = OnDisk /\ files[FileOf(k)] # None)

\* What a fetch of a key that is there gives.
Fetched(k) == IF InMemory(k) THEN local[k] ELSE files[FileOf(k)]

Store(k, data) ==
    /\ files' = [files EXCEPT ![FileOf(k)] = data]
    /\ Cache(k, data)

\* The keys of the run are forgotten and their files removed, in any order, up
\* to the first that is not there.
CleanUpLocal(r) ==
    LET Paths == {FileOf(k) : k \in {k \in KeysOf(r) : local[k] # None}}
    IN  /\ local' = [k \in Key |-> IF RunOf(k) = r THEN None ELSE local[k]]
        /\ \E removed \in SUBSET {f \in Paths : files[f] # None} :
              /\ (\A f \in Paths : files[f] # None) => removed = Paths
              /\ files' = [f \in File |-> IF f \in removed THEN None ELSE files[f]]

---------------------------------------------------------------------------
(* ClientWorker: the branches of its loop *)

Selecting == worker = "running" /\ sending = {}

Task(op, cmd) == [op |-> op, on |-> cmd.on, n |-> cmd.n, tries |-> 0]

\* The promises of the other keys after data are stored for k: those that have
\* a copy in the same file may now be read from it.
Overwritten(k, data) ==
    [l \in Key |-> IF l # k /\ FileOf(l) = FileOf(k) /\ local[l] # None /\ promised[l] # {}
                  THEN promised[l] \cup {data} ELSE promised[l]]

\* A finished prefetch goes to its subscriber, or to the local store.
FinishedPrefetch ==
    /\ Selecting /\ finished # <<>>
    /\ LET k == Head(finished).on
           result == Head(finished).result
       IN /\ finished' = Tail(finished)
          /\ prefetching' = [prefetching EXCEPT ![k] = "no"]
          /\ IF prefetching[k] = "subscribed"
             THEN Answer(result) /\ UNCHANGED <<local, files, promised>>
             ELSE /\ IF result \in Data
                     THEN Store(k, result) /\ promised' = Overwritten(k, result)
                     ELSE UNCHANGED <<local, files, promised>>
                  /\ UNCHANGED client
    /\ UNCHANGED <<queue, worker, tasks, sending, remote, erased, calls>>

Receive(op) ==
    /\ Selecting /\ queue # <<>> /\ Head(queue).op = op
    /\ queue' = Tail(queue)
    /\ UNCHANGED <<worker, finished, remote, history, calls>>

BugHandlePrefetch ==
    /\ Receive("prefetch")
    /\ LET k == Head(queue).on IN
       IF Contains(k)
       THEN UNCHANGED <<prefetching, tasks>>
       ELSE /\ prefetching' = [prefetching EXCEPT ![k] = "yes"]
            /\ tasks' = tasks \cup {Task("prefetch", Head(queue))}
    /\ UNCHANGED <<client, local, files, sending>>

HandlePrefetch ==
    /\ Receive("prefetch")
    /\ LET k == Head(queue).on IN
       IF Contains(k) \/ prefetching[k] # "no"
       THEN UNCHANGED <<prefetching, tasks>>
       ELSE /\ prefetching' = [prefetching EXCEPT ![k] = "yes"]
            /\ tasks' = tasks \cup {Task("prefetch", Head(queue))}
    /\ UNCHANGED <<client, local, files, sending>>

\* The local store, a prefetch in progress to subscribe to, or the server.
HandleGet ==
    /\ Receive("get")
    /\ LET k == Head(queue).on IN
       \/ /\ Contains(k)
          /\ Answer(Fetched(k))
          /\ IF InMemory(k) THEN UNCHANGED local ELSE Cache(k, Fetched(k))
          /\ UNCHANGED <<prefetching, tasks>>
       \/ /\ local[k] = None /\ prefetching[k] # "no"
          /\ prefetching' = [prefetching EXCEPT ![k] = "subscribed"]
          /\ IF prefetching[k] = "yes" THEN UNCHANGED client ELSE Answer(Failed)
          /\ UNCHANGED <<local, tasks>>
       \/ /\ local[k] = None /\ prefetching[k] = "no"
          /\ tasks' = tasks \cup {Task("get", Head(queue))}
          /\ UNCHANGED <<client, prefetching, local>>
    /\ UNCHANGED <<files, sending>>

CleanUpsUnderWay == {c \in tasks : c.op = "clean-up"}

\* The key is known and its file is not there: file_size panics in the worker,
\* whose thread ends.  The runtime drops the tasks, but the server may still
\* carry out what it was sent; the client gets an error.
GetPanics ==
    /\ Selecting /\ queue # <<>> /\ Head(queue).op = "get"
    /\ LET k == Head(queue).on IN local[k] # None /\ ~Contains(k)
    /\ worker' = "dead" /\ queue' = <<>>
    /\ prefetching' = [k \in Key |-> "no"]
    /\ local' = [k \in Key |-> None] /\ finished' = <<>>
    /\ tasks' = {} /\ late' = late \cup {[c EXCEPT !.tries = 0] : c \in CleanUpsUnderWay}
    /\ Answer(Failed)
    /\ erased' = erased \ {c.on : c \in CleanUpsUnderWay}
    /\ UNCHANGED <<files, sending, server, faults, promised, calls>>

HandlePut ==
    /\ Receive("put")
    /\ sending' = {Task("put", Head(queue))}
    /\ UNCHANGED <<client, prefetching, local, files, tasks>>

HandleCleanUp ==
    /\ Receive("clean-up")
    /\ CleanUpLocal(Head(queue).on)
    /\ tasks' = tasks \cup {Task("clean-up", Head(queue))}
    /\ UNCHANGED <<client, prefetching, sending>>

\* Kill: the worker waits for all its tasks and ends.
BugHandleKill ==
    /\ Selecting /\ queue # <<>> /\ Head(queue).op = "kill"
    /\ queue' = Tail(queue)
    /\ worker' = "stopped" /\ tasks' = {}
    /\ UNCHANGED <<client, prefetching, local, files, finished, sending, remote, history, calls>>

HandleKill ==
    /\ Selecting /\ queue # <<>> /\ Head(queue).op = "kill"
    /\ queue' = Tail(queue)
    /\ worker' = "stopping"
    /\ UNCHANGED <<client, prefetching, local, files, finished, tasks, sending, remote, history, calls>>

JoinAll ==
    /\ worker = "stopping" /\ tasks = {}
    /\ worker' = "stopped"
    /\ UNCHANGED <<client, queue, prefetching, local, files, finished, tasks, sending, remote, history, calls>>

---------------------------------------------------------------------------
(* The server, and the calls to it *)

\* What the server has after it has carried out a PUT, or the POST that cleans
\* a run up.
Executed(c) ==
    [k \in Key |->
        CASE c.op = "put" /\ c.on = k -> c.n
          [] c.op = "clean-up" /\ c.on = RunOf(k) -> None
          [] OTHER -> server[k]]

Calling == IF worker \in {"stopped", "dead"} THEN {} ELSE tasks \cup sending

\* The server carries the call out and its reply comes.
Reply(c) ==
    IF c.op \in {"get", "prefetch"}
    THEN IF server[c.on] = None THEN NotFound ELSE server[c.on]
    ELSE None

\* What a get of the key may return besides what the put c has just left on
\* the server: an older copy in the local store, the result of a prefetch that
\* is over, and what older calls leave there that the server may still carry
\* out.
Older(k) ==
    {x \in {local[k], files[FileOf(k)]} : local[k] # None /\ x \in Data}
    \cup {finished[i].result : i \in {i \in 1 .. Len(finished) : finished[i].on = k}}
    \cup {d.n : d \in {d \in late : d.op = "put" /\ d.on = k}}
    \cup {x \in {NotFound} : \E d \in late \cup tasks : d.op = "clean-up" /\ d.on = RunOf(k)}

BugEndPrefetch(c, result) ==
    /\ c.op = "prefetch"
    /\ finished' = IF result = Failed THEN finished
                   ELSE Append(finished, [on |-> c.on, result |-> result])
    /\ UNCHANGED <<client, history>>

\* How a call ends, with what the server replied or with an error.
EndPrefetch(c, result) ==
    /\ c.op = "prefetch"
    /\ finished' = Append(finished, [on |-> c.on, result |-> result])
    /\ UNCHANGED <<client, history>>

EndGet(c, result) ==
    /\ c.op = "get"
    /\ Answer(result)
    /\ UNCHANGED <<finished, history>>

BugEndPut(c, result) ==
    /\ c.op = "put"
    /\ Answer("ok")
    /\ promised' = [promised EXCEPT ![c.on] = {c.n} \cup Older(c.on)]
    /\ UNCHANGED <<finished, erased>>

EndPut(c, result) ==
    /\ c.op = "put"
    /\ Answer(IF result = Failed THEN Failed ELSE "ok")
    /\ promised' = [promised EXCEPT ![c.on] =
                       IF result # Failed THEN {c.n} \cup Older(c.on) ELSE {}]
    /\ UNCHANGED <<finished, erased>>

EndCleanUp(c, result) ==
    /\ c.op = "clean-up"
    /\ erased' = IF result = Failed THEN erased \ {c.on} ELSE erased
    /\ UNCHANGED <<client, finished, promised>>

End(c, result) ==
    /\ tasks' = tasks \ {c} /\ sending' = sending \ {c}
    /\ \/ EndPrefetch(c, result)
       \/ EndGet(c, result)
       \/ EndPut(c, result)
       \/ EndCleanUp(c, result)

Replied(c) ==
    /\ server' = Executed(c)
    /\ End(c, Reply(c))
    /\ UNCHANGED <<queue, worker, prefetching, local, files, late, faults, calls>>

\* The server replies with an error status, which is not tried again.
Refused(c) ==
    /\ faults < MaxFaults /\ faults' = faults + 1
    /\ End(c, Failed)
    /\ UNCHANGED <<queue, worker, prefetching, local, files, server, late, calls>>

\* The connection breaks, before or after the server has the request.
Broken(c) ==
    /\ faults < MaxFaults /\ faults' = faults + 1
    /\ \/ server' = Executed(c) /\ late' = late
       \/ server' = server /\ late' = late
       \/ server' = server /\ c.op \in {"put", "clean-up"} /\ late' = late \cup {[c EXCEPT !.tries = 0]}
    /\ IF c.tries + 1 < Attempts
       THEN LET again == [c EXCEPT !.tries = @ + 1] IN
            /\ tasks' = IF c \in tasks THEN (tasks \ {c}) \cup {again} ELSE tasks
            /\ sending' = IF c \in sending THEN {again} ELSE sending
            /\ UNCHANGED <<client, finished, history>>
       ELSE End(c, Failed)
    /\ UNCHANGED <<queue, worker, prefetching, local, files, calls>>

\* The server carries out a call its caller has given up.
Late(c) ==
    /\ late' = late \ {c}
    /\ server' = Executed(c)
    /\ UNCHANGED <<client, state, faults, history, calls>>

---------------------------------------------------------------------------
Select ==
    \/ FinishedPrefetch \/ HandlePrefetch \/ HandleGet \/ HandlePut
    \/ GetPanics \/ HandleCleanUp \/ HandleKill \/ JoinAll

Serve == \E c \in Calling : Replied(c) \/ Refused(c) \/ Broken(c)

Next ==
    \/ \E k \in Key : Prefetch(k) \/ Get(k) \/ Put(k) \/ SendFails(k)
    \/ \E r \in Run : CleanUp(r)
    \/ Drop
    \/ Select
    \/ Serve
    \/ \E c \in late : Late(c)

Spec == Init /\ [][Next]_vars

\* The worker takes one of the branches of its select! that are ready, and some
\* call to the server gets a reply or breaks.
FairSpec == Spec /\ WF_vars(Select) /\ WF_vars(Serve)

---------------------------------------------------------------------------
PrefetchesOf(k) ==
    Cardinality({c \in tasks : c.op = "prefetch" /\ c.on = k})
        + Cardinality({i \in 1 .. Len(finished) : finished[i].on = k})

\* The worker's map has an entry exactly for the prefetches that are under way
\* or whose result is in the channel, one each, as its expect claims
\* (client.rs:261), and a subscriber only for the one get that waits: no second
\* get finds the key "already being received" (client.rs:181).
PrefetchEntries ==
    \A k \in Key :
        /\ (prefetching[k] # "no") = (PrefetchesOf(k) = 1)
        /\ PrefetchesOf(k) <= 1
        /\ prefetching[k] = "subscribed" => Waiting /\ client.on = k /\ queue = <<>>

\* After a put has succeeded, and until the key is put again or its run cleaned
\* up, a get returns the data of the put, by way of the local store, a prefetch
\* or the server, or what was older about the key and still under way when it
\* ended (Older), or what another run stored later in the same file: never
\* other data, and never an unknown key but after a late clean-up or a prefetch
\* from before the put (client.rs:402, client.rs:491, local.rs:37).
PromisedIsRead ==
    client.op = "get" /\ promised[client.on] # {}
        => client.result \in {None, Failed} \cup promised[client.on]

\* When the client has been dropped, the server keeps nothing of a run that was
\* cleaned up and got nothing since, unless the clean-up failed or a panic of
\* the worker came before its end: Kill comes after all requests, "especially
\* the clean up" (client.rs:272).
StoppedIsClean ==
    worker \in {"stopped", "dead"} => \A k \in Key : RunOf(k) \in erased => server[k] = None

\* Someone waits for the worker: a get or a put for its answer, or the dropped
\* client for its end.
Blocked == Waiting \/ (client.op = "drop" /\ worker \notin {"stopped", "dead"})

\* Every get and put is answered, also the get that waits for a prefetch that
\* fails or of a file that is gone, and a dropped client's worker ends
\* (client.rs:420, client.rs:555).
CallsAnswered == Blocked ~> ~Blocked
============================================================================
