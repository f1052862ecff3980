------------------------- MODULE RemoteStoreProofs -------------------------
(***************************************************************************)
(* For any keys, runs and files, any data put before, any number of calls, *)
(* and however many calls to the server break: a finished prefetch finds   *)
(* its entry, a get returns the last put or what was known to be under way *)
(* when it ended, and a worker that has ended, by Kill or by a panic, has  *)
(* left nothing of a run it cleaned up.                                    *)
(*                                                                         *)
(* The argument: the mutex makes a get or a put the last command of the    *)
(* queue, so that nothing follows it until it is answered (QueueOrder,     *)
(* OneAsked); each entry of the worker's map stands for one task or one    *)
(* result in the channel (Entries); hence, while a key is promised, nobody *)
(* puts it or cleans its run up but calls the promise counts with, and     *)
(* whatever the local store, the channel and the server have of the key is *)
(* promised (Kept); and while a run is erased either its clean-up is still *)
(* to come or the server has nothing of it (Cleaned).                      *)
(***************************************************************************)
EXTENDS RemoteStore, SequenceTheorems, FiniteSetTheorems, TLAPS

\* The commands, and the calls to the server.
Command ==
    [op : {"prefetch", "get", "put"}, on : Key, n : Data]
        \cup [op : {"clean-up"}, on : Run, n : Data]
        \cup [op : {"kill"}]

ServerCall ==
    [op : {"prefetch", "get", "put"}, on : Key, n : Data, tries : Nat]
        \cup [op : {"clean-up"}, on : Run, n : Data, tries : Nat]

Stored == Data \cup {None}
Promise == Data \cup {NotFound, Failed}

ClientOK ==
    \/ client = Idle
    \/ client = [op |-> "drop"]
    \/ /\ client = [op |-> client.op, on |-> client.on, result |-> client.result]
       /\ client.op \in {"get", "put"} /\ client.on \in Key

Types ==
    /\ ClientOK
    /\ queue \in Seq(Command)
    /\ worker \in {"running", "stopping", "stopped", "dead"}
    /\ prefetching \in [Key -> {"no", "yes", "subscribed"}]
    /\ local \in [Key -> Stored \cup {OnDisk}]
    /\ files \in [File -> Stored]
    /\ finished \in Seq([on : Key, result : Data \cup {NotFound, Failed}])
    /\ tasks \subseteq ServerCall /\ \A c \in tasks : c.op # "put"
    /\ sending \subseteq ServerCall /\ \A c \in sending : c.op = "put"
    /\ server \in [Key -> Stored]
    /\ late \subseteq ServerCall
    /\ promised \in [Key -> SUBSET Promise]
    /\ erased \subseteq Run
    /\ calls \in Nat

NobodyFetches == \A c \in tasks : c.op # "get"
NobodySubscribes == \A k \in Key : prefetching[k] # "subscribed"
Awaits(op, k) == Waiting /\ client.op = op /\ client.on = k

\* Where the call is that the client waits for.
QueueOrder ==
    \A i \in 1 .. Len(queue) :
        /\ queue[i].op \in {"get", "put"} =>
              /\ i = Len(queue) /\ Awaits(queue[i].op, queue[i].on)
              /\ sending = {} /\ NobodyFetches /\ NobodySubscribes
        /\ queue[i].op = "kill" => i = Len(queue) /\ client.op = "drop"

OneAsked ==
    /\ \A c \in tasks : c.op = "get" =>
          /\ Awaits("get", c.on) /\ queue = <<>> /\ NobodySubscribes
          /\ \A d \in tasks : d.op = "get" => d = c
    /\ \A c \in sending :
          Awaits("put", c.on) /\ queue = <<>> /\ \A d \in sending : d = c
    /\ \A k \in Key : prefetching[k] = "subscribed" => Awaits("get", k) /\ queue = <<>>

Stopping ==
    /\ worker \in {"stopping", "stopped"} => client.op = "drop"
    /\ worker # "running" => queue = <<>>
    /\ worker \in {"stopped", "dead"} => tasks = {}
    /\ worker = "dead" => sending = {} /\ finished = <<>>

\* One prefetch of a key at a time: its task or its result.
Fetching(k) == {c \in tasks : c.op = "prefetch" /\ c.on = k}
Arrived(k) == {i \in 1 .. Len(finished) : finished[i].on = k}

Entries ==
    \A k \in Key :
        /\ \A c, d \in Fetching(k) : c = d
        /\ \A i, j \in Arrived(k) : i = j
        /\ Fetching(k) = {} \/ Arrived(k) = {}
        /\ prefetching[k] = "no" <=> Fetching(k) = {} /\ Arrived(k) = {}

Writes(d, k) ==
    \/ d.op = "put" /\ d.on = k
    \/ d.op = "clean-up" /\ d.on = RunOf(k)

\* The server may have x, and may carry d out, while P is promised for k.
MayHave(x, P) == x \in P \/ (x = None /\ NotFound \in P)

Allowed(d, k, P) ==
    /\ d.op = "put" /\ d.on = k => d.n \in P
    /\ d.op = "clean-up" /\ d.on = RunOf(k) => NotFound \in P

KeptFor(k) ==
    /\ MayHave(server[k], promised[k])
    /\ local[k] # None => /\ local[k] \in promised[k] \cup {OnDisk}
                         /\ files[FileOf(k)] \in promised[k] \cup {None}
    /\ \A i \in Arrived(k) : finished[i].result \in promised[k] \cup {Failed}
    /\ \A d \in tasks \cup sending \cup late : Allowed(d, k, promised[k])
    /\ \A i \in 1 .. Len(queue) : ~Writes(queue[i], k)
    /\ client.op = "get" /\ client.on = k => client.result \in {None, Failed} \cup promised[k]

Kept == \A k \in Key : promised[k] # {} => KeptFor(k)

PutsInto(d, r) == d.op = "put" /\ RunOf(d.on) = r
Cleans(d, r) == d.op = "clean-up" /\ d.on = r

Cleaned ==
    \A r \in erased :
        /\ \A d \in sending \cup late : ~PutsInto(d, r)
        /\ \A i \in 1 .. Len(queue) : ~PutsInto(queue[i], r)
        /\ \/ \A k \in Key : RunOf(k) = r => server[k] = None
           \/ \E c \in tasks : Cleans(c, r)
           \/ \E i \in 1 .. Len(queue) : Cleans(queue[i], r)

IInv ==
    Types /\ QueueOrder /\ OneAsked /\ Stopping /\ Entries /\ Kept /\ Cleaned

---------------------------------------------------------------------------
\* The fields of a command and of a call to the server.
LEMMA CommandFields ==
    ASSUME NEW x \in Command
    PROVE  /\ x.op \in {"prefetch", "get", "put", "clean-up", "kill"}
           /\ x.op \in {"prefetch", "get", "put"} => x.on \in Key /\ x.n \in Data
           /\ x.op = "clean-up" => x.on \in Run /\ x.n \in Data
BY DEF Command

LEMMA CallFields ==
    ASSUME NEW c \in ServerCall
    PROVE  /\ c.op \in {"prefetch", "get", "put", "clean-up"}
           /\ c.op \in {"prefetch", "get", "put"} => c.on \in Key
           /\ c.op = "clean-up" => c.on \in Run
           /\ c.n \in Data /\ c.tries \in Nat
BY DEF ServerCall

LEMMA TaskFields ==
    ASSUME NEW x \in Command, NEW op, op = x.op, op # "kill"
    PROVE  /\ Task(op, x) \in ServerCall
           /\ Task(op, x).op = op /\ Task(op, x).on = x.on /\ Task(op, x).n = x.n
BY DEF Task, Command, ServerCall

LEMMA TriedAgain ==
    ASSUME NEW c \in ServerCall, NEW t \in Nat
    PROVE  /\ [c EXCEPT !.tries = t] \in ServerCall
           /\ [c EXCEPT !.tries = t].op = c.op
           /\ [c EXCEPT !.tries = t].on = c.on
           /\ [c EXCEPT !.tries = t].n = c.n
BY DEF ServerCall

LEMMA AppendFacts ==
    ASSUME NEW S, NEW s \in Seq(S), NEW x \in S
    PROVE  /\ Append(s, x) \in Seq(S) /\ Len(s) \in Nat /\ Len(Append(s, x)) = Len(s) + 1
           /\ Append(s, x)[Len(s) + 1] = x
           /\ \A i \in 1 .. Len(s) : Append(s, x)[i] = s[i] /\ s[i] \in S
           /\ \A i \in 1 .. Len(Append(s, x)) : i \in 1 .. Len(s) \/ i = Len(s) + 1
OBVIOUS

LEMMA TailFacts ==
    ASSUME NEW S, NEW s \in Seq(S), s # <<>>
    PROVE  /\ Len(s) \in Nat \ {0} /\ Head(s) = s[1] /\ s[1] \in S /\ 1 \in 1 .. Len(s)
           /\ Tail(s) \in Seq(S) /\ Len(Tail(s)) = Len(s) - 1
           /\ \A i \in 1 .. Len(Tail(s)) :
                 /\ Tail(s)[i] = s[i + 1] /\ i + 1 \in 1 .. Len(s)
                 /\ i + 1 = Len(s) => i = Len(Tail(s))
           /\ \A i \in 1 .. Len(s) : i = 1 \/ (i - 1 \in 1 .. Len(Tail(s)) /\ Tail(s)[i - 1] = s[i])
           /\ Len(s) = 1 => Tail(s) = <<>>
<1>1. /\ Len(s) \in Nat \ {0} /\ Head(s) = s[1] /\ s[1] \in S
      /\ Tail(s) \in Seq(S) /\ Len(Tail(s)) = Len(s) - 1
      /\ \A i \in 1 .. Len(Tail(s)) : Tail(s)[i] = s[i + 1]
  OBVIOUS
<1>2. 1 \in 1 .. Len(s)
  BY <1>1
<1>3. ASSUME NEW i \in 1 .. Len(Tail(s))
      PROVE  i + 1 \in 1 .. Len(s) /\ (i + 1 = Len(s) => i = Len(Tail(s)))
  <2>1. PICK n, m : n = Len(s) /\ m = Len(Tail(s))
    OBVIOUS
  <2>2. n \in Nat /\ m = n - 1 /\ i \in 1 .. m
    BY <1>1, <2>1
  <2>3. i + 1 \in 1 .. n /\ (i + 1 = n => i = m)
    BY <2>2
  <2> QED BY <2>1, <2>3
<1>4. ASSUME NEW i \in 1 .. Len(s)
      PROVE  i = 1 \/ (i - 1 \in 1 .. Len(Tail(s)) /\ Tail(s)[i - 1] = s[i])
  BY <1>1
<1>5. ASSUME Len(s) = 1 PROVE Tail(s) = <<>>
  <2>1. Len(Tail(s)) = 0
    BY <1>1, <1>5
  <2> QED BY <1>1, <2>1, EmptySeq
<1> QED BY <1>1, <1>2, <1>3, <1>4, <1>5

LEMMA MarkersNotData ==
    /\ None \notin Data /\ OnDisk \notin Data /\ NotFound \notin Data /\ Failed \notin Data
    /\ None \notin {OnDisk, NotFound, Failed}
<1>1. 0 .. MaxCalls - 1 \subseteq 0 .. MaxCalls
  BY BoundsAssumption
<1>2. \A m \in {None, OnDisk, NotFound, Failed} : m \notin 0 .. MaxCalls - 1
  BY <1>1, ResultsAssumption
<1>3. \A m \in {OnDisk, NotFound, Failed} : m \notin {Before(k) : k \in Key}
  BY ResultsAssumption
<1>4. None \notin {OnDisk, NotFound, Failed}
  <2>1. IsFiniteSet({OnDisk}) /\ Cardinality({OnDisk}) = 1
    BY FS_Singleton
  <2>2. /\ IsFiniteSet({OnDisk} \cup {NotFound})
        /\ Cardinality({OnDisk} \cup {NotFound}) \in {1, 2}
    BY <2>1, FS_AddElement
  <2>3. Cardinality({OnDisk} \cup {NotFound} \cup {Failed}) \in {1, 2, 3}
    BY <2>2, FS_AddElement
  <2>4. {OnDisk} \cup {NotFound} \cup {Failed} = {OnDisk, NotFound, Failed}
    OBVIOUS
  <2>5. None \in {OnDisk, NotFound, Failed}
           => {None, OnDisk, NotFound, Failed} = {OnDisk, NotFound, Failed}
    OBVIOUS
  <2> QED BY <2>3, <2>4, <2>5, ResultsAssumption
<1> QED BY <1>2, <1>3, <1>4 DEF Data

LEMMA EmptyHasNone == \A s : s = <<>> => 1 .. Len(s) = {}
OBVIOUS

---------------------------------------------------------------------------
\* What the server does with a call.
LEMMA ExecutedFacts ==
    ASSUME server \in [Key -> Stored], NEW c \in ServerCall
    PROVE  /\ Executed(c) \in [Key -> Stored]
           /\ \A k \in Key : \A P :
                 MayHave(server[k], P) /\ Allowed(c, k, P) => MayHave(Executed(c)[k], P)
           /\ \A k \in Key : Cleans(c, RunOf(k)) => Executed(c)[k] = None
           /\ c.op = "put" => Executed(c)[c.on] = c.n
           /\ \A k \in Key : server[k] = None /\ ~PutsInto(c, RunOf(k)) => Executed(c)[k] = None
<1>1. \A k \in Key : Executed(c)[k] =
          CASE c.op = "put" /\ c.on = k -> c.n
            [] c.op = "clean-up" /\ c.on = RunOf(k) -> None
            [] OTHER -> server[k]
  BY DEF Executed
<1>2. DOMAIN Executed(c) = Key /\ Executed(c) = [k \in Key |-> Executed(c)[k]]
  BY DEF Executed
<1>3. \A k \in Key :
          /\ c.op = "put" /\ c.on = k => Executed(c)[k] = c.n
          /\ c.op = "clean-up" /\ c.on = RunOf(k) => Executed(c)[k] = None
          /\ \/ c.op = "put" /\ c.on = k /\ Executed(c)[k] = c.n
             \/ c.op = "clean-up" /\ c.on = RunOf(k) /\ Executed(c)[k] = None
             \/ Executed(c)[k] = server[k]
          /\ c.op # "put" \/ c.on # k => Executed(c)[k] \in {None, server[k]}
  BY <1>1
<1>4. c.n \in Data /\ (c.op = "put" => c.on \in Key)
  BY CallFields
<1>5. \A k \in Key : Executed(c)[k] \in Stored
  BY <1>3, <1>4 DEF Stored
<1>6. \A k \in Key : server[k] = None /\ ~PutsInto(c, RunOf(k)) => Executed(c)[k] = None
  BY <1>3 DEF PutsInto
<1>7. ASSUME NEW k \in Key, NEW P, MayHave(server[k], P), Allowed(c, k, P)
      PROVE  MayHave(Executed(c)[k], P)
  BY <1>3, <1>7 DEF MayHave, Allowed
<1> QED BY <1>2, <1>3, <1>4, <1>5, <1>6, <1>7 DEF Cleans

\* What the worker's local store does.
LEMMA FetchedFacts ==
    ASSUME IInv, NEW k \in Key, Contains(k)
    PROVE  /\ local[k] # None /\ Fetched(k) \in Data
           /\ promised[k] # {} => Fetched(k) \in promised[k]
<1>1. promised[k] # {} /\ local[k] # None =>
          /\ local[k] \in promised[k] \cup {OnDisk}
          /\ files[FileOf(k)] \in promised[k] \cup {None}
  BY DEF IInv, Kept, KeptFor
<1>2. CASE InMemory(k)
  BY <1>1, <1>2, MarkersNotData DEF InMemory, Fetched
<1>3. CASE ~InMemory(k)
  <2>1. local[k] = OnDisk /\ files[FileOf(k)] # None /\ Fetched(k) = files[FileOf(k)]
    BY <1>3 DEF Contains, Fetched
  <2>2. files[FileOf(k)] \in Stored
    BY DEF IInv, Types, File
  <2> QED BY <1>1, <2>1, <2>2, MarkersNotData DEF Stored
<1> QED BY <1>2, <1>3

LEMMA CacheFacts ==
    ASSUME IInv, NEW k \in Key, NEW data \in Data, Cache(k, data)
    PROVE  /\ local' \in [Key -> Stored \cup {OnDisk}] /\ local'[k] = data
           /\ \A l \in Key \ {k} : \/ local'[l] = local[l]
                                   \/ local[l] # None /\ local'[l] = OnDisk
<1>1. PICK kept : local' = [l \in Key |-> IF l = k THEN data
                                         ELSE IF InMemory(l) /\ l \notin kept THEN OnDisk
                                         ELSE local[l]]
  BY DEF Cache
<1>2. local \in [Key -> Stored \cup {OnDisk}]
  BY DEF IInv, Types
<1>3. \A l \in Key : InMemory(l) => local[l] # None
  BY MarkersNotData DEF InMemory
<1> QED BY <1>1, <1>2, <1>3 DEF Stored

LEMMA CleanUpLocalFacts ==
    ASSUME IInv, NEW r, CleanUpLocal(r)
    PROVE  /\ local' \in [Key -> Stored \cup {OnDisk}] /\ files' \in [File -> Stored]
           /\ \A k \in Key : local'[k] \in {None, local[k]}
           /\ \A f \in File : files'[f] \in {None, files[f]}
<1>1. local' = [k \in Key |-> IF RunOf(k) = r THEN None ELSE local[k]]
  BY DEF CleanUpLocal
<1>2. PICK removed : files' = [f \in File |-> IF f \in removed THEN None ELSE files[f]]
  BY DEF CleanUpLocal
<1>3. local \in [Key -> Stored \cup {OnDisk}] /\ files \in [File -> Stored]
  BY DEF IInv, Types
<1> QED BY <1>1, <1>2, <1>3 DEF Stored

LEMMA OverwrittenFacts ==
    ASSUME IInv, NEW k \in Key, NEW y \in Data
    PROVE  /\ Overwritten(k, y) \in [Key -> SUBSET Promise]
           /\ \A l \in Key :
                 /\ promised[l] \subseteq Overwritten(k, y)[l]
                 /\ Overwritten(k, y)[l] # {} => promised[l] # {}
                 /\ l # k /\ FileOf(l) = FileOf(k) /\ local[l] # None /\ promised[l] # {}
                       => y \in Overwritten(k, y)[l]
<1>1. promised \in [Key -> SUBSET Promise] /\ y \in Promise
  BY DEF IInv, Types, Promise
<1> QED BY <1>1 DEF Overwritten

LEMMA WhenQueued ==
    ASSUME IInv, queue # <<>>
    PROVE  sending = {} /\ NobodyFetches /\ NobodySubscribes
BY DEF IInv, OneAsked, NobodyFetches, NobodySubscribes

LEMMA WhenFree ==
    ASSUME IInv, ~Waiting, worker # "dead"
    PROVE  /\ sending = {} /\ NobodyFetches /\ NobodySubscribes
           /\ \A i \in 1 .. Len(queue) : queue[i].op \notin {"get", "put"}
           /\ client.op # "drop" => \A i \in 1 .. Len(queue) : queue[i].op # "kill"
           /\ client.op # "drop" => worker = "running"
BY DEF IInv, Types, OneAsked, QueueOrder, Stopping, Awaits, NobodyFetches, NobodySubscribes

---------------------------------------------------------------------------
LEMMA InitIInv == Init => IInv
<1> SUFFICES ASSUME Init PROVE IInv
  OBVIOUS
<1>1. Types
  <2>1. /\ client = Idle /\ queue = <<>> /\ worker = "running" /\ finished = <<>>
        /\ tasks = {} /\ sending = {} /\ late = {} /\ erased = {} /\ calls = 0
        /\ prefetching = [k \in Key |-> "no"] /\ local = [k \in Key |-> None]
        /\ server = [k \in Key |-> Before(k)] /\ promised = [k \in Key |-> {}]
        /\ files = [f \in File |-> None]
    BY DEF Init
  <2>2. server \in [Key -> Stored]
    BY <2>1 DEF Stored, Data
  <2> QED BY <2>1, <2>2 DEF Types, ClientOK, Stored
<1>2. queue = <<>> /\ Len(queue) = 0 /\ finished = <<>> /\ Len(finished) = 0 /\ tasks = {} /\ sending = {}
  BY DEF Init
<1>3. QueueOrder /\ OneAsked /\ Stopping /\ Entries
  BY <1>2 DEF Init, QueueOrder, OneAsked, Stopping, Entries, Fetching, Arrived
<1>4. Kept /\ Cleaned
  BY DEF Init, Kept, Cleaned
<1> QED BY <1>1, <1>3, <1>4 DEF IInv

---------------------------------------------------------------------------
\* A command is sent while no call waits.
LEMMA SendKeeps ==
    ASSUME IInv, ~Waiting, client.op # "drop", worker # "dead", NEW cmd \in Command,
           queue' = Append(queue, cmd),
           UNCHANGED <<worker, prefetching, local, files, finished, tasks, sending, server, late>>,
           ClientOK', calls' \in Nat,
           promised' \in [Key -> SUBSET Promise], erased' \subseteq Run,
           cmd.op \in {"get", "put"} => Awaits(cmd.op, cmd.on)',
           cmd.op = "kill" => client'.op = "drop",
           client'.op = "get" => client'.result = None,
           \A k \in Key : promised'[k] # {} => promised'[k] = promised[k] /\ ~Writes(cmd, k),
           \A r \in erased' : /\ ~PutsInto(cmd, r)
                              /\ r \in erased \/ (Cleans(cmd, r) /\ LatePuts(r) = {})
    PROVE  IInv'
<1>1. /\ worker = "running" /\ sending = {} /\ NobodyFetches /\ NobodySubscribes
      /\ \A i \in 1 .. Len(queue) : queue[i].op \notin {"get", "put", "kill"}
  BY WhenFree
<1>2. /\ queue' \in Seq(Command) /\ Len(queue) \in Nat /\ Len(queue') = Len(queue) + 1
      /\ queue'[Len(queue) + 1] = cmd
      /\ \A i \in 1 .. Len(queue) : queue'[i] = queue[i]
      /\ \A i \in 1 .. Len(queue') : i \in 1 .. Len(queue) \/ i = Len(queue) + 1
      /\ \A i \in 1 .. Len(queue) : i \in 1 .. Len(queue')
      /\ Len(queue) + 1 \in 1 .. Len(queue')
  BY AppendFacts DEF IInv, Types
<1>3. Types'
  BY <1>2 DEF IInv, Types
<1>4. QueueOrder'
  BY <1>1, <1>2 DEF QueueOrder, NobodyFetches, NobodySubscribes
<1>5. OneAsked'
  BY <1>1 DEF OneAsked, NobodyFetches, NobodySubscribes
<1>6. Stopping' /\ Entries'
  BY <1>1 DEF IInv, Stopping, Entries, Fetching, Arrived
<1>7. Kept'
  <2> SUFFICES ASSUME NEW k \in Key, promised'[k] # {} PROVE KeptFor(k)'
    BY DEF Kept
  <2>1. promised'[k] = promised[k] /\ ~Writes(cmd, k) /\ KeptFor(k)
    BY DEF IInv, Kept
  <2>2. \A i \in 1 .. Len(queue') : ~Writes(queue'[i], k)
    BY <1>2, <2>1 DEF KeptFor
  <2> QED BY <2>1, <2>2 DEF KeptFor, Arrived
<1>8. Cleaned'
  <2> SUFFICES ASSUME NEW r \in erased'
               PROVE  /\ \A d \in sending \cup late : ~PutsInto(d, r)
                      /\ \A i \in 1 .. Len(queue') : ~PutsInto(queue'[i], r)
                      /\ \/ \A k \in Key : RunOf(k) = r => server[k] = None
                         \/ \E c \in tasks : Cleans(c, r)
                         \/ \E i \in 1 .. Len(queue') : Cleans(queue'[i], r)
    BY DEF Cleaned
  <2>1. CASE r \in erased
    BY <1>2, <2>1 DEF IInv, Cleaned
  <2>2. CASE Cleans(cmd, r) /\ LatePuts(r) = {}
    <3>1. \A d \in sending \cup late : ~PutsInto(d, r)
      BY <1>1, <2>2 DEF LatePuts, PutsInto
    <3>2. \A i \in 1 .. Len(queue') : ~PutsInto(queue'[i], r)
      BY <1>1, <1>2 DEF PutsInto
    <3> QED BY <1>2, <2>2, <3>1, <3>2
  <2> QED BY <2>1, <2>2
<1> QED BY <1>3, <1>4, <1>5, <1>6, <1>7, <1>8 DEF IInv

\* What Send does, and with which command.
LEMMA SendFacts ==
    ASSUME IInv, NEW cmd, Send(cmd)
    PROVE  /\ ~Waiting /\ client.op # "drop" /\ worker # "dead" /\ queue' = Append(queue, cmd)
           /\ calls \in Data /\ 0 \in Data /\ calls' \in Nat
           /\ UNCHANGED <<worker, prefetching, local, files, finished, tasks, sending, server, late>>
<1>1. calls \in Nat /\ calls < MaxCalls /\ calls' = calls + 1
  BY DEF Send, IInv, Types
<1> QED BY <1>1, BoundsAssumption DEF Send, remote, Data

LEMMA PrefetchKeeps == ASSUME IInv, NEW k \in Key, Prefetch(k) PROVE IInv'
<1> DEFINE cmd == [op |-> "prefetch", on |-> k, n |-> 0]
<1>1. Send(cmd) /\ client' = Idle /\ promised' = promised /\ erased' = erased
  BY DEF Prefetch, history
<1>2. cmd.op = "prefetch" /\ (0 \in Data => cmd \in Command)
  BY DEF Command
<1>3. ClientOK' /\ client'.op = "none"
  BY <1>1 DEF ClientOK, Idle
<1>4. promised \in [Key -> SUBSET Promise] /\ erased \subseteq Run
  BY DEF IInv, Types
<1> HIDE DEF cmd
<1> QED BY <1>1, <1>2, <1>3, <1>4, SendFacts, SendKeeps DEF Writes, PutsInto

LEMMA GetKeeps == ASSUME IInv, NEW k \in Key, Get(k) PROVE IInv'
<1> DEFINE cmd == [op |-> "get", on |-> k, n |-> 0]
<1>1. Send(cmd) /\ client' = [op |-> "get", on |-> k, result |-> None]
      /\ promised' = promised /\ erased' = erased
  BY DEF Get, history
<1>2. cmd.op = "get" /\ cmd.on = k /\ (0 \in Data => cmd \in Command)
  BY DEF Command
<1>3. ClientOK' /\ client'.result = None /\ Awaits("get", k)'
  BY <1>1 DEF ClientOK, Awaits, Waiting
<1>4. promised \in [Key -> SUBSET Promise] /\ erased \subseteq Run
  BY DEF IInv, Types
<1> HIDE DEF cmd
<1> QED BY <1>1, <1>2, <1>3, <1>4, SendFacts, SendKeeps DEF Writes, PutsInto

LEMMA PutKeeps == ASSUME IInv, NEW k \in Key, Put(k) PROVE IInv'
<1>0. PICK n : n = calls
  OBVIOUS
<1> DEFINE cmd == [op |-> "put", on |-> k, n |-> n]
<1>1. Send(cmd) /\ client' = [op |-> "put", on |-> k, result |-> None]
      /\ promised' = [promised EXCEPT ![k] = {}] /\ erased' = erased \ {RunOf(k)}
  BY <1>0 DEF Put
<1>2. cmd.op = "put" /\ cmd.on = k /\ (n \in Data => cmd \in Command)
  BY DEF Command
<1>3. ClientOK' /\ Awaits("put", k)' /\ client'.op = "put"
  BY <1>1 DEF ClientOK, Awaits, Waiting
<1>4. /\ promised' \in [Key -> SUBSET Promise] /\ erased' \subseteq Run
      /\ \A j \in Key : promised'[j] # {} => promised'[j] = promised[j] /\ j # k
  BY <1>1 DEF IInv, Types
<1> HIDE DEF cmd
<1>5. \A j \in Key : j # k => ~Writes(cmd, j)
  BY <1>2 DEF Writes
<1>6. \A r \in erased' : r \in erased /\ ~PutsInto(cmd, r)
  BY <1>1, <1>2 DEF PutsInto
<1> QED BY <1>0, <1>1, <1>2, <1>3, <1>4, <1>5, <1>6, SendFacts, SendKeeps

LEMMA CleanUpKeeps == ASSUME IInv, NEW r \in Run, CleanUp(r) PROVE IInv'
<1>0. PICK n : n = calls
  OBVIOUS
<1> DEFINE cmd == [op |-> "clean-up", on |-> r, n |-> n]
<1>1. Send(cmd) /\ client' = Idle
      /\ promised' = [k \in Key |-> IF RunOf(k) = r THEN {} ELSE promised[k]]
      /\ erased' = IF LatePuts(r) = {} THEN erased \cup {r} ELSE erased
  BY <1>0 DEF CleanUp
<1>2. cmd.op = "clean-up" /\ cmd.on = r /\ (n \in Data => cmd \in Command)
  BY DEF Command
<1>3. ClientOK' /\ client'.op = "none"
  BY <1>1 DEF ClientOK, Idle
<1>4. /\ promised' \in [Key -> SUBSET Promise] /\ erased' \subseteq Run
      /\ \A j \in Key : promised'[j] # {} => promised'[j] = promised[j] /\ RunOf(j) # r
  BY <1>1 DEF IInv, Types
<1> HIDE DEF cmd
<1>5. \A j \in Key : RunOf(j) # r => ~Writes(cmd, j)
  BY <1>2 DEF Writes
<1>6. \A s \in erased' : ~PutsInto(cmd, s) /\ (s \in erased \/ (Cleans(cmd, s) /\ LatePuts(s) = {}))
  BY <1>1, <1>2 DEF PutsInto, Cleans
<1> QED BY <1>0, <1>1, <1>2, <1>3, <1>4, <1>5, <1>6, SendFacts, SendKeeps

\* A call of a store whose worker has died.
LEMMA DeadKeeps ==
    ASSUME IInv, worker = "dead", queue' = queue, ClientOK',
           client'.op = "get" => client'.result = Failed,
           UNCHANGED <<worker, prefetching, local, files, finished, tasks, sending, server, late,
                       promised, erased, calls>>
    PROVE  IInv'
<1>1. queue = <<>> /\ tasks = {} /\ sending = {} /\ 1 .. Len(queue) = {}
  <2>1. queue = <<>> /\ tasks = {} /\ sending = {}
    BY DEF IInv, Stopping
  <2> QED BY <2>1, EmptyHasNone
<1>2. \A k \in Key : prefetching[k] # "subscribed"
  <2> SUFFICES ASSUME NEW k \in Key PROVE Fetching(k) = {} /\ Arrived(k) = {}
    BY DEF IInv, Entries
  <2>1. finished = <<>>
    BY DEF IInv, Stopping
  <2> QED BY <1>1, <2>1, EmptyHasNone DEF Fetching, Arrived
<1>3. Types'
  BY DEF IInv, Types
<1>4. QueueOrder' /\ OneAsked'
  BY <1>1, <1>2 DEF QueueOrder, OneAsked
<1>5. Stopping' /\ Entries' /\ Cleaned'
  BY <1>1 DEF IInv, Stopping, Entries, Fetching, Arrived, Cleaned
<1>6. Kept'
  BY DEF IInv, Kept, KeptFor, Arrived
<1> QED BY <1>3, <1>4, <1>5, <1>6 DEF IInv

LEMMA DropKeeps == ASSUME IInv, Drop PROVE IInv'
<1> DEFINE cmd == [op |-> "kill"]
<1>1. /\ ~Waiting /\ client.op # "drop" /\ client' = [op |-> "drop"]
      /\ queue' = IF worker = "dead" THEN queue ELSE Append(queue, cmd)
      /\ UNCHANGED <<worker, prefetching, local, files, finished, tasks, sending, server, late,
                     promised, erased, calls>>
  BY DEF Drop, remote, history
<1>2. cmd.op = "kill" /\ cmd \in Command
  BY DEF Command
<1>3. ClientOK' /\ client'.op = "drop"
  BY <1>1 DEF ClientOK
<1>4. promised \in [Key -> SUBSET Promise] /\ erased \subseteq Run /\ calls \in Nat
  BY DEF IInv, Types
<1> HIDE DEF cmd
<1>5. CASE worker # "dead"
  BY <1>1, <1>2, <1>3, <1>4, <1>5, SendKeeps DEF Writes, PutsInto
<1>6. CASE worker = "dead"
  BY <1>1, <1>3, <1>6, DeadKeeps
<1> QED BY <1>5, <1>6

\* The channel is closed: the call returns an error.
LEMMA SendFailsKeeps == ASSUME IInv, NEW k \in Key, SendFails(k) PROVE IInv'
<1>1. /\ worker = "dead"
      /\ UNCHANGED <<queue, worker, prefetching, local, files, finished, tasks, sending, server, late,
                     promised, erased, calls>>
  BY DEF SendFails, state, remote, history
<1>2. PICK op \in {"get", "put"} : client' = [op |-> op, on |-> k, result |-> Failed]
  BY DEF SendFails
<1>3. ClientOK' /\ client'.result = Failed
  BY <1>2 DEF ClientOK
<1> QED BY <1>1, <1>3, DeadKeeps

---------------------------------------------------------------------------
\* The worker takes the command at the head of its queue: x.
LEMMA ReceiveFacts ==
    ASSUME IInv, NEW x, worker = "running", queue # <<>>, x = Head(queue), queue' = Tail(queue)
    PROVE  /\ x \in Command /\ queue' \in Seq(Command)
           /\ sending = {} /\ NobodyFetches /\ NobodySubscribes
           /\ \A i \in 1 .. Len(queue') : \E j \in 1 .. Len(queue) :
                 queue'[i] = queue[j] /\ (j = Len(queue) => i = Len(queue'))
           /\ \A r : (\E i \in 1 .. Len(queue) : Cleans(queue[i], r))
                 => Cleans(x, r) \/ \E i \in 1 .. Len(queue') : Cleans(queue'[i], r)
           /\ x.op \in {"get", "put"} => Awaits(x.op, x.on) /\ queue' = <<>>
           /\ x.op = "kill" => client.op = "drop" /\ queue' = <<>>
           /\ \A k \in Key : promised[k] # {} => ~Writes(x, k)
           /\ \A r \in erased : ~PutsInto(x, r)
<1>1. /\ Len(queue) \in Nat \ {0} /\ x = queue[1] /\ x \in Command
      /\ queue' \in Seq(Command) /\ Len(queue') = Len(queue) - 1
      /\ 1 \in 1 .. Len(queue)
      /\ \A i \in 1 .. Len(queue') :
            /\ queue'[i] = queue[i + 1] /\ i + 1 \in 1 .. Len(queue)
            /\ i + 1 = Len(queue) => i = Len(queue')
      /\ \A i \in 1 .. Len(queue) : i = 1 \/ (i - 1 \in 1 .. Len(queue') /\ queue'[i - 1] = queue[i])
      /\ Len(queue) = 1 => queue' = <<>>
  BY TailFacts DEF IInv, Types
<1>3. /\ x.op \in {"get", "put"} => Awaits(x.op, x.on) /\ queue' = <<>>
      /\ x.op = "kill" => client.op = "drop" /\ queue' = <<>>
  BY <1>1 DEF IInv, QueueOrder
<1>4. \A i \in 1 .. Len(queue') : \E j \in 1 .. Len(queue) :
          queue'[i] = queue[j] /\ (j = Len(queue) => i = Len(queue'))
  <2> TAKE i \in 1 .. Len(queue')
  <2>1. i + 1 \in 1 .. Len(queue) /\ queue'[i] = queue[i + 1] /\ (i + 1 = Len(queue) => i = Len(queue'))
    BY <1>1
  <2> QED BY <2>1
<1>5. ASSUME NEW r, NEW i \in 1 .. Len(queue), Cleans(queue[i], r)
      PROVE  Cleans(x, r) \/ \E j \in 1 .. Len(queue') : Cleans(queue'[j], r)
  BY <1>1, <1>5
<1>6. /\ \A k \in Key : promised[k] # {} => ~Writes(x, k)
      /\ \A r \in erased : ~PutsInto(x, r)
  BY <1>1 DEF IInv, Kept, KeptFor, Cleaned
<1> QED BY <1>1, <1>3, <1>4, <1>5, <1>6, WhenQueued

\* The local store has nothing but what it had.
OnlyForgotten ==
    /\ \A k \in Key : local'[k] # None =>
          /\ local[k] # None
          /\ local'[k] \in {local[k], OnDisk} \/ (Contains(k) /\ local'[k] = Fetched(k))
    /\ \A f \in File : files'[f] \in {None, files[f]}

\* What such a step has to show of the rest.
LEMMA ReceiveKeeps ==
    ASSUME IInv, NEW x, worker = "running", queue # <<>>, x = Head(queue), queue' = Tail(queue),
           UNCHANGED <<finished, server, late, promised, erased, calls>>,
           Types', Entries', Stopping', OneAsked',
           \/ queue' = <<>>
           \/ /\ UNCHANGED <<client, sending>>
              /\ NobodyFetches' /\ NobodySubscribes',
           client'.op = "get" => /\ client.op = "get" /\ client'.on = client.on
                                 /\ \/ client'.result \in {client.result, Failed}
                                    \/ Contains(client.on) /\ client'.result = Fetched(client.on),
           OnlyForgotten,
           \A d \in tasks' \cup sending' : \/ d \in tasks \cup sending
                                           \/ d.op = x.op /\ d.on = x.on,
           \A d \in tasks : d \in tasks',
           x.op = "clean-up" => \E d \in tasks' : Cleans(d, x.on)
    PROVE  IInv'
<1>1. /\ \A i \in 1 .. Len(queue') : \E j \in 1 .. Len(queue) :
             queue'[i] = queue[j] /\ (j = Len(queue) => i = Len(queue'))
      /\ \A r : (\E i \in 1 .. Len(queue) : Cleans(queue[i], r))
             => Cleans(x, r) \/ \E i \in 1 .. Len(queue') : Cleans(queue'[i], r)
      /\ \A k \in Key : promised[k] # {} => ~Writes(x, k)
      /\ \A r \in erased : ~PutsInto(x, r)
      /\ sending = {}
  BY ReceiveFacts
<1>2. QueueOrder'
  <2>1. CASE queue' = <<>>
    <3>1. 1 .. Len(queue') = {}
      BY <2>1, EmptyHasNone
    <3> QED BY <3>1 DEF QueueOrder
  <2>2. CASE UNCHANGED <<client, sending>> /\ NobodyFetches' /\ NobodySubscribes'
    <3> SUFFICES ASSUME NEW i \in 1 .. Len(queue')
                 PROVE  /\ queue'[i].op \in {"get", "put"} =>
                              i = Len(queue') /\ Awaits(queue'[i].op, queue'[i].on) /\ sending = {}
                        /\ queue'[i].op = "kill" => i = Len(queue') /\ client.op = "drop"
      BY <2>2 DEF QueueOrder, Awaits, Waiting
    <3>1. PICK j \in 1 .. Len(queue) : queue'[i] = queue[j] /\ (j = Len(queue) => i = Len(queue'))
      BY <1>1
    <3> QED BY <3>1 DEF IInv, QueueOrder
  <2> QED BY <2>1, <2>2
<1>3. Kept'
  <2> SUFFICES ASSUME NEW k \in Key, promised[k] # {} PROVE KeptFor(k)'
    BY DEF Kept
  <2>1. KeptFor(k) /\ ~Writes(x, k)
    BY <1>1 DEF IInv, Kept
  <2>0. Contains(k) => Fetched(k) \in promised[k]
    BY FetchedFacts
  <2>2. local'[k] # None => /\ local'[k] \in promised[k] \cup {OnDisk}
                            /\ files'[FileOf(k)] \in promised[k] \cup {None}
    <3>1. FileOf(k) \in File
      BY DEF File
    <3> QED BY <2>0, <2>1, <3>1 DEF KeptFor, OnlyForgotten
  <2>3. \A d \in tasks' \cup sending' \cup late : Allowed(d, k, promised[k])
    BY <2>1 DEF KeptFor, Writes, Allowed
  <2>4. \A i \in 1 .. Len(queue') : ~Writes(queue'[i], k)
    BY <1>1, <2>1 DEF KeptFor
  <2>5. client'.op = "get" /\ client'.on = k => client'.result \in {None, Failed} \cup promised[k]
    BY <2>0, <2>1 DEF KeptFor
  <2> QED BY <2>1, <2>2, <2>3, <2>4, <2>5 DEF KeptFor, Arrived
<1>4. Cleaned'
  <2> SUFFICES ASSUME NEW r \in erased
               PROVE  /\ \A d \in sending' \cup late : ~PutsInto(d, r)
                      /\ \A i \in 1 .. Len(queue') : ~PutsInto(queue'[i], r)
                      /\ \/ \A k \in Key : RunOf(k) = r => server[k] = None
                         \/ \E c \in tasks' : Cleans(c, r)
                         \/ \E i \in 1 .. Len(queue') : Cleans(queue'[i], r)
    BY DEF Cleaned
  <2>1. /\ \A d \in sending \cup late : ~PutsInto(d, r)
        /\ \A i \in 1 .. Len(queue) : ~PutsInto(queue[i], r)
        /\ \/ \A k \in Key : RunOf(k) = r => server[k] = None
           \/ \E c \in tasks : Cleans(c, r)
           \/ \E i \in 1 .. Len(queue) : Cleans(queue[i], r)
    BY DEF IInv, Cleaned
  <2>2. \A d \in tasks : d.op # "put"
    BY DEF IInv, Types
  <2>3. \A d \in sending' \cup late : ~PutsInto(d, r)
    BY <1>1, <2>1, <2>2 DEF PutsInto
  <2>4. \A i \in 1 .. Len(queue') : ~PutsInto(queue'[i], r)
    BY <1>1, <2>1
  <2>5. Cleans(x, r) => \E c \in tasks' : Cleans(c, r)
    BY DEF Cleans
  <2> QED BY <1>1, <2>1, <2>3, <2>4, <2>5
<1> QED BY <1>2, <1>3, <1>4 DEF IInv

LEMMA HandlePrefetchKeeps == ASSUME IInv, HandlePrefetch PROVE IInv'
<1>0. PICK x, k, t : x = Head(queue) /\ k = x.on /\ t = Task("prefetch", x)
  OBVIOUS
<1>1. /\ worker = "running" /\ sending = {} /\ queue # <<>> /\ x.op = "prefetch" /\ queue' = Tail(queue)
      /\ UNCHANGED <<worker, client, local, files, sending, finished, server, late, promised, erased, calls>>
      /\ \/ UNCHANGED <<prefetching, tasks>>
         \/ /\ prefetching[k] = "no"
            /\ prefetching' = [prefetching EXCEPT ![k] = "yes"]
            /\ tasks' = tasks \cup {t}
  BY <1>0 DEF HandlePrefetch, Receive, Selecting, remote, history
<1>2. x \in Command /\ queue' \in Seq(Command) /\ NobodyFetches /\ NobodySubscribes
  BY <1>0, <1>1, ReceiveFacts
<1>3. k \in Key /\ t \in ServerCall /\ t.op = "prefetch" /\ t.on = k
  BY <1>0, <1>1, <1>2, CommandFields, TaskFields
<1>4. Types'
  <2>1. ClientOK'
    BY <1>1 DEF IInv, Types, ClientOK
  <2> QED BY <1>1, <1>2, <1>3, <2>1 DEF IInv, Types
<1>5. NobodyFetches' /\ NobodySubscribes'
  BY <1>1, <1>2, <1>3 DEF NobodyFetches, NobodySubscribes, IInv, Types
<1>6. OneAsked' /\ Stopping'
  BY <1>1, <1>5 DEF OneAsked, Stopping, NobodyFetches, NobodySubscribes
<1>7. Entries'
  <2>1. CASE UNCHANGED <<prefetching, tasks>>
    BY <1>1, <2>1 DEF IInv, Entries, Fetching, Arrived
  <2>2. CASE /\ prefetching[k] = "no"
             /\ prefetching' = [prefetching EXCEPT ![k] = "yes"]
             /\ tasks' = tasks \cup {t}
    <3>1. /\ \A j \in Key : Arrived(j)' = Arrived(j)
          /\ \A j \in Key \ {k} : Fetching(j)' = Fetching(j) /\ prefetching'[j] = prefetching[j]
          /\ Fetching(k) = {} /\ Arrived(k) = {} /\ prefetching'[k] = "yes"
          /\ Fetching(k)' = Fetching(k) \cup {t}
      BY <1>1, <1>3, <2>2 DEF IInv, Types, Entries, Fetching, Arrived
    <3>2. \A j \in Key :
             /\ \A c, d \in Fetching(j) : c = d
             /\ \A m, n \in Arrived(j) : m = n
             /\ Fetching(j) = {} \/ Arrived(j) = {}
             /\ prefetching[j] = "no" <=> Fetching(j) = {} /\ Arrived(j) = {}
      BY DEF IInv, Entries
    <3> QED BY <1>3, <3>1, <3>2 DEF Entries
  <2> QED BY <1>1, <2>1, <2>2
<1>8. OnlyForgotten
  BY <1>1 DEF OnlyForgotten
<1> QED BY <1>0, <1>1, <1>3, <1>4, <1>5, <1>6, <1>7, <1>8, ReceiveKeeps

LEMMA HandleGetKeeps == ASSUME IInv, HandleGet PROVE IInv'
<1>0. PICK x, k, t : x = Head(queue) /\ k = x.on /\ t = Task("get", x)
  OBVIOUS
<1>1. /\ worker = "running" /\ sending = {} /\ queue # <<>> /\ x.op = "get" /\ queue' = Tail(queue)
      /\ UNCHANGED <<worker, files, sending, finished, server, late, promised, erased, calls>>
      /\ UNCHANGED local \/ (Contains(k) /\ Cache(k, Fetched(k)))
      /\ \/ /\ Contains(k) /\ client' = [client EXCEPT !.result = Fetched(k)]
            /\ UNCHANGED <<prefetching, tasks>>
         \/ /\ prefetching[k] # "no"
            /\ prefetching' = [prefetching EXCEPT ![k] = "subscribed"]
            /\ \/ UNCHANGED client
               \/ prefetching[k] # "yes" /\ client' = [client EXCEPT !.result = Failed]
            /\ UNCHANGED tasks
         \/ /\ tasks' = tasks \cup {t}
            /\ UNCHANGED <<client, prefetching>>
  BY <1>0 DEF HandleGet, Receive, Selecting, Answer, remote, history
<1>2. /\ x \in Command /\ queue' = <<>> /\ queue' \in Seq(Command) /\ NobodyFetches /\ NobodySubscribes
      /\ Awaits("get", k)
  BY <1>0, <1>1, ReceiveFacts
<1>3. k \in Key /\ t \in ServerCall /\ t.op = "get" /\ t.on = k
  BY <1>0, <1>1, <1>2, CommandFields, TaskFields
<1>4. prefetching[k] \in {"no", "yes", "subscribed"} /\ prefetching[k] # "subscribed"
  BY <1>2, <1>3 DEF IInv, Types, NobodySubscribes
<1>5. PICK v : v = client
  OBVIOUS
<1>6. /\ v = [op |-> "get", on |-> k, result |-> None]
      /\ \A y : [v EXCEPT !.result = y] = [op |-> "get", on |-> k, result |-> y]
  <2>1. v.op = "get" /\ v.on = k /\ v.result = None
    BY <1>2, <1>5 DEF Awaits, Waiting
  <2>2. v = [op |-> v.op, on |-> v.on, result |-> v.result]
    BY <1>5, <2>1 DEF IInv, Types, ClientOK, Idle
  <2> QED BY <2>1, <2>2
<1>7. /\ \/ client' = [op |-> "get", on |-> k, result |-> Fetched(k)] /\ Contains(k)
         \/ client' = client
      /\ client'.op = "get" /\ client'.on = k /\ ClientOK'
  BY <1>1, <1>3, <1>4, <1>5, <1>6 DEF ClientOK
<1>8. Types'
  <2>1. tasks' \subseteq ServerCall /\ \A c \in tasks' : c.op # "put"
    BY <1>1, <1>3 DEF IInv, Types
  <2>2. prefetching' \in [Key -> {"no", "yes", "subscribed"}]
    BY <1>1, <1>3 DEF IInv, Types
  <2>3. local' \in [Key -> Stored \cup {OnDisk}]
    BY <1>1, <1>3, FetchedFacts, CacheFacts DEF IInv, Types
  <2> QED BY <1>1, <1>2, <1>7, <2>1, <2>2, <2>3 DEF IInv, Types
<1>9. OneAsked' /\ Stopping'
  <2>1. \/ /\ tasks' = tasks /\ prefetching' = prefetching
        \/ /\ tasks' = tasks /\ prefetching' = [prefetching EXCEPT ![k] = "subscribed"] /\ client' = client
        \/ /\ tasks' = tasks \cup {t} /\ prefetching' = prefetching /\ client' = client
    BY <1>1, <1>4
  <2>2. client' = client => Awaits("get", k)'
    BY <1>2 DEF Awaits, Waiting
  <2>3. /\ \A c \in tasks' : c.op = "get" => c = t /\ client' = client /\ prefetching' = prefetching
        /\ \A j \in Key : prefetching'[j] = "subscribed" => j = k /\ client' = client
    BY <1>2, <1>3, <2>1 DEF NobodyFetches, NobodySubscribes, IInv, Types
  <2> QED BY <1>1, <1>2, <1>3, <2>2, <2>3 DEF OneAsked, Stopping, NobodySubscribes
<1>10. Entries'
  <2>1. /\ \A j \in Key : Arrived(j)' = Arrived(j) /\ Fetching(j)' = Fetching(j)
        /\ \A j \in Key : prefetching'[j] = "no" <=> prefetching[j] = "no"
    BY <1>1, <1>3 DEF IInv, Types, Arrived, Fetching
  <2> QED BY <2>1 DEF IInv, Entries
<1>11. /\ client.op = "get" /\ client.on = k
       /\ \/ client'.result \in {client.result, Failed}
          \/ Contains(client.on) /\ client'.result = Fetched(client.on)
  <2>1. client.op = "get" /\ client.on = k
    BY <1>5, <1>6
  <2>2. CASE client' = client
    BY <2>1, <2>2
  <2>3. CASE client' = [op |-> "get", on |-> k, result |-> Fetched(k)] /\ Contains(k)
    BY <2>1, <2>3
  <2> QED BY <1>7, <2>1, <2>2, <2>3
<1>12. OnlyForgotten
  <2>1. CASE UNCHANGED local
    BY <1>1, <2>1 DEF OnlyForgotten
  <2>2. CASE Contains(k) /\ Cache(k, Fetched(k))
    <3>1. Fetched(k) \in Data /\ local[k] # None
      BY <1>3, <2>2, FetchedFacts
    <3>2. /\ local'[k] = Fetched(k)
          /\ \A l \in Key \ {k} : local'[l] = local[l] \/ (local[l] # None /\ local'[l] = OnDisk)
      BY <1>3, <2>2, <3>1, CacheFacts
    <3>3. \A f \in File : files'[f] = files[f]
      BY <1>1
    <3> QED BY <2>2, <3>1, <3>2, <3>3 DEF OnlyForgotten
  <2> QED BY <1>1, <2>1, <2>2
<1> QED BY <1>0, <1>1, <1>2, <1>3, <1>7, <1>8, <1>9, <1>10, <1>11, <1>12, ReceiveKeeps

\* The worker dies of a file that is gone.
LEMMA GetPanicsKeeps == ASSUME IInv, GetPanics PROVE IInv'
<1>0. PICK x, v : x = Head(queue) /\ v = client
  OBVIOUS
<1> DEFINE moved == {[c EXCEPT !.tries = 0] : c \in CleanUpsUnderWay}
           cut == {c.on : c \in CleanUpsUnderWay}
<1>1. /\ worker = "running" /\ sending = {} /\ queue # <<>> /\ x.op = "get"
      /\ worker' = "dead" /\ queue' = <<>> /\ finished' = <<>> /\ tasks' = {}
      /\ prefetching' = [k \in Key |-> "no"] /\ local' = [k \in Key |-> None]
      /\ client' = [v EXCEPT !.result = Failed]
      /\ late' = late \cup moved /\ erased' = erased \ cut
      /\ UNCHANGED <<files, sending, server, promised, calls>>
  BY <1>0 DEF GetPanics, Selecting, Answer
<1>2. /\ x \in Command /\ x = queue[1] /\ Len(queue) = 1 /\ Awaits("get", x.on) /\ x.on \in Key
      /\ \A r : ~Cleans(x, r)
  <2>1. x \in Command /\ x = queue[1] /\ 1 \in 1 .. Len(queue)
    BY <1>0, <1>1, TailFacts DEF IInv, Types
  <2>2. Len(queue) = 1 /\ Awaits("get", x.on)
    BY <1>1, <2>1 DEF IInv, QueueOrder
  <2> QED BY <1>1, <2>1, <2>2, CommandFields DEF Cleans
<1>3. \A i \in 1 .. Len(queue) : queue[i] = x
  BY <1>2
<1>4. \A d \in moved : \E c \in CleanUpsUnderWay :
          d \in ServerCall /\ d.op = "clean-up" /\ d.on = c.on /\ d.n = c.n /\ c \in tasks
  <2> SUFFICES ASSUME NEW c \in CleanUpsUnderWay, NEW d, d = [c EXCEPT !.tries = 0]
               PROVE  d \in ServerCall /\ d.op = "clean-up" /\ d.on = c.on /\ d.n = c.n /\ c \in tasks
    OBVIOUS
  <2>1. c \in tasks /\ c.op = "clean-up" /\ c \in ServerCall
    BY DEF CleanUpsUnderWay, IInv, Types
  <2> QED BY <2>1, TriedAgain
<1> HIDE DEF moved
<1>5. client' = [op |-> "get", on |-> x.on, result |-> Failed] /\ ClientOK'
  <2>1. v.op = "get" /\ v.on = x.on
    BY <1>0, <1>2 DEF Awaits
  <2>2. v = [op |-> v.op, on |-> v.on, result |-> v.result]
    BY <1>0, <2>1 DEF IInv, Types, ClientOK, Idle
  <2>3. client' = [op |-> "get", on |-> x.on, result |-> Failed]
    BY <1>1, <2>1, <2>2
  <2> QED BY <1>2, <2>3 DEF ClientOK
<1>6. Types'
  <2>1. late' \subseteq ServerCall
    BY <1>1, <1>4 DEF IInv, Types
  <2> QED BY <1>1, <1>5, <2>1 DEF IInv, Types, Stored
<1>7. 1 .. Len(queue') = {} /\ 1 .. Len(finished') = {}
  BY <1>1, EmptyHasNone
<1>8. QueueOrder' /\ OneAsked' /\ Stopping' /\ Entries'
  BY <1>1, <1>7 DEF QueueOrder, OneAsked, Stopping, Entries, Fetching, Arrived
<1>9. Kept'
  <2> SUFFICES ASSUME NEW k \in Key, promised[k] # {} PROVE KeptFor(k)'
    BY <1>1 DEF Kept
  <2>1. KeptFor(k)
    BY DEF IInv, Kept
  <2>2. \A d \in moved : Allowed(d, k, promised[k])
    <3> SUFFICES ASSUME NEW d \in moved PROVE Allowed(d, k, promised[k])
      OBVIOUS
    <3>1. PICK c \in tasks : d.op = "clean-up" /\ d.on = c.on /\ c.op = "clean-up"
      BY <1>4 DEF CleanUpsUnderWay
    <3>2. Allowed(c, k, promised[k])
      BY <2>1 DEF KeptFor
    <3> QED BY <3>1, <3>2 DEF Allowed
  <2>3. \A d \in tasks' \cup sending' \cup late' : Allowed(d, k, promised[k])
    BY <1>1, <2>1, <2>2 DEF KeptFor
  <2>4. local'[k] = None
    BY <1>1
  <2> QED BY <1>1, <1>5, <1>7, <2>1, <2>3, <2>4 DEF KeptFor, Arrived
<1>10. Cleaned'
  <2> SUFFICES ASSUME NEW r \in erased'
               PROVE  /\ \A d \in sending' \cup late' : ~PutsInto(d, r)
                      /\ \A i \in 1 .. Len(queue') : ~PutsInto(queue'[i], r)
                      /\ \A k \in Key : RunOf(k) = r => server'[k] = None
    BY DEF Cleaned
  <2>1. /\ \A d \in sending \cup late : ~PutsInto(d, r)
        /\ \/ \A k \in Key : RunOf(k) = r => server[k] = None
           \/ \E c \in tasks : Cleans(c, r)
           \/ \E i \in 1 .. Len(queue) : Cleans(queue[i], r)
    BY <1>1 DEF IInv, Cleaned
  <2>2. \A c \in tasks : ~Cleans(c, r)
    BY <1>1 DEF Cleans, CleanUpsUnderWay
  <2>3. \A d \in moved : ~PutsInto(d, r)
    BY <1>4 DEF PutsInto
  <2> QED BY <1>1, <1>2, <1>3, <1>7, <2>1, <2>2, <2>3
<1> QED BY <1>6, <1>8, <1>9, <1>10 DEF IInv

LEMMA HandlePutKeeps == ASSUME IInv, HandlePut PROVE IInv'
<1>0. PICK x, t : x = Head(queue) /\ t = Task("put", x)
  OBVIOUS
<1>1. /\ worker = "running" /\ queue # <<>> /\ x.op = "put" /\ queue' = Tail(queue)
      /\ sending' = {t}
      /\ UNCHANGED <<client, prefetching, local, files, tasks,
                     worker, finished, server, late, promised, erased, calls>>
  BY <1>0 DEF HandlePut, Receive, Selecting, remote, history
<1>2. /\ x \in Command /\ queue' = <<>> /\ queue' \in Seq(Command) /\ NobodyFetches /\ NobodySubscribes
      /\ Awaits("put", x.on)
  BY <1>0, <1>1, ReceiveFacts
<1>3. t \in ServerCall /\ t.op = "put" /\ t.on = x.on
  BY <1>0, <1>1, <1>2, TaskFields
<1>4. Types'
  <2>1. ClientOK'
    BY <1>1 DEF IInv, Types, ClientOK
  <2> QED BY <1>1, <1>2, <1>3, <2>1 DEF IInv, Types
<1>5. OneAsked' /\ Stopping'
  <2>1. Awaits("put", x.on)'
    BY <1>1, <1>2 DEF Awaits, Waiting
  <2> QED BY <1>1, <1>2, <1>3, <2>1 DEF OneAsked, Stopping, NobodyFetches, NobodySubscribes
<1>6. Entries'
  BY <1>1 DEF IInv, Entries, Fetching, Arrived
<1>7. client'.op # "get"
  BY <1>1, <1>2 DEF Awaits
<1>8. OnlyForgotten
  BY <1>1 DEF OnlyForgotten
<1> QED BY <1>0, <1>1, <1>2, <1>3, <1>4, <1>5, <1>6, <1>7, <1>8, ReceiveKeeps

LEMMA HandleCleanUpKeeps == ASSUME IInv, HandleCleanUp PROVE IInv'
<1>0. PICK x, t : x = Head(queue) /\ t = Task("clean-up", x)
  OBVIOUS
<1>1. /\ worker = "running" /\ queue # <<>> /\ x.op = "clean-up" /\ queue' = Tail(queue)
      /\ CleanUpLocal(x.on) /\ tasks' = tasks \cup {t}
      /\ UNCHANGED <<client, prefetching, sending,
                     worker, finished, server, late, promised, erased, calls>>
  BY <1>0 DEF HandleCleanUp, Receive, Selecting, remote, history
<1>2. /\ x \in Command /\ queue' \in Seq(Command) /\ NobodyFetches /\ NobodySubscribes /\ sending = {}
  BY <1>0, <1>1, ReceiveFacts
<1>3. t \in ServerCall /\ t.op = "clean-up" /\ t.on = x.on
  BY <1>0, <1>1, <1>2, TaskFields
<1>4. /\ local' \in [Key -> Stored \cup {OnDisk}] /\ files' \in [File -> Stored]
      /\ \A k \in Key : local'[k] \in {None, local[k]}
      /\ \A f \in File : files'[f] \in {None, files[f]}
  BY <1>1, CleanUpLocalFacts
<1>11. Types'
  <2>1. ClientOK'
    BY <1>1 DEF IInv, Types, ClientOK
  <2>3. tasks' \subseteq ServerCall /\ \A c \in tasks' : c.op # "put"
    BY <1>1, <1>3 DEF IInv, Types
  <2> QED BY <1>1, <1>2, <1>4, <2>1, <2>3 DEF IInv, Types
<1>5. NobodyFetches' /\ NobodySubscribes'
  BY <1>1, <1>2, <1>3 DEF NobodyFetches, NobodySubscribes
<1>6. OneAsked' /\ Stopping'
  BY <1>1, <1>2, <1>5 DEF OneAsked, Stopping, NobodyFetches, NobodySubscribes
<1>7. Entries'
  <2>1. \A k \in Key : Arrived(k)' = Arrived(k) /\ Fetching(k)' = Fetching(k)
    BY <1>1, <1>3 DEF Arrived, Fetching
  <2> QED BY <1>1, <2>1 DEF IInv, Entries
<1>8. OnlyForgotten
  BY <1>4 DEF OnlyForgotten
<1>9. client'.op = "get" => client.op = "get" /\ client'.on = client.on /\ client'.result = client.result
  BY <1>1
<1>10. /\ \A d \in tasks' \cup sending' : d \in tasks \cup sending \/ (d.op = x.op /\ d.on = x.on)
       /\ \A d \in tasks : d \in tasks'
       /\ \E d \in tasks' : Cleans(d, x.on)
  BY <1>1, <1>3 DEF Cleans
<1> QED BY <1>0, <1>1, <1>5, <1>6, <1>7, <1>8, <1>9, <1>10, <1>11, ReceiveKeeps

LEMMA HandleKillKeeps == ASSUME IInv, HandleKill PROVE IInv'
<1>0. PICK x : x = Head(queue)
  OBVIOUS
<1>1. /\ worker = "running" /\ queue # <<>> /\ x.op = "kill" /\ queue' = Tail(queue)
      /\ worker' = "stopping"
      /\ UNCHANGED <<client, prefetching, local, files, tasks, sending,
                     finished, server, late, promised, erased, calls>>
  BY <1>0 DEF HandleKill, Selecting, remote, history
<1>2. /\ x \in Command /\ queue' = <<>> /\ queue' \in Seq(Command) /\ NobodyFetches /\ NobodySubscribes
      /\ sending = {} /\ client.op = "drop"
  BY <1>0, <1>1, ReceiveFacts
<1>3. Types'
  <2>1. ClientOK'
    BY <1>1 DEF IInv, Types, ClientOK
  <2> QED BY <1>1, <1>2, <2>1 DEF IInv, Types
<1>4. OneAsked' /\ Stopping'
  BY <1>1, <1>2 DEF OneAsked, Stopping, NobodyFetches, NobodySubscribes
<1>5. Entries'
  BY <1>1 DEF IInv, Entries, Fetching, Arrived
<1>6. OnlyForgotten
  BY <1>1 DEF OnlyForgotten
<1>7. client'.op # "get" /\ x.op # "clean-up"
  BY <1>1, <1>2
<1> QED BY <1>0, <1>1, <1>2, <1>3, <1>4, <1>5, <1>6, <1>7, ReceiveKeeps

---------------------------------------------------------------------------
\* The result at the head of the channel is the one of its key's entry.
LEMMA FinishedPrefetchKeeps == ASSUME IInv, FinishedPrefetch PROVE IInv'
<1>0. PICK k, y, v, s : /\ k = Head(finished).on /\ y = Head(finished).result
                        /\ v = client /\ s = prefetching
  OBVIOUS
<1>1. /\ worker = "running" /\ sending = {} /\ finished # <<>> /\ finished' = Tail(finished)
      /\ prefetching' = [prefetching EXCEPT ![k] = "no"]
      /\ \/ /\ prefetching[k] = "subscribed" /\ client' = [client EXCEPT !.result = y]
         \/ prefetching[k] # "subscribed" /\ UNCHANGED client
      /\ \/ UNCHANGED <<local, files, promised>>
         \/ /\ y \in Data /\ files' = [files EXCEPT ![FileOf(k)] = y]
            /\ Cache(k, y) /\ promised' = Overwritten(k, y)
      /\ UNCHANGED <<queue, worker, tasks, sending, server, late, erased, calls>>
  BY <1>0 DEF FinishedPrefetch, Selecting, Answer, Store, remote
<1>2. /\ Len(finished) \in Nat \ {0} /\ Head(finished) = finished[1] /\ 1 \in 1 .. Len(finished)
      /\ finished[1] \in [on : Key, result : Data \cup {NotFound, Failed}]
      /\ finished' \in Seq([on : Key, result : Data \cup {NotFound, Failed}])
      /\ \A i \in 1 .. Len(finished') : finished'[i] = finished[i + 1] /\ i + 1 \in 1 .. Len(finished)
      /\ \A i \in 1 .. Len(finished) : i = 1 \/ (i - 1 \in 1 .. Len(finished') /\ finished'[i - 1] = finished[i])
  <2>1. PICK S : S = [on : Key, result : Data \cup {NotFound, Failed}]
    OBVIOUS
  <2>2. finished \in Seq(S) /\ finished # <<>>
    BY <1>1, <2>1 DEF IInv, Types
  <2>3. /\ Len(finished) \in Nat \ {0} /\ Head(finished) = finished[1] /\ 1 \in 1 .. Len(finished)
        /\ finished[1] \in S /\ Tail(finished) \in Seq(S)
        /\ \A i \in 1 .. Len(Tail(finished)) :
              Tail(finished)[i] = finished[i + 1] /\ i + 1 \in 1 .. Len(finished)
        /\ \A i \in 1 .. Len(finished) :
              i = 1 \/ (i - 1 \in 1 .. Len(Tail(finished)) /\ Tail(finished)[i - 1] = finished[i])
    BY <2>2, TailFacts
  <2> QED BY <1>1, <2>1, <2>3
<1>3. k \in Key /\ y \in Data \cup {NotFound, Failed} /\ 1 \in Arrived(k) /\ finished[1].result = y
  BY <1>0, <1>2 DEF Arrived
<1>4. /\ Fetching(k) = {} /\ \A i \in Arrived(k) : i = 1
      /\ prefetching[k] # "no"
  BY <1>3 DEF IInv, Entries
<1>5. prefetching[k] = "subscribed" => Awaits("get", k) /\ queue = <<>>
  BY <1>3 DEF IInv, OneAsked
<1>6. prefetching[k] = "subscribed" =>
          v = [op |-> "get", on |-> k, result |-> None]
              /\ client' = [op |-> "get", on |-> k, result |-> y]
  <2> SUFFICES ASSUME prefetching[k] = "subscribed"
               PROVE  v = [op |-> "get", on |-> k, result |-> None]
                          /\ client' = [op |-> "get", on |-> k, result |-> y]
    OBVIOUS
  <2>1. v.op = "get" /\ v.on = k /\ v.result = None
    BY <1>0, <1>5 DEF Awaits, Waiting
  <2>2. v = [op |-> v.op, on |-> v.on, result |-> v.result]
    BY <1>0, <2>1 DEF IInv, Types, ClientOK, Idle
  <2>3. client' = [v EXCEPT !.result = y]
    BY <1>0, <1>1
  <2> QED BY <2>1, <2>2, <2>3
<1>21. /\ promised' \in [Key -> SUBSET Promise]
       /\ \A j \in Key : promised[j] \subseteq promised'[j] /\ (promised'[j] # {} => promised[j] # {})
  <2>1. CASE UNCHANGED promised
    BY <2>1 DEF IInv, Types
  <2>2. CASE y \in Data /\ promised' = Overwritten(k, y)
    BY <1>3, <2>2, OverwrittenFacts
  <2> QED BY <1>1, <2>1, <2>2
<1>22. /\ local' \in [Key -> Stored \cup {OnDisk}] /\ files' \in [File -> Stored]
  <2>1. CASE UNCHANGED <<local, files>>
    BY <2>1 DEF IInv, Types
  <2>2. CASE y \in Data /\ files' = [files EXCEPT ![FileOf(k)] = y] /\ Cache(k, y)
    <3>1. local' \in [Key -> Stored \cup {OnDisk}]
      BY <1>3, <2>2, CacheFacts
    <3>2. files \in [File -> Stored] /\ y \in Stored
      BY <2>2 DEF IInv, Types, Stored
    <3> QED BY <2>2, <3>1, <3>2
  <2> QED BY <1>1, <2>1, <2>2
<1>7. Types'
  <2>1. ClientOK'
    <3>1. CASE prefetching[k] = "subscribed"
      BY <1>3, <1>6, <3>1 DEF ClientOK
    <3>2. CASE client' = client
      BY <3>2 DEF IInv, Types, ClientOK
    <3> QED BY <1>1, <3>1, <3>2
  <2>3. prefetching' \in [Key -> {"no", "yes", "subscribed"}]
    BY <1>1, <1>3 DEF IInv, Types
  <2> QED BY <1>1, <1>2, <1>21, <1>22, <2>1, <2>3 DEF IInv, Types
<1>8. ASSUME prefetching[k] = "subscribed"
      PROVE  /\ queue = <<>> /\ NobodyFetches /\ \A j \in Key : prefetching'[j] # "subscribed"
  <2>1. Awaits("get", k) /\ queue = <<>>
    BY <1>5, <1>8
  <2>2. NobodyFetches
    BY <1>3, <1>8 DEF IInv, OneAsked, NobodyFetches, NobodySubscribes
  <2>3. \A j \in Key : prefetching[j] = "subscribed" => j = k
    BY <2>1 DEF IInv, OneAsked, Awaits
  <2> QED BY <1>1, <1>3, <2>1, <2>2, <2>3 DEF IInv, Types
<1>9. \A j \in Key : prefetching'[j] = "subscribed" => prefetching[j] = "subscribed"
  BY <1>1, <1>3 DEF IInv, Types
<1>10. QueueOrder'
  <2>1. CASE prefetching[k] = "subscribed"
    <3>1. queue' = <<>>
      BY <1>1, <1>8, <2>1
    <3>2. 1 .. Len(queue') = {}
      BY <3>1, EmptyHasNone
    <3> QED BY <3>2 DEF QueueOrder
  <2>2. CASE prefetching[k] # "subscribed"
    BY <1>1, <1>9, <2>2 DEF IInv, QueueOrder, NobodyFetches, NobodySubscribes, Awaits, Waiting
  <2> QED BY <2>1, <2>2
<1>11. OneAsked' /\ Stopping'
  <2>1. CASE prefetching[k] = "subscribed"
    BY <1>1, <1>8, <2>1 DEF OneAsked, Stopping, NobodyFetches
  <2>2. CASE prefetching[k] # "subscribed"
    BY <1>1, <1>9, <2>2 DEF IInv, OneAsked, Stopping, NobodySubscribes, Awaits, Waiting
  <2> QED BY <2>1, <2>2
<1>12. \A j \in Key : \A i \in Arrived(j)' : i + 1 \in Arrived(j) /\ finished'[i] = finished[i + 1]
  BY <1>2 DEF Arrived
<1>13. \A j \in Key \ {k} : \A i \in Arrived(j) : i - 1 \in Arrived(j)'
  BY <1>0, <1>2 DEF Arrived
<1>14. \A j \in Key : Fetching(j)' = Fetching(j)
  BY <1>1 DEF Fetching
<1>15. Entries'
  <2> SUFFICES ASSUME NEW j \in Key
               PROVE  /\ \A c, d \in Fetching(j) : c = d
                      /\ \A m, n \in Arrived(j)' : m = n
                      /\ Fetching(j) = {} \/ Arrived(j)' = {}
                      /\ prefetching'[j] = "no" <=> Fetching(j) = {} /\ Arrived(j)' = {}
    BY <1>14 DEF Entries
  <2>1. /\ \A c, d \in Fetching(j) : c = d
        /\ \A m, n \in Arrived(j) : m = n
        /\ Fetching(j) = {} \/ Arrived(j) = {}
        /\ prefetching[j] = "no" <=> Fetching(j) = {} /\ Arrived(j) = {}
    BY DEF IInv, Entries
  <2>2. \A i \in Arrived(j)' : i \in Nat \ {0}
    <3>1. Len(finished') \in Nat
      BY <1>2
    <3> QED BY <3>1 DEF Arrived
  <2>3. \A m, n \in Arrived(j)' : m = n
    BY <1>12, <2>1, <2>2
  <2>4. CASE j = k
    <3>1. Arrived(j)' = {}
      BY <1>4, <1>12, <2>2, <2>4
    <3> QED BY <1>1, <1>3, <1>4, <2>1, <2>4, <3>1 DEF IInv, Types
  <2>5. CASE j # k
    <3>1. Arrived(j)' = {} <=> Arrived(j) = {}
      BY <1>12, <1>13, <2>5
    <3>2. prefetching'[j] = prefetching[j]
      BY <1>1, <2>5 DEF IInv, Types
    <3> QED BY <2>1, <2>3, <3>1, <3>2
  <2> QED BY <2>4, <2>5
<1>16. Kept'
  <2> SUFFICES ASSUME NEW j \in Key, promised'[j] # {} PROVE KeptFor(j)'
    BY DEF Kept
  <2>1. promised[j] # {} /\ promised[j] \subseteq promised'[j] /\ KeptFor(j)
    BY <1>21 DEF IInv, Kept
  <2>2. j = k => y \in promised[j] \cup {Failed}
    BY <1>3, <2>1 DEF KeptFor
  <2>3. local'[j] # None => /\ local'[j] \in promised'[j] \cup {OnDisk}
                            /\ files'[FileOf(j)] \in promised'[j] \cup {None}
    <3>1. CASE UNCHANGED <<local, files, promised>>
      BY <2>1, <3>1 DEF KeptFor
    <3>2. CASE /\ y \in Data /\ files' = [files EXCEPT ![FileOf(k)] = y]
               /\ Cache(k, y) /\ promised' = Overwritten(k, y)
      <4>1. FileOf(j) \in File /\ files \in [File -> Stored]
        BY DEF IInv, Types, File
      <4>2. files'[FileOf(j)] = IF FileOf(j) = FileOf(k) THEN y ELSE files[FileOf(j)]
        BY <3>2, <4>1
      <4>3. CASE j = k
        <5>1. local'[j] = y /\ y \in promised[j]
          BY <1>3, <2>2, <3>2, <4>3, CacheFacts, MarkersNotData
        <5> QED BY <2>1, <4>2, <4>3, <5>1
      <4>4. CASE j # k
        <5>1. local'[j] = local[j] \/ (local[j] # None /\ local'[j] = OnDisk)
          BY <1>3, <3>2, <4>4, CacheFacts
        <5>2. FileOf(j) = FileOf(k) /\ local[j] # None => y \in promised'[j]
          BY <1>3, <2>1, <3>2, <4>4, OverwrittenFacts
        <5> QED BY <2>1, <4>2, <5>1, <5>2 DEF KeptFor
      <4> QED BY <4>3, <4>4
    <3> QED BY <1>1, <3>1, <3>2
  <2>4. /\ MayHave(server[j], promised'[j])
        /\ \A d \in tasks \cup sending \cup late : Allowed(d, j, promised'[j])
    BY <2>1 DEF KeptFor, MayHave, Allowed
  <2>5. \A i \in Arrived(j)' : finished'[i].result \in promised'[j] \cup {Failed}
    BY <1>12, <2>1 DEF KeptFor
  <2>6. client'.op = "get" /\ client'.on = j => client'.result \in {None, Failed} \cup promised'[j]
    <3>1. CASE prefetching[k] = "subscribed"
      BY <1>6, <2>1, <2>2, <3>1
    <3>2. CASE client' = client
      BY <2>1, <3>2 DEF KeptFor
    <3> QED BY <1>1, <3>1, <3>2
  <2>7. \A i \in 1 .. Len(queue') : ~Writes(queue'[i], j)
    BY <1>1, <2>1 DEF KeptFor
  <2> QED BY <1>1, <2>3, <2>4, <2>5, <2>6, <2>7 DEF KeptFor
<1>17. Cleaned'
  BY <1>1 DEF IInv, Cleaned
<1> QED BY <1>7, <1>10, <1>11, <1>15, <1>16, <1>17 DEF IInv

LEMMA JoinAllKeeps == ASSUME IInv, JoinAll PROVE IInv'
<1>1. /\ worker = "stopping" /\ tasks = {} /\ worker' = "stopped"
      /\ UNCHANGED <<client, queue, prefetching, local, files, finished, tasks, sending,
                     server, late, promised, erased, calls>>
  BY DEF JoinAll, remote, history
<1>2. Types'
  <2>1. ClientOK'
    BY <1>1 DEF IInv, Types, ClientOK
  <2> QED BY <1>1, <2>1 DEF IInv, Types
<1>3. QueueOrder' /\ OneAsked'
  BY <1>1 DEF IInv, QueueOrder, OneAsked, NobodyFetches, NobodySubscribes, Awaits, Waiting
<1>4. Stopping' /\ Entries'
  BY <1>1 DEF IInv, Stopping, Entries, Fetching, Arrived
<1>5. Kept' /\ Cleaned'
  BY <1>1 DEF IInv, Kept, KeptFor, Cleaned, Arrived
<1> QED BY <1>2, <1>3, <1>4, <1>5 DEF IInv

---------------------------------------------------------------------------
\* Who waits for a call to the server.
LEMMA CallingFacts ==
    ASSUME IInv, NEW c \in Calling
    PROVE  /\ worker \notin {"stopped", "dead"} /\ c \in ServerCall
           /\ c \in sending <=> c.op = "put"
           /\ c \in tasks <=> c.op # "put"
           /\ c.op \in {"get", "put"} =>
                 /\ Awaits(c.op, c.on) /\ queue = <<>> /\ worker = "running"
                 /\ NobodySubscribes
                 /\ \A y : [client EXCEPT !.result = y] = [op |-> c.op, on |-> c.on, result |-> y]
           /\ c.op = "get" => sending = {} /\ \A d \in tasks : d.op = "get" => d = c
           /\ c.op = "put" => sending = {c} /\ NobodyFetches
<1>1. worker \notin {"stopped", "dead"} /\ c \in tasks \cup sending
  BY DEF Calling
<1>2. c \in ServerCall /\ (c \in sending <=> c.op = "put") /\ (c \in tasks <=> c.op # "put")
  BY <1>1 DEF IInv, Types
<1>3. c.op \in {"get", "put"} => Awaits(c.op, c.on) /\ queue = <<>>
  BY <1>2 DEF IInv, OneAsked
<1>4. c.op \in {"get", "put"} => worker = "running" /\ NobodySubscribes
  BY <1>1, <1>2, <1>3 DEF IInv, Types, OneAsked, Stopping, Awaits, NobodySubscribes
<1>5. /\ c.op = "get" => sending = {} /\ \A d \in tasks : d.op = "get" => d = c
      /\ c.op = "put" => sending = {c} /\ NobodyFetches
  BY <1>2, <1>3 DEF IInv, OneAsked, Awaits, NobodyFetches
<1>6. ASSUME c.op \in {"get", "put"}, NEW y
      PROVE  [client EXCEPT !.result = y] = [op |-> c.op, on |-> c.on, result |-> y]
  <2>1. PICK v : v = client
    OBVIOUS
  <2>2. v.op = c.op /\ v.on = c.on
    BY <1>3, <1>6, <2>1 DEF Awaits
  <2>3. v = [op |-> v.op, on |-> v.on, result |-> v.result]
    BY <1>6, <2>1, <2>2 DEF IInv, Types, ClientOK, Idle
  <2>4. [v EXCEPT !.result = y] = [op |-> c.op, on |-> c.on, result |-> y]
    BY <2>2, <2>3
  <2> QED BY <2>1, <2>4
<1> QED BY <1>1, <1>2, <1>3, <1>4, <1>5, <1>6

\* A call that is under way, or late, spares what is promised and erased.
LEMMA ServerKeeps ==
    ASSUME IInv, NEW c \in ServerCall, c \in tasks \cup sending \cup late,
           server' = server \/ server' = Executed(c)
    PROVE  /\ server' \in [Key -> Stored]
           /\ \A k \in Key : promised[k] # {} =>
                 Allowed(c, k, promised[k]) /\ MayHave(server'[k], promised[k])
           /\ \A r \in erased : ~PutsInto(c, r)
           /\ \A r \in erased : (\A k \in Key : RunOf(k) = r => server[k] = None)
                 => \A k \in Key : RunOf(k) = r => server'[k] = None
<1>1. \A k \in Key : promised[k] # {} =>
          Allowed(c, k, promised[k]) /\ MayHave(server[k], promised[k])
  BY DEF IInv, Kept, KeptFor
<1>2. \A r \in erased : ~PutsInto(c, r)
  <2>1. \A d \in tasks : d.op # "put"
    BY DEF IInv, Types
  <2> QED BY <2>1 DEF IInv, Cleaned, PutsInto
<1>3. server \in [Key -> Stored]
  BY DEF IInv, Types
<1>4. CASE server' = server
  BY <1>1, <1>2, <1>3, <1>4
<1>5. CASE server' = Executed(c)
  <2>1. /\ Executed(c) \in [Key -> Stored]
        /\ \A k \in Key : \A P :
              MayHave(server[k], P) /\ Allowed(c, k, P) => MayHave(Executed(c)[k], P)
        /\ \A k \in Key : server[k] = None /\ ~PutsInto(c, RunOf(k)) => Executed(c)[k] = None
    BY <1>3, ExecutedFacts
  <2> QED BY <1>1, <1>2, <1>5, <2>1
<1> QED BY <1>4, <1>5

LEMMA LateKeeps == ASSUME IInv, NEW c \in late, Late(c) PROVE IInv'
<1>1. /\ late' = late \ {c} /\ server' = Executed(c)
      /\ UNCHANGED <<client, queue, worker, prefetching, local, files, finished, tasks, sending,
                     promised, erased, calls>>
  BY DEF Late, state, history
<1>2. c \in ServerCall
  BY DEF IInv, Types
<1>3. /\ server' \in [Key -> Stored]
      /\ \A k \in Key : promised[k] # {} => MayHave(server'[k], promised[k])
      /\ \A r \in erased : (\A k \in Key : RunOf(k) = r => server[k] = None)
            => \A k \in Key : RunOf(k) = r => server'[k] = None
  BY <1>1, <1>2, ServerKeeps
<1>4. Types'
  <2>1. ClientOK'
    BY <1>1 DEF IInv, Types, ClientOK
  <2> QED BY <1>1, <1>3, <2>1 DEF IInv, Types
<1>5. QueueOrder' /\ OneAsked' /\ Stopping' /\ Entries'
  BY <1>1 DEF IInv, QueueOrder, OneAsked, NobodyFetches, NobodySubscribes, Awaits, Waiting,
              Stopping, Entries, Fetching, Arrived
<1>6. Kept'
  BY <1>1, <1>3 DEF IInv, Kept, KeptFor, Arrived
<1>7. Cleaned'
  <2> SUFFICES ASSUME NEW r \in erased
               PROVE  /\ \A d \in sending \cup late' : ~PutsInto(d, r)
                      /\ \A i \in 1 .. Len(queue) : ~PutsInto(queue[i], r)
                      /\ \/ \A k \in Key : RunOf(k) = r => server'[k] = None
                         \/ \E d \in tasks : Cleans(d, r)
                         \/ \E i \in 1 .. Len(queue) : Cleans(queue[i], r)
    BY <1>1 DEF Cleaned
  <2> QED BY <1>1, <1>3 DEF IInv, Cleaned
<1> QED BY <1>4, <1>5, <1>6, <1>7 DEF IInv

---------------------------------------------------------------------------
\* A call whose connection broke, tried again.
LEMMA AgainKeeps ==
    ASSUME IInv, NEW c \in Calling, NEW again, NEW kept,
           again \in ServerCall, again.op = c.op, again.on = c.on, again.n = c.n,
           kept \in ServerCall, kept.op = c.op, kept.on = c.on, kept.n = c.n,
           server' = server \/ server' = Executed(c),
           late' \subseteq late \cup {kept},
           tasks' = IF c \in tasks THEN (tasks \ {c}) \cup {again} ELSE tasks,
           sending' = IF c \in sending THEN {again} ELSE sending,
           UNCHANGED <<client, queue, worker, prefetching, local, files, finished, promised, erased, calls>>
    PROVE  IInv'
<1>1. /\ worker \notin {"stopped", "dead"} /\ c \in ServerCall
      /\ c \in sending <=> c.op = "put"
      /\ c \in tasks <=> c.op # "put"
      /\ c.op \in {"get", "put"} => Awaits(c.op, c.on) /\ queue = <<>> /\ NobodySubscribes
      /\ c.op = "get" => sending = {} /\ \A d \in tasks : d.op = "get" => d = c
      /\ c.op = "put" => sending = {c} /\ NobodyFetches
  BY CallingFacts
<1>2. /\ server' \in [Key -> Stored]
      /\ \A k \in Key : promised[k] # {} =>
                 Allowed(c, k, promised[k]) /\ MayHave(server'[k], promised[k])
      /\ \A r \in erased : ~PutsInto(c, r)
      /\ \A r \in erased : (\A k \in Key : RunOf(k) = r => server[k] = None)
            => \A k \in Key : RunOf(k) = r => server'[k] = None
  <2>1. c \in tasks \cup sending \cup late
    BY <1>1
  <2> QED BY <1>1, <2>1, ServerKeeps
<1>3. /\ \A d \in tasks' : d \in tasks \/ (d = again /\ c \in tasks)
      /\ \A d \in sending' : d \in sending \/ (d = again /\ c \in sending)
      /\ c \in tasks => again \in tasks'
      /\ \A d \in tasks : d = c \/ d \in tasks'
  OBVIOUS
<1>4. Types'
  <2>1. ClientOK'
    BY DEF IInv, Types, ClientOK
  <2>2. tasks' \subseteq ServerCall /\ \A d \in tasks' : d.op # "put"
    BY <1>1, <1>3 DEF IInv, Types
  <2>3. sending' \subseteq ServerCall /\ \A d \in sending' : d.op = "put"
    BY <1>1, <1>3 DEF IInv, Types
  <2>4. late' \subseteq ServerCall
    BY DEF IInv, Types
  <2> QED BY <1>2, <2>1, <2>2, <2>3, <2>4 DEF IInv, Types
<1>5. QueueOrder'
  <2>1. CASE queue = <<>>
    <3>1. 1 .. Len(queue') = {}
      BY <2>1, EmptyHasNone
    <3> QED BY <3>1 DEF QueueOrder
  <2>2. CASE queue # <<>>
    <3>1. c.op \notin {"get", "put"} /\ sending' = sending
      BY <1>1, <2>2
    <3>2. NobodyFetches => NobodyFetches'
      BY <1>3, <3>1 DEF NobodyFetches
    <3> QED BY <3>1, <3>2 DEF IInv, QueueOrder, NobodySubscribes, Awaits, Waiting
  <2> QED BY <2>1, <2>2
<1>6. OneAsked'
  <2>1. \A d \in tasks' : d.op = "get" =>
            /\ Awaits("get", d.on) /\ queue = <<>> /\ NobodySubscribes
            /\ \A e \in tasks' : e.op = "get" => e = d
    <3> SUFFICES ASSUME NEW d \in tasks', d.op = "get"
                 PROVE  /\ Awaits("get", d.on) /\ queue = <<>> /\ NobodySubscribes
                        /\ \A e \in tasks' : e.op = "get" => e = d
      OBVIOUS
    <3>1. CASE c.op = "get"
      <4>1. \A e \in tasks' : e.op = "get" => e = again
        BY <1>1, <3>1
      <4> QED BY <1>1, <3>1, <4>1
    <3>2. CASE c.op # "get"
      <4>1. \A e \in tasks' : e.op = "get" => e \in tasks
        BY <1>3, <3>2
      <4> QED BY <4>1 DEF IInv, OneAsked
    <3> QED BY <3>1, <3>2
  <2>2. \A d \in sending' :
            Awaits("put", d.on) /\ queue = <<>> /\ \A e \in sending' : e = d
    BY <1>1 DEF IInv, OneAsked
  <2> QED BY <2>1, <2>2 DEF IInv, OneAsked, NobodySubscribes, Awaits, Waiting
<1>7. Stopping'
  BY <1>1 DEF IInv, Stopping
<1>8. Entries'
  <2> SUFFICES ASSUME NEW k \in Key
               PROVE  /\ \A d, e \in Fetching(k)' : d = e
                      /\ Fetching(k)' = {} <=> Fetching(k) = {}
    BY DEF IInv, Entries, Arrived
  <2>1. \A d, e \in Fetching(k) : d = e
    BY DEF IInv, Entries
  <2>2. CASE c \in Fetching(k)
    <3>1. Fetching(k)' = {again}
      BY <1>1, <1>3, <2>1, <2>2 DEF Fetching
    <3> QED BY <2>2, <3>1
  <2>3. CASE c \notin Fetching(k)
    <3>1. Fetching(k)' = Fetching(k)
      BY <1>1, <1>3, <2>3 DEF Fetching
    <3> QED BY <2>1, <3>1
  <2> QED BY <2>2, <2>3
<1>9. Kept'
  <2> SUFFICES ASSUME NEW k \in Key, promised[k] # {} PROVE KeptFor(k)'
    BY DEF Kept
  <2>1. KeptFor(k) /\ Allowed(c, k, promised[k]) /\ MayHave(server'[k], promised[k])
    BY <1>2 DEF IInv, Kept
  <2>2. Allowed(again, k, promised[k]) /\ Allowed(kept, k, promised[k])
    BY <2>1 DEF Allowed
  <2>3. \A d \in tasks' \cup sending' \cup late' : Allowed(d, k, promised[k])
    BY <1>3, <2>1, <2>2 DEF KeptFor
  <2> QED BY <2>1, <2>3 DEF KeptFor, Arrived
<1>10. Cleaned'
  <2> SUFFICES ASSUME NEW r \in erased
               PROVE  /\ \A d \in sending' \cup late' : ~PutsInto(d, r)
                      /\ \A i \in 1 .. Len(queue) : ~PutsInto(queue[i], r)
                      /\ \/ \A k \in Key : RunOf(k) = r => server'[k] = None
                         \/ \E d \in tasks' : Cleans(d, r)
                         \/ \E i \in 1 .. Len(queue) : Cleans(queue[i], r)
    BY DEF Cleaned
  <2>1. ~PutsInto(again, r) /\ ~PutsInto(kept, r)
    BY <1>2 DEF PutsInto
  <2>2. Cleans(c, r) => Cleans(again, r)
    BY DEF Cleans
  <2>3. /\ \A d \in sending \cup late : ~PutsInto(d, r)
        /\ \A i \in 1 .. Len(queue) : ~PutsInto(queue[i], r)
        /\ \/ \A k \in Key : RunOf(k) = r => server[k] = None
           \/ \E d \in tasks : Cleans(d, r)
           \/ \E i \in 1 .. Len(queue) : Cleans(queue[i], r)
    BY DEF IInv, Cleaned
  <2>4. (\E d \in tasks : Cleans(d, r)) => \E d \in tasks' : Cleans(d, r)
    BY <1>3, <2>2
  <2>5. \A d \in sending' \cup late' : ~PutsInto(d, r)
    BY <1>3, <2>1, <2>3
  <2> QED BY <1>2, <2>3, <2>4, <2>5
<1> QED BY <1>4, <1>5, <1>6, <1>7, <1>8, <1>9, <1>10 DEF IInv

---------------------------------------------------------------------------
\* What a promise counts with besides the put.
LEMMA OlderFacts ==
    ASSUME IInv
    PROVE  \A k \in Key :
              /\ Older(k) \subseteq Promise
              /\ local[k] # None => /\ local[k] \in Older(k) \cup {OnDisk}
                                    /\ files[FileOf(k)] \in Older(k) \cup {None}
              /\ \A i \in Arrived(k) : finished[i].result \in Older(k)
              /\ \A d \in tasks \cup late : Allowed(d, k, Older(k))
<1> SUFFICES ASSUME NEW k \in Key
             PROVE  /\ Older(k) \subseteq Promise
                    /\ local[k] # None => /\ local[k] \in Older(k) \cup {OnDisk}
                                          /\ files[FileOf(k)] \in Older(k) \cup {None}
                    /\ \A i \in Arrived(k) : finished[i].result \in Older(k)
                    /\ \A d \in tasks \cup late : Allowed(d, k, Older(k))
  OBVIOUS
<1>1. /\ local[k] \in Stored \cup {OnDisk} /\ files[FileOf(k)] \in Stored
      /\ \A i \in Arrived(k) : finished[i].result \in Promise
      /\ \A d \in late : d.op = "put" => d.n \in Promise
      /\ \A d \in tasks : d.op # "put"
  <2>1. \A d \in late : d.n \in Promise
    BY CallFields DEF IInv, Types, Promise
  <2>2. \A i \in 1 .. Len(finished) : finished[i].result \in Promise
    <3>1. PICK S : S = [on : Key, result : Data \cup {NotFound, Failed}]
      OBVIOUS
    <3>2. finished \in Seq(S)
      BY <3>1 DEF IInv, Types
    <3>3. \A i \in 1 .. Len(finished) : finished[i] \in S
      BY <3>2
    <3> QED BY <3>1, <3>3 DEF Promise
  <2>3. FileOf(k) \in File
    BY DEF File
  <2>4. /\ local \in [Key -> Stored \cup {OnDisk}] /\ files \in [File -> Stored]
        /\ \A d \in tasks : d.op # "put"
    BY DEF IInv, Types
  <2>5. \A i \in Arrived(k) : finished[i].result \in Promise
    BY <2>2 DEF Arrived
  <2> QED BY <2>1, <2>3, <2>4, <2>5
<1>2. Older(k) \subseteq Promise
  BY <1>1 DEF Older, Arrived, Promise
<1>3. local[k] # None => /\ local[k] \in Older(k) \cup {OnDisk}
                         /\ files[FileOf(k)] \in Older(k) \cup {None}
  BY <1>1 DEF Older, Stored
<1>4. \A i \in Arrived(k) : finished[i].result \in Older(k)
  BY DEF Older, Arrived
<1>5. \A d \in tasks \cup late : Allowed(d, k, Older(k))
  BY <1>1 DEF Older, Allowed
<1> QED BY <1>2, <1>3, <1>4, <1>5

\* A call that ends, with the server's reply or given up.
LEMMA EndKeeps ==
    ASSUME IInv, NEW c \in Calling, NEW result, NEW kept, End(c, result),
           kept \in ServerCall, kept.op = c.op, kept.on = c.on, kept.n = c.n,
           late' \subseteq late \cup {kept},
           server' = server \/ server' = Executed(c),
           result # Failed => result = Reply(c) /\ server' = Executed(c) /\ late' = late,
           UNCHANGED <<queue, worker, prefetching, local, files, calls>>
    PROVE  IInv'
<1>1. /\ worker \notin {"stopped", "dead"} /\ c \in ServerCall
      /\ c \in sending <=> c.op = "put"
      /\ c \in tasks <=> c.op # "put"
      /\ c.op \in {"get", "put"} =>
            /\ Awaits(c.op, c.on) /\ queue = <<>> /\ worker = "running" /\ NobodySubscribes
            /\ \A y : [client EXCEPT !.result = y] = [op |-> c.op, on |-> c.on, result |-> y]
      /\ c.op = "get" => sending = {} /\ \A d \in tasks : d.op = "get" => d = c
      /\ c.op = "put" => sending = {c} /\ NobodyFetches
  BY CallingFacts
<1>2. /\ server' \in [Key -> Stored]
      /\ \A k \in Key : promised[k] # {} =>
                 Allowed(c, k, promised[k]) /\ MayHave(server'[k], promised[k])
      /\ \A r \in erased : ~PutsInto(c, r)
      /\ \A r \in erased : (\A k \in Key : RunOf(k) = r => server[k] = None)
            => \A k \in Key : RunOf(k) = r => server'[k] = None
  <2>1. c \in tasks \cup sending \cup late
    BY <1>1
  <2> QED BY <1>1, <2>1, ServerKeeps
<1>3. tasks' = tasks \ {c} /\ sending' = sending \ {c}
  BY DEF End
<1>4. /\ c.op \in {"get", "prefetch", "put", "clean-up"}
      /\ c.op # "clean-up" => c.on \in Key
      /\ c.n \in Data
  BY <1>1, CallFields
<1>5. \/ /\ c.op = "prefetch"
         /\ finished' = Append(finished, [on |-> c.on, result |-> result])
         /\ client' = client /\ promised' = promised /\ erased' = erased
      \/ /\ c.op = "get"
         /\ client' = [op |-> "get", on |-> c.on, result |-> result]
         /\ finished' = finished /\ promised' = promised /\ erased' = erased
      \/ /\ c.op = "put"
         /\ client' = [op |-> "put", on |-> c.on, result |-> IF result = Failed THEN Failed ELSE "ok"]
         /\ promised' = [promised EXCEPT ![c.on] =
                            IF result # Failed THEN {c.n} \cup Older(c.on) ELSE {}]
         /\ finished' = finished /\ erased' = erased
      \/ /\ c.op = "clean-up"
         /\ erased' = IF result = Failed THEN erased \ {c.on} ELSE erased
         /\ client' = client /\ finished' = finished /\ promised' = promised
  <2>1. EndPrefetch(c, result) \/ EndGet(c, result) \/ EndPut(c, result) \/ EndCleanUp(c, result)
    BY DEF End
  <2>2. CASE EndPrefetch(c, result)
    BY <2>2 DEF EndPrefetch, history
  <2>3. CASE EndGet(c, result)
    BY <1>1, <2>3 DEF EndGet, Answer, history
  <2>4. CASE EndPut(c, result)
    BY <1>1, <2>4 DEF EndPut, Answer
  <2>5. CASE EndCleanUp(c, result)
    BY <2>5 DEF EndCleanUp
  <2> QED BY <2>1, <2>2, <2>3, <2>4, <2>5
<1>6. c.op \in {"get", "prefetch"} =>
          /\ result \in Data \cup {NotFound, Failed}
          /\ promised[c.on] # {} => result \in promised[c.on] \cup {Failed}
  <2> SUFFICES ASSUME c.op \in {"get", "prefetch"}, result # Failed
               PROVE  /\ result \in Data \cup {NotFound, Failed}
                      /\ promised[c.on] # {} => result \in promised[c.on] \cup {Failed}
    OBVIOUS
  <2>1. result = IF server[c.on] = None THEN NotFound ELSE server[c.on]
    BY DEF Reply
  <2>2. c.on \in Key /\ server[c.on] \in Stored
    BY <1>4 DEF IInv, Types
  <2>3. promised[c.on] # {} => MayHave(server[c.on], promised[c.on])
    BY <2>2 DEF IInv, Kept, KeptFor
  <2>4. None \notin promised[c.on]
    BY <2>2, MarkersNotData DEF IInv, Types, Promise
  <2> QED BY <2>1, <2>2, <2>3, <2>4 DEF Stored, MayHave
<1>7. Types'
  <2>1. ClientOK'
    <3>1. ClientOK
      BY DEF IInv, Types
    <3>2. CASE client' = client
      BY <3>1, <3>2 DEF ClientOK
    <3>3. ASSUME NEW op \in {"get", "put"}, NEW y,
                 client' = [op |-> op, on |-> c.on, result |-> y], c.on \in Key
          PROVE  ClientOK'
      BY <3>3 DEF ClientOK
    <3> QED BY <1>4, <1>5, <3>2, <3>3
  <2>2. finished' \in Seq([on : Key, result : Data \cup {NotFound, Failed}])
    <3>1. PICK S : S = [on : Key, result : Data \cup {NotFound, Failed}]
      OBVIOUS
    <3>2. finished \in Seq(S)
      BY <3>1 DEF IInv, Types
    <3>3. CASE finished' = finished
      BY <3>1, <3>2, <3>3
    <3>4. CASE c.op = "prefetch" /\ finished' = Append(finished, [on |-> c.on, result |-> result])
      <4>1. [on |-> c.on, result |-> result] \in S
        BY <1>4, <1>6, <3>1, <3>4
      <4> QED BY <3>1, <3>2, <3>4, <4>1, AppendFacts
    <3> QED BY <1>5, <3>3, <3>4
  <2>3. tasks' \subseteq ServerCall /\ \A d \in tasks' : d.op # "put"
    BY <1>3 DEF IInv, Types
  <2>4. sending' \subseteq ServerCall /\ \A d \in sending' : d.op = "put"
    BY <1>3 DEF IInv, Types
  <2>5. late' \subseteq ServerCall
    BY DEF IInv, Types
  <2>6. promised' \in [Key -> SUBSET Promise]
    <3>1. promised \in [Key -> SUBSET Promise] /\ c.n \in Promise
      BY <1>4 DEF IInv, Types, Promise
    <3>2. c.op = "put" => Older(c.on) \subseteq Promise
      BY <1>4, OlderFacts
    <3> QED BY <1>5, <3>1, <3>2
  <2>7. erased' \subseteq Run
    BY <1>5 DEF IInv, Types
  <2> QED BY <1>2, <2>1, <2>2, <2>3, <2>4, <2>5, <2>6, <2>7 DEF IInv, Types
<1>8. QueueOrder'
  <2>1. CASE queue = <<>>
    <3>1. 1 .. Len(queue') = {}
      BY <2>1, EmptyHasNone
    <3> QED BY <3>1 DEF QueueOrder
  <2>2. CASE queue # <<>>
    <3>1. sending' = sending /\ client' = client
      BY <1>1, <1>3, <1>5, <2>2
    <3>2. NobodyFetches => NobodyFetches'
      BY <1>3 DEF NobodyFetches
    <3> QED BY <3>1, <3>2 DEF IInv, QueueOrder, NobodySubscribes, Awaits, Waiting
  <2> QED BY <2>1, <2>2
<1>9. OneAsked'
  <2>1. CASE c.op \in {"get", "put"}
    <3>1. (\A d \in tasks' : d.op # "get") /\ sending' = {}
      BY <1>1, <1>3, <2>1 DEF NobodyFetches
    <3> QED BY <1>1, <2>1, <3>1 DEF OneAsked, NobodySubscribes
  <2>2. CASE c.op \notin {"get", "put"}
    <3>1. client' = client
      BY <1>5, <2>2
    <3> QED BY <1>3, <3>1 DEF IInv, OneAsked, NobodySubscribes, Awaits, Waiting
  <2> QED BY <2>1, <2>2
<1>10. Stopping'
  <2>1. worker # "running" => client' = client
    BY <1>1, <1>5
  <2> QED BY <1>1, <2>1 DEF IInv, Stopping
<1>11. PICK m : m = Len(finished) + 1
  OBVIOUS
<1>12. /\ c.op = "prefetch" =>
             /\ \A k \in Key \ {c.on} : Arrived(k)' = Arrived(k) /\ Fetching(k)' = Fetching(k)
             /\ Arrived(c.on)' = {m} /\ Fetching(c.on)' = {} /\ Arrived(c.on) = {}
             /\ prefetching[c.on] # "no" /\ finished'[m].result = result
             /\ \A i \in 1 .. Len(finished) : finished'[i] = finished[i]
       /\ c.op # "prefetch" => \A k \in Key : Arrived(k)' = Arrived(k) /\ Fetching(k)' = Fetching(k)
  <2>1. CASE c.op # "prefetch"
    <3>1. finished' = finished
      BY <1>5, <2>1
    <3> QED BY <1>3, <2>1, <3>1 DEF Arrived, Fetching
  <2>2. CASE c.op = "prefetch"
    <3>1. /\ c.on \in Key /\ c \in tasks /\ c \in Fetching(c.on)
          /\ finished' = Append(finished, [on |-> c.on, result |-> result])
      BY <1>1, <1>4, <1>5, <2>2 DEF Fetching
    <3>2. /\ Arrived(c.on) = {} /\ prefetching[c.on] # "no"
          /\ \A d \in Fetching(c.on) : d = c
      BY <3>1 DEF IInv, Entries
    <3>3. finished \in Seq([on : Key, result : Data \cup {NotFound, Failed}])
      BY DEF IInv, Types
    <3>4. PICK S : S = [on : Key, result : Data \cup {NotFound, Failed}]
      OBVIOUS
    <3>5. [on |-> c.on, result |-> result] \in S
      BY <1>6, <2>2, <3>1, <3>4
    <3>6. /\ Len(finished) \in Nat /\ Len(finished') = Len(finished) + 1
          /\ finished'[Len(finished) + 1] = [on |-> c.on, result |-> result]
          /\ \A i \in 1 .. Len(finished) : finished'[i] = finished[i]
          /\ \A i \in 1 .. Len(finished') : i \in 1 .. Len(finished) \/ i = Len(finished) + 1
      BY <3>1, <3>3, <3>4, <3>5, AppendFacts
    <3>7. finished'[m].on = c.on /\ finished'[m].result = result
      BY <1>11, <3>6
    <3>8. m \in 1 .. Len(finished') /\ \A i \in 1 .. Len(finished) : i \in 1 .. Len(finished')
      BY <1>11, <3>6
    <3>9. \A k \in Key : Arrived(k)' = IF k = c.on THEN Arrived(k) \cup {m} ELSE Arrived(k)
      BY <1>11, <3>6, <3>7, <3>8 DEF Arrived
    <3>10. \A k \in Key : Fetching(k)' = Fetching(k) \ {c}
      BY <1>3 DEF Fetching
    <3>11. \A k \in Key \ {c.on} : c \notin Fetching(k)
      BY DEF Fetching
    <3>12. \A k \in Key \ {c.on} : Arrived(k)' = Arrived(k) /\ Fetching(k)' = Fetching(k)
      BY <3>9, <3>10, <3>11
    <3>13. Arrived(c.on)' = {m}
      BY <3>1, <3>2, <3>9
    <3>14. Fetching(c.on)' = {}
      BY <3>1, <3>2, <3>10
    <3> QED BY <2>2, <3>2, <3>6, <3>7, <3>12, <3>13, <3>14
  <2> QED BY <2>1, <2>2
<1>13. Entries'
  BY <1>4, <1>12 DEF IInv, Entries
<1>14. Kept'
  <2> SUFFICES ASSUME NEW k \in Key, promised'[k] # {} PROVE KeptFor(k)'
    BY DEF Kept
  <2>1. CASE promised'[k] = promised[k]
    <3>1. KeptFor(k) /\ Allowed(c, k, promised[k]) /\ MayHave(server'[k], promised[k])
      BY <1>2, <2>1 DEF IInv, Kept
    <3>2. Allowed(kept, k, promised[k])
      BY <3>1 DEF Allowed
    <3>3. \A d \in tasks' \cup sending' \cup late' : Allowed(d, k, promised[k])
      BY <1>3, <3>1, <3>2 DEF KeptFor
    <3>4. \A i \in Arrived(k)' : finished'[i].result \in promised[k] \cup {Failed}
      <4>1. CASE c.op = "prefetch" /\ c.on = k
        BY <1>6, <1>12, <2>1, <4>1
      <4>2. CASE c.op = "prefetch" /\ c.on # k
        BY <1>12, <3>1, <4>2 DEF KeptFor, Arrived
      <4>3. CASE c.op # "prefetch"
        <5>1. finished' = finished
          BY <1>5, <4>3
        <5> QED BY <1>12, <3>1, <4>3, <5>1 DEF KeptFor
      <4> QED BY <4>1, <4>2, <4>3
    <3>5. client'.op = "get" /\ client'.on = k => client'.result \in {None, Failed} \cup promised[k]
      <4>1. CASE client' = client
        BY <3>1, <4>1 DEF KeptFor
      <4>2. CASE c.op = "get"
        BY <1>5, <1>6, <2>1, <4>2
      <4>3. CASE c.op = "put"
        BY <1>5, <4>3
      <4> QED BY <1>5, <4>1, <4>2, <4>3
    <3> QED BY <2>1, <3>1, <3>3, <3>4, <3>5 DEF KeptFor
  <2>2. CASE promised'[k] # promised[k]
    <3>1. /\ c.op = "put" /\ c.on = k /\ result # Failed
          /\ promised'[k] = {c.n} \cup Older(k)
          /\ client'.op = "put" /\ finished' = finished
      <4>1. promised \in [Key -> SUBSET Promise]
        BY DEF IInv, Types
      <4> QED BY <1>5, <2>1, <2>2, <4>1
    <3>2. server'[k] = c.n
      <4>1. server \in [Key -> Stored]
        BY DEF IInv, Types
      <4>2. server' = Executed(c)
        BY <3>1
      <4> QED BY <1>1, <3>1, <4>1, <4>2, ExecutedFacts
    <3>3. local[k] # None => /\ local[k] \in promised'[k] \cup {OnDisk}
                             /\ files[FileOf(k)] \in promised'[k] \cup {None}
      BY <3>1, OlderFacts
    <3>4. \A i \in Arrived(k)' : finished'[i].result \in promised'[k]
      <4>1. Arrived(k)' = Arrived(k)
        BY <1>12, <3>1
      <4> QED BY <3>1, <4>1, OlderFacts
    <3>5. \A d \in tasks' \cup sending' \cup late' : Allowed(d, k, promised'[k])
      <4>1. late' = late /\ sending' = {} /\ tasks' \subseteq tasks
        BY <1>1, <1>3, <3>1
      <4>2. \A d \in tasks \cup late : Allowed(d, k, Older(k))
        BY OlderFacts
      <4> QED BY <3>1, <4>1, <4>2 DEF Allowed
    <3>6. 1 .. Len(queue') = {}
      BY <1>1, <3>1, EmptyHasNone
    <3> QED BY <3>1, <3>2, <3>3, <3>4, <3>5, <3>6 DEF KeptFor, MayHave
  <2> QED BY <2>1, <2>2
<1>15. Cleaned'
  <2> SUFFICES ASSUME NEW r \in erased'
               PROVE  /\ \A d \in sending' \cup late' : ~PutsInto(d, r)
                      /\ \A i \in 1 .. Len(queue) : ~PutsInto(queue[i], r)
                      /\ \/ \A k \in Key : RunOf(k) = r => server'[k] = None
                         \/ \E d \in tasks' : Cleans(d, r)
                         \/ \E i \in 1 .. Len(queue) : Cleans(queue[i], r)
    BY DEF Cleaned
  <2>1. r \in erased /\ (Cleans(c, r) => result # Failed)
    BY <1>5 DEF Cleans
  <2>2. ~PutsInto(kept, r)
    BY <1>2, <2>1 DEF PutsInto
  <2>3. /\ \A d \in sending \cup late : ~PutsInto(d, r)
        /\ \A i \in 1 .. Len(queue) : ~PutsInto(queue[i], r)
        /\ \/ \A k \in Key : RunOf(k) = r => server[k] = None
           \/ \E d \in tasks : Cleans(d, r)
           \/ \E i \in 1 .. Len(queue) : Cleans(queue[i], r)
    BY <2>1 DEF IInv, Cleaned
  <2>4. \A d \in sending' \cup late' : ~PutsInto(d, r)
    BY <1>3, <2>2, <2>3
  <2>5. Cleans(c, r) => \A k \in Key : RunOf(k) = r => server'[k] = None
    <3>1. server \in [Key -> Stored]
      BY DEF IInv, Types
    <3>2. \A k \in Key : Cleans(c, RunOf(k)) => Executed(c)[k] = None
      BY <1>1, <3>1, ExecutedFacts
    <3> QED BY <2>1, <3>2
  <2>6. \A d \in tasks : d = c \/ d \in tasks'
    BY <1>3
  <2> QED BY <1>2, <2>1, <2>3, <2>4, <2>5, <2>6
<1> QED BY <1>7, <1>8, <1>9, <1>10, <1>13, <1>14, <1>15 DEF IInv

---------------------------------------------------------------------------
LEMMA RepliedKeeps == ASSUME IInv, NEW c \in Calling, Replied(c) PROVE IInv'
<1>1. c \in ServerCall
  BY CallingFacts
<1>2. /\ End(c, Reply(c)) /\ server' = Executed(c)
      /\ UNCHANGED <<queue, worker, prefetching, local, files, late, calls>>
  BY DEF Replied
<1>3. PICK result : result = Reply(c)
  OBVIOUS
<1>4. late' \subseteq late \cup {c}
  BY <1>2
<1>5. End(c, result)
  BY <1>2, <1>3
<1> QED BY <1>1, <1>2, <1>3, <1>4, <1>5, EndKeeps

LEMMA RefusedKeeps == ASSUME IInv, NEW c \in Calling, Refused(c) PROVE IInv'
<1>1. c \in ServerCall
  BY CallingFacts
<1>2. /\ End(c, Failed)
      /\ UNCHANGED <<queue, worker, prefetching, local, files, server, late, calls>>
  BY DEF Refused
<1>3. late' \subseteq late \cup {c}
  BY <1>2
<1> QED BY <1>1, <1>2, <1>3, EndKeeps

LEMMA BrokenKeeps == ASSUME IInv, NEW c \in Calling, Broken(c) PROVE IInv'
<1>0. PICK again, kept : again = [c EXCEPT !.tries = c.tries + 1] /\ kept = [c EXCEPT !.tries = 0]
  OBVIOUS
<1>1. c \in ServerCall /\ c.tries \in Nat
  BY CallingFacts, CallFields
<1>2. /\ again \in ServerCall /\ again.op = c.op /\ again.on = c.on
      /\ kept \in ServerCall /\ kept.op = c.op /\ kept.on = c.on
      /\ again.n = c.n /\ kept.n = c.n
  <2>1. c.tries + 1 \in Nat /\ 0 \in Nat
    BY <1>1
  <2> QED BY <1>0, <1>1, <2>1, TriedAgain
<1>3. /\ server' = server \/ server' = Executed(c)
      /\ late' \subseteq late \cup {kept}
      /\ UNCHANGED <<queue, worker, prefetching, local, files, calls>>
  BY <1>0 DEF Broken
<1>4. CASE c.tries + 1 < Attempts
  <2>1. /\ tasks' = IF c \in tasks THEN (tasks \ {c}) \cup {again} ELSE tasks
        /\ sending' = IF c \in sending THEN {again} ELSE sending
        /\ UNCHANGED <<client, finished, promised, erased>>
    BY <1>0, <1>4 DEF Broken, history
  <2> QED BY <1>2, <1>3, <2>1, AgainKeeps
<1>5. CASE ~(c.tries + 1 < Attempts)
  <2>1. End(c, Failed)
    BY <1>5 DEF Broken
  <2> QED BY <1>2, <1>3, <2>1, EndKeeps
<1> QED BY <1>4, <1>5

LEMMA StutterKeeps == ASSUME IInv, UNCHANGED vars PROVE IInv'
<1>1. UNCHANGED <<client, queue, worker, prefetching, local, files, finished, tasks, sending,
                  server, late, promised, erased, calls>>
  BY DEF vars, state, remote, history
<1>2. Types'
  <2>1. ClientOK'
    BY <1>1 DEF IInv, Types, ClientOK
  <2> QED BY <1>1, <2>1 DEF IInv, Types
<1>3. QueueOrder' /\ OneAsked' /\ Stopping' /\ Entries'
  BY <1>1 DEF IInv, QueueOrder, OneAsked, NobodyFetches, NobodySubscribes, Awaits, Waiting,
              Stopping, Entries, Fetching, Arrived
<1>4. Kept' /\ Cleaned'
  BY <1>1 DEF IInv, Kept, KeptFor, Cleaned, Arrived
<1> QED BY <1>2, <1>3, <1>4 DEF IInv

LEMMA NextIInv == IInv /\ [Next]_vars => IInv'
<1> SUFFICES ASSUME IInv, [Next]_vars PROVE IInv'
  OBVIOUS
<1>1. ASSUME NEW k \in Key, Prefetch(k) \/ Get(k) \/ Put(k) \/ SendFails(k) PROVE IInv'
  BY <1>1, PrefetchKeeps, GetKeeps, PutKeeps, SendFailsKeeps
<1>2. ASSUME NEW r \in Run, CleanUp(r) PROVE IInv'
  BY <1>2, CleanUpKeeps
<1>3. CASE Select
  BY <1>3, FinishedPrefetchKeeps, HandlePrefetchKeeps, HandleGetKeeps, HandlePutKeeps,
     GetPanicsKeeps, HandleCleanUpKeeps, HandleKillKeeps, JoinAllKeeps DEF Select
<1>4. ASSUME NEW c \in Calling, Replied(c) \/ Refused(c) \/ Broken(c) PROVE IInv'
  BY <1>4, RepliedKeeps, RefusedKeeps, BrokenKeeps
<1>5. ASSUME NEW c \in late, Late(c) PROVE IInv'
  BY <1>5, LateKeeps
<1> QED BY <1>1, <1>2, <1>3, <1>4, <1>5, DropKeeps, StutterKeeps DEF Next, Serve

---------------------------------------------------------------------------
\* The whole invariant: of the worker's map, of what is under way, of what the
\* server has and of what the client waits for (client.rs:144).
THEOREM RemoteInvariance == Spec => []IInv
<1> QED BY InitIInv, NextIInv, PTL DEF Spec

LEMMA OneAtMost ==
    ASSUME NEW S, \A x, y \in S : x = y
    PROVE  Cardinality(S) = IF S = {} THEN 0 ELSE 1
<1>1. CASE S = {}
  BY <1>1, FS_EmptySet
<1>2. CASE S # {}
  <2>1. PICK x : S = {x}
    BY <1>2
  <2> QED BY <2>1, FS_Singleton
<1> QED BY <1>1, <1>2

\* The worker's map has an entry exactly for the prefetches under way or
\* waiting in the channel: a finished prefetch finds its entry, as the expect
\* claims, and no second get finds the key being received (client.rs:261, 181).
THEOREM EntriesMatch == Spec => []PrefetchEntries
<1>1. IInv => PrefetchEntries
  <2> SUFFICES ASSUME IInv, NEW k \in Key
               PROVE  /\ (prefetching[k] # "no") = (PrefetchesOf(k) = 1)
                      /\ PrefetchesOf(k) <= 1
                      /\ prefetching[k] = "subscribed" => Waiting /\ client.on = k /\ queue = <<>>
    BY DEF PrefetchEntries
  <2>1. /\ \A c, d \in Fetching(k) : c = d
        /\ \A i, j \in Arrived(k) : i = j
        /\ Fetching(k) = {} \/ Arrived(k) = {}
        /\ prefetching[k] = "no" <=> Fetching(k) = {} /\ Arrived(k) = {}
        /\ prefetching[k] = "subscribed" => Waiting /\ client.on = k /\ queue = <<>>
    BY DEF IInv, Entries, OneAsked, Awaits
  <2>2. /\ Cardinality(Fetching(k)) = IF Fetching(k) = {} THEN 0 ELSE 1
        /\ Cardinality(Arrived(k)) = IF Arrived(k) = {} THEN 0 ELSE 1
    BY <2>1, OneAtMost
  <2>3. PrefetchesOf(k) = Cardinality(Fetching(k)) + Cardinality(Arrived(k))
    BY DEF PrefetchesOf, Fetching, Arrived
  <2> QED BY <2>1, <2>2, <2>3
<1> QED BY <1>1, RemoteInvariance, PTL

\* After a successful put a get returns the data of the put, or what the
\* promise counts with: an older copy of the key in the local store, the result
\* of a prefetch from before the put, a repeated call the server still carries
\* out, or, for a key whose file another run's key shares, the data stored
\* there later; whatever else is under way, and never an unknown key but in
\* those cases (client.rs:402, client.rs:491, local.rs:37).
THEOREM GetsReadPuts == Spec => []PromisedIsRead
<1>1. IInv => PromisedIsRead
  BY DEF IInv, Types, ClientOK, Idle, Kept, KeptFor, PromisedIsRead
<1> QED BY <1>1, RemoteInvariance, PTL

\* A worker that has ended has left nothing of a run it cleaned up, unless the
\* clean-up failed or its panic cut it short (client.rs:272, local.rs:19).
THEOREM CleanedUpOnStop == Spec => []StoppedIsClean
<1>1. IInv => StoppedIsClean
  <2> SUFFICES ASSUME IInv, worker \in {"stopped", "dead"}, NEW k \in Key, RunOf(k) \in erased
               PROVE  server[k] = None
    BY DEF StoppedIsClean
  <2>1. tasks = {} /\ queue = <<>>
    BY DEF IInv, Stopping
  <2>2. 1 .. Len(queue) = {}
    BY <2>1, EmptyHasNone
  <2> QED BY <2>1, <2>2 DEF IInv, Cleaned
<1> QED BY <1>1, RemoteInvariance, PTL
============================================================================
