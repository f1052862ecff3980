------------------------ MODULE DownloadCacheProofs ------------------------
(***************************************************************************)
(* For any processes, versions, sizes and bounds: the types, and what      *)
(* download_object promises of the file it places and serves while one     *)
(* process at a time holds the lock.                                       *)
(*                                                                         *)
(* The argument: who downloads holds the lock (LockKept), so that without  *)
(* an overlap nobody else writes to the partial file, and what has been    *)
(* hashed is what is in it (PartialIsHashed).  That it is of the version   *)
(* asked for is the digest's doing; without one, it takes that the object  *)
(* was never replaced (OneVersion).                                        *)
(***************************************************************************)
EXTENDS DownloadCache, FiniteSetTheorems, TLAPS

\* What a call's local variables satisfy whatever the others do.
CallOK(c) ==
    /\ c \in Call
    /\ c.pc \notin Ended => c.seen \in Version
    /\ c.pc \in Ended => c.at = "first"
    /\ c.where # "closed" => c.pc = "receive"
    /\ c.pc = "receive" => c.stream \in Version
    /\ c.pc \notin {"request", "receive", "verify", "place", "label"} => c.hash = <<>>

CallsOK == \A p \in Process : CallOK(call[p])

\* A process that is between Flock and CloseLock holds the lock.
Holds(c) == c.at = "locked" \/ c.pc \in Downloading \cup {"unlink lock", "close lock"}
LockKept == \A p \in Process : Holds(call[p]) => p \in held

\* An open descriptor is on a file.
FilesOpen ==
    \A p \in Process :
        /\ call[p].where = "partial" => partial \in Seq(Block)
        /\ call[p].where = "cache" => cache \in Seq(Block)

Alone == ~overlap => \A p, q \in held : p = q

\* What c has hashed is the content f of the partial file.
HashOf(c, f) ==
    /\ c.pc = "request" => IF f = None THEN c.hash = <<>> ELSE c.hash = f
    /\ c.pc = "receive" => c.where = "partial" /\ c.hash = f
    /\ c.pc \in {"verify", "place"} => c.hash = f
    /\ c.pc = "place" /\ HasSha => c.hash = Content(c.seen)

PartialIsHashed == ~overlap => \A p \in Process : HashOf(call[p], partial)

IInv == TypeOK /\ CallsOK /\ LockKept /\ FilesOpen /\ Alone /\ PartialIsHashed

---------------------------------------------------------------------------
\* Constants of the module that types rest on (store.rs:378).
LEMMA ConstantsOK ==
    /\ LockAttempts \in Nat \ {0} /\ Attempts \in Nat \ {0}
    /\ \A v \in Version : Size[v] \in Nat \ {0}
    /\ \A v \in Version : Content(v) \in Seq(Block) /\ Len(Content(v)) = Size[v]
    /\ Fresh \in Call /\ CallOK(Fresh)
<1>1. LockAttempts \in Nat \ {0} /\ Attempts \in Nat \ {0}
  BY BoundsAssumption
<1>2. \A v \in Version : Size[v] \in Nat \ {0}
  BY SizeAssumption
<1>3. ASSUME NEW v \in Version PROVE Content(v) \in Seq(Block) /\ Len(Content(v)) = Size[v]
  <2>1. \A i \in 1 .. Size[v] : <<v, i>> \in Block
    BY DEF Block
  <2> QED BY <1>2, <2>1 DEF Content
<1>4. Fresh \in Call /\ CallOK(Fresh)
  BY <1>1 DEF Fresh, Call, CallOK, Ended, Checking, Downloading
<1> QED BY <1>1, <1>2, <1>3, <1>4

\* The lock file gets an inode that no process has open: there is one more of
\* them than processes (store.rs:581).
LEMMA NewInode ==
    ASSUME TypeOK, lockFile = None
    PROVE  (CHOOSE i \in Inode : i \notin {lockFile} \cup {lockFd[q] : q \in Process}) \in Inode
<1> DEFINE S == {lockFd[q] : q \in Process}
<1>1. lockFd \in Surjection(Process, S)
  BY DEF TypeOK, Surjection
<1>2. IsFiniteSet(S) /\ Cardinality(S) <= Cardinality(Process)
  BY <1>1, FS_Surjection, ProcessAssumption
<1>3. Cardinality(Process) \in Nat /\ Cardinality(S) \in Nat
  BY <1>2, FS_CardinalityType, ProcessAssumption
<1>4. IsFiniteSet(Inode) /\ Cardinality(Inode) = Cardinality(Process) + 1
  <2> DEFINE N == Cardinality(Process) + 1
  <2>1. N \in Nat /\ N >= 1 /\ 1 \in Int
    BY <1>3
  <2> HIDE DEF N
  <2>2. IsFiniteSet(1 .. N) /\ Cardinality(1 .. N) = N
    BY <2>1, FS_Interval
  <2>3. Inode = 1 .. N
    BY DEF Inode, N
  <2> QED BY <2>2, <2>3 DEF N
<1>5. ~(Inode \subseteq S)
  BY <1>2, <1>3, <1>4, FS_Subset
<1> QED BY <1>5, NoneAssumption

---------------------------------------------------------------------------
\* A step of p as all steps of a call are: the descriptors of all processes
\* follow their files (moved), then p's call becomes c.
LEMMA CallStep ==
    ASSUME IInv, NEW p \in Process, NEW c, NEW moved,
           CallOK(c),
           moved \in [Process -> Call],
           \A q \in Process : CallOK(moved[q]) /\ (Holds(moved[q]) <=> Holds(call[q])),
           \A q \in Process : moved[q].where = "partial" => partial' \in Seq(Block),
           \A q \in Process : moved[q].where = "cache" => cache' \in Seq(Block),
           c.where = "partial" => partial' \in Seq(Block),
           c.where = "cache" => cache' \in Seq(Block),
           call' = [moved EXCEPT ![p] = c],
           UNCHANGED s3, cache' \in File, partial' \in File,
           sidecar' \in Version \cup {None},
           lockFile' \in Inode \cup {None},
           lockFd' \in [Process -> Inode \cup {None}],
           held' \subseteq Process, overlap' \in BOOLEAN,
           \A q \in Process \ {p} : q \in held => q \in held',
           Holds(c) => p \in held',
           ~overlap' => \A q, r \in held' : q = r,
           ~overlap' => HashOf(c, partial'),
           ~overlap' => \A q \in Process \ {p} : HashOf(moved[q], partial')
    PROVE  IInv'
<1>1. call' \in [Process -> Call]
  BY DEF CallOK
<1>2. call'[p] = c /\ \A q \in Process \ {p} : call'[q] = moved[q]
  OBVIOUS
<1>3. TypeOK'
  BY <1>1 DEF IInv, TypeOK, s3, Inode
<1>4. CallsOK'
  BY <1>2 DEF CallsOK
<1>5. LockKept'
  BY <1>2 DEF IInv, LockKept
<1>6. FilesOpen'
  BY <1>2 DEF FilesOpen
<1>7. Alone'
  BY DEF Alone
<1>8. PartialIsHashed'
  <2> SUFFICES ASSUME ~overlap', NEW q \in Process PROVE HashOf(call[q], partial)'
    BY DEF PartialIsHashed
  <2>1. HashOf(call'[q], partial')
    BY <1>2
  <2> QED BY <2>1 DEF HashOf, HasSha, s3
<1> QED BY <1>3, <1>4, <1>5, <1>6, <1>7, <1>8 DEF IInv

\* A step of p that leaves the locks alone.
LEMMA FileStep ==
    ASSUME IInv, NEW p \in Process, NEW c, NEW moved,
           CallOK(c), Holds(c) => p \in held,
           moved \in [Process -> Call],
           \A q \in Process : CallOK(moved[q]) /\ (Holds(moved[q]) <=> Holds(call[q])),
           \A q \in Process : moved[q].where = "partial" => partial' \in Seq(Block),
           \A q \in Process : moved[q].where = "cache" => cache' \in Seq(Block),
           c.where = "partial" => partial' \in Seq(Block),
           c.where = "cache" => cache' \in Seq(Block),
           call' = [moved EXCEPT ![p] = c],
           UNCHANGED <<s3, locks>>, cache' \in File, partial' \in File,
           sidecar' \in Version \cup {None},
           ~overlap => HashOf(c, partial') /\ \A q \in Process \ {p} : HashOf(moved[q], partial')
    PROVE  IInv'
<1>1. /\ UNCHANGED s3
      /\ lockFile' = lockFile /\ lockFd' = lockFd /\ held' = held /\ overlap' = overlap
  BY DEF locks
<1>2. /\ lockFile' \in Inode \cup {None} /\ lockFd' \in [Process -> Inode \cup {None}]
      /\ held' \subseteq Process /\ overlap' \in BOOLEAN
      /\ \A q \in Process \ {p} : q \in held => q \in held'
      /\ Holds(c) => p \in held'
      /\ ~overlap' => \A q, r \in held' : q = r
  BY <1>1 DEF IInv, TypeOK, Alone
<1>3. /\ ~overlap' => HashOf(c, partial')
      /\ ~overlap' => \A q \in Process \ {p} : HashOf(moved[q], partial')
  BY <1>1
<1> QED BY <1>1, <1>2, <1>3, CallStep

\* While p alone holds the lock, no other call has hashed anything.
LEMMA OthersHashNothing ==
    ASSUME IInv, ~overlap, NEW p \in held, NEW q \in Process \ {p}, NEW c, NEW f,
           Holds(c) <=> Holds(call[q])
    PROVE  HashOf(c, f)
<1>1. ~Holds(c)
  BY DEF IInv, Alone, LockKept
<1> QED BY <1>1 DEF Holds, HashOf, Downloading

\* A step of p that leaves the files alone and hashes nothing.
LEMMA QuietStep ==
    ASSUME IInv, NEW p \in Process, NEW c,
           CallOK(c), c.where = "closed",
           c.pc \notin {"request", "receive", "verify", "place"},
           call' = [call EXCEPT ![p] = c],
           UNCHANGED <<s3, cache, partial>>,
           sidecar' \in Version \cup {None},
           lockFile' \in Inode \cup {None},
           lockFd' \in [Process -> Inode \cup {None}],
           held' \subseteq Process, overlap' \in BOOLEAN,
           \A q \in Process \ {p} : q \in held => q \in held',
           Holds(c) => p \in held',
           ~overlap' => ~overlap /\ \A q, r \in held' : q = r
    PROVE  IInv'
<1>1. \A q \in Process : CallOK(call[q])
  BY DEF IInv, CallsOK
<1>2. /\ call \in [Process -> Call]
      /\ \A q \in Process : call[q].where = "partial" => partial' \in Seq(Block)
      /\ \A q \in Process : call[q].where = "cache" => cache' \in Seq(Block)
      /\ UNCHANGED s3 /\ cache' \in File /\ partial' \in File
  BY DEF IInv, TypeOK, FilesOpen
<1>3. c.where # "partial" /\ c.where # "cache"
  OBVIOUS
<1>4. ~overlap' => HashOf(c, partial')
  BY DEF HashOf
<1>5. ~overlap' => \A q \in Process \ {p} : HashOf(call[q], partial')
  BY DEF IInv, PartialIsHashed
<1> QED
  BY <1>1, <1>2, <1>3, <1>4, <1>5, CallStep

\* The descriptors that follow a file that is renamed or removed.
LEMMA MovedOK ==
    ASSUME TypeOK, CallsOK, NEW from \in {"partial", "cache"}, NEW to \in {"cache", "unlinked"},
           from # to
    PROVE  /\ Moved(from, to) \in [Process -> Call]
           /\ \A q \in Process :
                 /\ CallOK(Moved(from, to)[q])
                 /\ Holds(Moved(from, to)[q]) <=> Holds(call[q])
                 /\ Moved(from, to)[q].where # from
                 /\ Moved(from, to)[q].where = call[q].where
                        \/ (call[q].where = from /\ Moved(from, to)[q].where = to)
                 /\ call[q].where = "closed" => Moved(from, to)[q] = call[q]
<1> DEFINE m(q) == IF call[q].where = from THEN [call[q] EXCEPT !.where = to] ELSE call[q]
<1>1. Moved(from, to) = [q \in Process |-> m(q)]
  BY DEF Moved
<1>2. ASSUME NEW q \in Process
      PROVE  /\ m(q) \in Call
             /\ CallOK(m(q))
             /\ Holds(m(q)) <=> Holds(call[q])
             /\ m(q).where # from
             /\ m(q).where = call[q].where \/ (call[q].where = from /\ m(q).where = to)
             /\ call[q].where = "closed" => m(q) = call[q]
  <2>1. call[q] \in Call /\ CallOK(call[q])
    BY DEF TypeOK, CallsOK
  <2>2. CASE call[q].where = from
    <3>1. m(q) = [call[q] EXCEPT !.where = to]
      BY <2>2
    <3>2. m(q) \in Call /\ m(q).where = to
      BY <2>1, <3>1 DEF Call
    <3>3. /\ m(q).pc = call[q].pc /\ m(q).at = call[q].at /\ m(q).seen = call[q].seen
          /\ m(q).hash = call[q].hash /\ m(q).stream = call[q].stream
      BY <2>1, <3>1 DEF Call
    <3> QED BY <2>1, <2>2, <3>2, <3>3 DEF CallOK, Holds
  <2>3. CASE call[q].where # from
    BY <2>1, <2>3
  <2> QED BY <2>2, <2>3
<1> HIDE DEF m
<1> QED BY <1>1, <1>2

\* The call that Return leaves.
Returned(p, outcome) ==
    IF p \in held THEN [Fresh EXCEPT !.pc = "unlink lock", !.outcome = outcome]
    ELSE IF outcome = "ok" THEN [Fresh EXCEPT !.pc = "serve"]
    ELSE Fresh

LEMMA ReturnedOK ==
    ASSUME NEW p, NEW outcome \in {"ok", "err"}
    PROVE  LET c == Returned(p, outcome) IN
           /\ CallOK(c) /\ c.where = "closed" /\ c.pc \in Ended
           /\ Holds(c) => p \in held
<1> USE ConstantsOK
<1>1. CASE p \in held
  <2>1. Returned(p, outcome) = [Fresh EXCEPT !.pc = "unlink lock", !.outcome = outcome]
    BY <1>1 DEF Returned
  <2> QED BY <1>1, <2>1 DEF Fresh, CallOK, Call, Ended, Holds, Downloading, Checking
<1>2. CASE p \notin held /\ outcome = "ok"
  <2>1. Returned(p, outcome) = [Fresh EXCEPT !.pc = "serve"]
    BY <1>2 DEF Returned
  <2> QED BY <2>1 DEF Fresh, CallOK, Call, Ended, Holds, Downloading, Checking
<1>3. CASE p \notin held /\ outcome = "err"
  <2>1. Returned(p, outcome) = Fresh
    BY <1>3 DEF Returned
  <2> QED BY <2>1 DEF Fresh, CallOK, Call, Ended, Holds, Downloading, Checking
<1> QED BY <1>1, <1>2, <1>3

\* The call of another attempt.
Again(c) == [c EXCEPT !.pc = "look", !.attempt = @ + 1, !.hash = <<>>,
                      !.stream = None, !.append = FALSE, !.where = "closed"]

LEMMA AgainOK ==
    ASSUME NEW c, CallOK(c), c.seen \in Version, c.attempt + 1 < Attempts
    PROVE  /\ CallOK(Again(c))
           /\ Again(c).pc = "look" /\ Again(c).where = "closed" /\ Again(c).seen = c.seen
<1>1. c \in Call
  BY DEF CallOK
<1>2. /\ Again(c).pc = "look" /\ Again(c).attempt = c.attempt + 1 /\ Again(c).hash = <<>>
      /\ Again(c).stream = None /\ Again(c).append = FALSE /\ Again(c).where = "closed"
      /\ Again(c).at = c.at /\ Again(c).waits = c.waits /\ Again(c).seen = c.seen
      /\ Again(c).outcome = c.outcome
  BY <1>1 DEF Again, Call
<1>4. c.attempt + 1 \in 0 .. Attempts - 1
  BY <1>1, ConstantsOK DEF Call
<1>5. <<>> \in Seq(Block) /\ "look" \in Downloading
  BY DEF Downloading
<1>6. Again(c) \in Call
  <2> DEFINE d == [c EXCEPT !.pc = "look", !.attempt = @ + 1, !.hash = <<>>]
  <2>1. d \in Call
    BY <1>1, <1>4, <1>5 DEF Call
  <2>2. Again(c) = [d EXCEPT !.stream = None, !.append = FALSE, !.where = "closed"]
    BY <1>1 DEF Again, Call
  <2> HIDE DEF d
  <2> QED BY <2>1, <2>2 DEF Call
<1> QED BY <1>2, <1>6 DEF CallOK, Ended

\* What is left of a call whose attempt fails: another attempt or its end.
LEMMA RetryOK ==
    ASSUME NEW p \in Process, NEW moved, CallOK(moved[p]), p \in held,
           moved[p].seen \in Version, moved[p].attempt = call[p].attempt, Retry(p, moved)
    PROVE  \E c : /\ CallOK(c) /\ c.where = "closed"
                  /\ c.pc \in Ended \cup {"look"}
                  /\ Holds(c) => p \in held
                  /\ call' = [moved EXCEPT ![p] = c]
<1>1. CASE call[p].attempt + 1 < Attempts
  <2>1. call' = [moved EXCEPT ![p] = Again(moved[p])]
    BY <1>1 DEF Retry, Again
  <2> QED BY <1>1, <2>1, AgainOK
<1>2. CASE ~(call[p].attempt + 1 < Attempts)
  <2>1. call' = [moved EXCEPT ![p] = Returned(p, "err")]
    BY <1>2 DEF Retry, ReturnWith, Returned
  <2> QED BY <2>1, ReturnedOK
<1> QED BY <1>1, <1>2

---------------------------------------------------------------------------
LEMMA InitIInv == Init => IInv
<1> SUFFICES ASSUME Init PROVE IInv
  OBVIOUS
<1> USE ConstantsOK DEF Init
<1>1. TypeOK
  BY DEF TypeOK, File
<1>2. CallsOK
  BY DEF CallsOK
<1>3. LockKept /\ FilesOpen /\ Alone /\ PartialIsHashed
  BY DEF LockKept, Holds, FilesOpen, Alone, PartialIsHashed, HashOf, Fresh, Downloading
<1> QED BY <1>1, <1>2, <1>3 DEF IInv

\* The call of p at another pc.
MovedTo(p, pc) == [call[p] EXCEPT !.pc = pc]

LEMMA GotoOK ==
    ASSUME CallsOK, TypeOK, LockKept, NEW p \in Process, NEW pc,
           call[p].pc \notin Ended, call[p].pc # "receive", call[p].hash = <<>>,
           pc \in Checking \cup {"look"}, pc = "look" => call[p].at = "locked"
    PROVE  /\ CallOK(MovedTo(p, pc)) /\ MovedTo(p, pc).where = "closed"
           /\ Holds(MovedTo(p, pc)) => p \in held
           /\ MovedTo(p, pc).pc = pc
           /\ Goto(p, pc) => call' = [call EXCEPT ![p] = MovedTo(p, pc)]
<1> DEFINE c == MovedTo(p, pc)
<1>1. call[p] \in Call /\ CallOK(call[p])
  BY DEF CallsOK, TypeOK
<1>2. c \in Call /\ c.pc = pc
  BY <1>1 DEF Call, Downloading, MovedTo
<1>3. /\ c.at = call[p].at /\ c.where = call[p].where /\ c.seen = call[p].seen
      /\ c.hash = call[p].hash
  BY <1>1 DEF Call, MovedTo
<1>4. pc \notin Ended /\ pc \notin {"receive", "unlink lock", "close lock"}
  BY DEF Checking, Ended
<1>5. CallOK(c) /\ c.where = "closed"
  BY <1>1, <1>2, <1>3, <1>4 DEF CallOK
<1>6. Holds(c) => Holds(call[p])
  BY <1>2, <1>3, <1>4 DEF Holds, Downloading, Checking
<1>7. Goto(p, pc) => call' = [call EXCEPT ![p] = c]
  BY DEF TypeOK, Goto, MovedTo
<1> QED BY <1>2, <1>5, <1>6, <1>7 DEF LockKept

\* What a quiet step needs of a step that touches neither files nor locks.
LEMMA CallOnlyStep ==
    ASSUME IInv, NEW p \in Process, NEW c,
           CallOK(c), c.where = "closed",
           c.pc \notin {"request", "receive", "verify", "place"},
           Holds(c) => p \in held,
           call' = [call EXCEPT ![p] = c],
           UNCHANGED <<s3, cache, partial, locks>>,
           sidecar' \in Version \cup {None}
    PROVE  IInv'
BY QuietStep DEF IInv, TypeOK, Alone, locks

\* The steps of cache_valid (store.rs:531).
LEMMA CacheValidStep ==
    ASSUME IInv, NEW p \in Process, CacheValid(p)
    PROVE  IInv'
<1>1. call[p] \in Call /\ CallOK(call[p]) /\ CallsOK /\ TypeOK /\ LockKept
  BY DEF IInv, CallsOK, TypeOK
<1>2. \/ \E pc \in {"read sidecar", "digest", "write sidecar"} : Goto(p, pc)
      \/ AfterInvalid(p)
      \/ Return(p, "ok") \/ Return(p, "err")
  BY DEF CacheValid, Stat, ReadSidecar, Digest, WriteSidecar
<1>3. /\ UNCHANGED <<s3, cache, partial, locks>>
      /\ call[p].pc \in {"stat", "read sidecar", "digest", "write sidecar"}
  BY DEF CacheValid, Stat, ReadSidecar, Digest, WriteSidecar, data, At
<1>4. call[p].seen \in Version /\ call[p].hash = <<>>
  BY <1>1, <1>3 DEF CallOK, Ended
<1>5. sidecar' \in Version \cup {None}
  BY <1>1, <1>4 DEF CacheValid, Stat, ReadSidecar, Digest, WriteSidecar, data, TypeOK, Seen
<1>6. CASE \E pc \in {"read sidecar", "digest", "write sidecar"} : Goto(p, pc)
  <2>1. PICK pc \in {"read sidecar", "digest", "write sidecar"} : Goto(p, pc)
    BY <1>6
  <2>2. pc \in Checking \cup {"look"} /\ pc # "look"
    BY DEF Checking
  <2> QED
    BY <1>1, <1>3, <1>4, <1>5, <2>1, <2>2, GotoOK, CallOnlyStep DEF Ended
<1>7. CASE AfterInvalid(p)
  <2>1. call[p].at \in {"first", "waiting", "locked"}
    BY <1>1 DEF Call
  <2>2. PICK pc \in {"exists", "open lock", "look"} :
            Goto(p, pc) /\ (pc = "look" => call[p].at = "locked")
    BY <1>7, <2>1 DEF AfterInvalid
  <2>3. pc \in Checking \cup {"look"} /\ pc \notin {"request", "receive", "verify", "place"}
    BY DEF Checking
  <2> DEFINE c == MovedTo(p, pc)
  <2>4. /\ CallOK(c) /\ c.where = "closed" /\ c.pc = pc /\ (Holds(c) => p \in held)
        /\ call' = [call EXCEPT ![p] = c]
    BY <1>1, <1>3, <1>4, <2>2, <2>3, GotoOK DEF Ended
  <2> HIDE DEF c
  <2> QED BY <1>3, <1>5, <2>3, <2>4, CallOnlyStep
<1>8. CASE Return(p, "ok") \/ Return(p, "err")
  <2>1. PICK outcome \in {"ok", "err"} : call' = [call EXCEPT ![p] = Returned(p, outcome)]
    BY <1>8 DEF Return, ReturnWith, Returned
  <2> QED
    BY <1>3, <1>5, <2>1, ReturnedOK, CallOnlyStep DEF Ended
<1> QED BY <1>2, <1>6, <1>7, <1>8

\* The steps of remove_stale_cache (store.rs:562).
LEMMA RemoveStaleStep ==
    ASSUME IInv, NEW p \in Process, RemoveStaleCache(p)
    PROVE  IInv'
<1>1. call[p] \in Call /\ CallOK(call[p]) /\ CallsOK /\ TypeOK /\ LockKept
  BY DEF IInv, CallsOK, TypeOK
<1>2. call[p].pc \in {"exists", "remove cache", "remove sidecars"}
  BY DEF RemoveStaleCache, Exists, RemoveCache, RemoveSidecars, At
<1>3. call[p].seen \in Version /\ call[p].hash = <<>> /\ call[p].where = "closed"
  BY <1>1, <1>2 DEF CallOK, Ended
<1>4. CASE Exists(p)
  <2>1. PICK pc \in {"remove cache", "remove sidecars"} : Goto(p, pc)
    BY <1>4 DEF Exists
  <2>2. pc \in Checking \cup {"look"} /\ pc # "look"
    BY DEF Checking
  <2>3. UNCHANGED <<s3, cache, partial, locks>> /\ sidecar' \in Version \cup {None}
    BY <1>1, <1>4 DEF Exists, data, TypeOK
  <2> QED
    BY <1>1, <1>2, <1>3, <2>1, <2>2, <2>3, GotoOK, CallOnlyStep DEF Ended
<1>5. CASE RemoveCache(p)
  <2>1. UNCHANGED <<s3, partial, sidecar, locks>> /\ cache' = None
    BY <1>5 DEF RemoveCache
  <2>2. CASE cache = None
    <3>1. call' = [call EXCEPT ![p] = Returned(p, "err")]
      BY <1>5, <2>2 DEF RemoveCache, Return, ReturnWith, Returned
    <3> QED
      BY <1>1, <2>1, <2>2, <3>1, ReturnedOK, CallOnlyStep DEF Ended, TypeOK
  <2>3. CASE cache # None
    <3> DEFINE m == Moved("cache", "unlinked")
               c == MovedTo(p, "remove sidecars")
    <3>1. /\ m \in [Process -> Call]
          /\ \A q \in Process :
                /\ CallOK(m[q]) /\ (Holds(m[q]) <=> Holds(call[q]))
                /\ m[q].where # "cache"
                /\ m[q].where = "partial" => call[q].where = "partial"
                /\ call[q].where = "partial" => m[q] = call[q]
                /\ m[q].where = "closed" => m[q] = call[q]
      <4>1. \A q \in Process : call[q].where = "partial" => m[q] = call[q]
        BY DEF Moved
      <4> QED BY <1>1, <4>1, MovedOK
    <3>2. m[p] = call[p]
      BY <1>1, <1>3, MovedOK
    <3>3. CallOK(c) /\ c.where = "closed" /\ c.pc = "remove sidecars" /\ (Holds(c) => p \in held)
      BY <1>1, <1>2, <1>3, GotoOK DEF Ended, Checking
    <3>4. call' = [m EXCEPT ![p] = c]
      BY <1>5, <2>3, <3>1, <3>2 DEF RemoveCache, MovedTo
    <3>5. \A q \in Process : m[q].where = "partial" => partial' \in Seq(Block)
      BY <2>1, <3>1 DEF IInv, FilesOpen
    <3>6. ~overlap' => HashOf(c, partial')
      BY <3>3 DEF HashOf
    <3>7. ~overlap' => \A q \in Process \ {p} : HashOf(m[q], partial')
      <4> SUFFICES ASSUME ~overlap, NEW q \in Process \ {p} PROVE HashOf(m[q], partial)
        BY <2>1 DEF locks
      <4>1. HashOf(call[q], partial) /\ CallOK(call[q])
        BY DEF IInv, PartialIsHashed, CallsOK
      <4>2. call[q].where \in {"partial", "closed"}
        BY <4>1 DEF HashOf, CallOK
      <4>3. m[q] = call[q]
        BY <1>1, <3>1, <4>2, MovedOK
      <4> QED BY <4>1, <4>3
    <3>8. partial' \in File /\ cache' \in File /\ sidecar' \in Version \cup {None}
      BY <2>1 DEF IInv, TypeOK, File
    <3>9. /\ \A q \in Process : m[q].where = "cache" => cache' \in Seq(Block)
          /\ c.where = "partial" => partial' \in Seq(Block)
          /\ c.where = "cache" => cache' \in Seq(Block)
      BY <3>1, <3>3
    <3>10. ~overlap => HashOf(c, partial') /\ \A q \in Process \ {p} : HashOf(m[q], partial')
      BY <2>1, <3>6, <3>7 DEF locks
    <3> HIDE DEF m, c
    <3> QED
      BY <2>1, <3>1, <3>3, <3>4, <3>5, <3>8, <3>9, <3>10, FileStep
  <2> QED BY <2>2, <2>3
<1>6. CASE RemoveSidecars(p)
  <2> DEFINE c == [call[p] EXCEPT !.pc = "stat", !.at = "waiting"]
  <2>1. c \in Call /\ c.pc = "stat" /\ c.at = "waiting" /\ c.where = "closed"
        /\ c.seen = call[p].seen /\ c.hash = <<>>
    BY <1>1, <1>3 DEF Call, Checking
  <2>2. CallOK(c) /\ ~Holds(c)
    BY <1>3, <2>1 DEF CallOK, Holds, Ended, Downloading
  <2>3. call' = [call EXCEPT ![p] = c]
    BY <1>1, <1>6 DEF RemoveSidecars, TypeOK
  <2>4. UNCHANGED <<s3, cache, partial, locks>> /\ sidecar' = None
    BY <1>6 DEF RemoveSidecars
  <2> HIDE DEF c
  <2> QED BY <2>1, <2>2, <2>3, <2>4, CallOnlyStep
<1> QED BY <1>4, <1>5, <1>6 DEF RemoveStaleCache

\* The steps of DownloadLock (store.rs:574): open, lock, drop.
LEMMA LockStep ==
    ASSUME IInv, NEW p \in Process, TryAcquire(p) \/ DropLock(p)
    PROVE  IInv'
<1>1. call[p] \in Call /\ CallOK(call[p]) /\ CallsOK /\ TypeOK /\ LockKept
  BY DEF IInv, CallsOK, TypeOK
<1>2. /\ UNCHANGED <<s3, cache, partial>> /\ sidecar' \in Version \cup {None}
      /\ call[p].pc \in {"open lock", "flock", "unlink lock", "close lock"}
  BY <1>1 DEF TryAcquire, DropLock, OpenLock, Flock, FlockFails, UnlinkLock, CloseLock, data, At,
              TypeOK
<1>3. call[p].hash = <<>> /\ call[p].where = "closed"
  BY <1>1, <1>2 DEF CallOK
<1>4. CASE OpenLock(p)
  <2>1. lockFile' \in Inode \cup {None} /\ lockFd' \in [Process -> Inode \cup {None}]
    BY <1>1, <1>4, NewInode DEF OpenLock, TypeOK
  <2>2. UNCHANGED <<held, overlap>> /\ Goto(p, "flock") /\ call[p].pc = "open lock"
    BY <1>4 DEF OpenLock, At
  <2> DEFINE c == MovedTo(p, "flock")
  <2>3. /\ CallOK(c) /\ c.where = "closed" /\ c.pc = "flock" /\ (Holds(c) => p \in held)
        /\ call' = [call EXCEPT ![p] = c]
    BY <1>1, <1>3, <2>2, GotoOK DEF Ended, Checking
  <2>4. /\ held' \subseteq Process /\ overlap' \in BOOLEAN
        /\ \A q \in Process \ {p} : q \in held => q \in held'
        /\ Holds(c) => p \in held'
        /\ ~overlap' => ~overlap /\ \A q, r \in held' : q = r
    BY <2>2, <2>3 DEF IInv, TypeOK, Alone
  <2> HIDE DEF c
  <2> QED BY <1>2, <2>1, <2>3, <2>4, QuietStep
<1>5. CASE Flock(p)
  <2> DEFINE c == [call[p] EXCEPT !.pc = "stat", !.at = "locked"]
  <2>1. call[p].pc = "flock" /\ call[p].seen \in Version
    BY <1>1, <1>5 DEF Flock, At, CallOK, Ended
  <2>2. c \in Call /\ c.pc = "stat" /\ c.where = "closed" /\ c.seen = call[p].seen /\ c.hash = <<>>
    BY <1>1, <1>3 DEF Call, Checking
  <2>3. CallOK(c)
    BY <2>1, <2>2 DEF CallOK, Ended
  <2>4. call' = [call EXCEPT ![p] = c]
    BY <1>1, <1>5 DEF Flock, TypeOK
  <2>5. /\ held' = held \cup {p} /\ overlap' = (overlap \/ held # {})
        /\ UNCHANGED <<lockFile, lockFd>>
    BY <1>5 DEF Flock
  <2>6. /\ lockFile' \in Inode \cup {None} /\ lockFd' \in [Process -> Inode \cup {None}]
        /\ held' \subseteq Process /\ overlap' \in BOOLEAN
        /\ \A q \in Process \ {p} : q \in held => q \in held'
        /\ Holds(c) => p \in held'
        /\ ~overlap' => ~overlap /\ \A q, r \in held' : q = r
    BY <1>1, <2>5 DEF TypeOK
  <2> HIDE DEF c
  <2> QED BY <1>2, <2>2, <2>3, <2>4, <2>6, QuietStep
<1>6. CASE FlockFails(p)
  <2>1. call[p].pc = "flock" /\ call[p].seen \in Version
    BY <1>1, <1>6 DEF FlockFails, At, CallOK, Ended
  <2>2. /\ UNCHANGED <<lockFile, held, overlap>>
        /\ lockFd' \in [Process -> Inode \cup {None}]
    BY <1>1, <1>6 DEF FlockFails, TypeOK
  <2>3. \E c : /\ CallOK(c) /\ c.where = "closed"
               /\ c.pc \notin {"request", "receive", "verify", "place"}
               /\ Holds(c) => p \in held
               /\ call' = [call EXCEPT ![p] = c]
    <3>1. CASE call[p].waits + 1 < LockAttempts
      <4> DEFINE c == [call[p] EXCEPT !.pc = "stat", !.waits = @ + 1]
      <4>1. call[p].waits + 1 \in 0 .. LockAttempts - 1
        BY <1>1, <3>1, ConstantsOK DEF Call
      <4>2. /\ c \in Call /\ c.pc = "stat" /\ c.where = "closed" /\ c.seen = call[p].seen
            /\ c.hash = <<>> /\ c.at = call[p].at
        BY <1>1, <1>3, <4>1 DEF Call, Checking
      <4>3. CallOK(c) /\ (Holds(c) => Holds(call[p]))
        BY <2>1, <4>2 DEF CallOK, Ended, Holds, Downloading
      <4>4. call' = [call EXCEPT ![p] = c]
        BY <1>1, <1>6, <3>1 DEF FlockFails, TypeOK
      <4> HIDE DEF c
      <4> QED BY <1>1, <4>2, <4>3, <4>4 DEF LockKept
    <3>2. CASE ~(call[p].waits + 1 < LockAttempts)
      <4>1. call' = [call EXCEPT ![p] = Returned(p, "err")]
        BY <1>6, <3>2 DEF FlockFails, Return, ReturnWith, Returned
      <4> QED BY <4>1, ReturnedOK DEF Ended
    <3> QED BY <3>1, <3>2
  <2>4. PICK c : /\ CallOK(c) /\ c.where = "closed"
                 /\ c.pc \notin {"request", "receive", "verify", "place"}
                 /\ Holds(c) => p \in held
                 /\ call' = [call EXCEPT ![p] = c]
    BY <2>3
  <2>5. /\ lockFile' \in Inode \cup {None}
        /\ held' \subseteq Process /\ overlap' \in BOOLEAN
        /\ \A q \in Process \ {p} : q \in held => q \in held'
        /\ Holds(c) => p \in held'
        /\ ~overlap' => ~overlap /\ \A q, r \in held' : q = r
    BY <2>2, <2>4 DEF IInv, TypeOK, Alone
  <2> QED BY <1>2, <2>2, <2>4, <2>5, QuietStep
<1>7. CASE UnlinkLock(p)
  <2> DEFINE c == MovedTo(p, "close lock")
  <2>1. call[p].pc = "unlink lock" /\ p \in held
    BY <1>1, <1>7 DEF UnlinkLock, At, LockKept, Holds
  <2>2. /\ c \in Call /\ c.pc = "close lock" /\ c.where = "closed" /\ c.at = call[p].at
        /\ c.hash = <<>>
    BY <1>1, <1>3 DEF MovedTo, Call, Ended
  <2>3. CallOK(c)
    BY <1>1, <2>1, <2>2 DEF CallOK, Ended
  <2>4. call' = [call EXCEPT ![p] = c] /\ UNCHANGED <<lockFd, held, overlap>> /\ lockFile' = None
    BY <1>1, <1>7 DEF UnlinkLock, Goto, MovedTo, TypeOK
  <2>5. /\ lockFile' \in Inode \cup {None} /\ lockFd' \in [Process -> Inode \cup {None}]
        /\ held' \subseteq Process /\ overlap' \in BOOLEAN
        /\ \A q \in Process \ {p} : q \in held => q \in held'
        /\ Holds(c) => p \in held'
        /\ ~overlap' => ~overlap /\ \A q, r \in held' : q = r
    BY <2>1, <2>4 DEF IInv, TypeOK, Alone
  <2> HIDE DEF c
  <2> QED BY <1>2, <2>2, <2>3, <2>4, <2>5, QuietStep
<1>8. CASE CloseLock(p)
  <2> DEFINE c == [call[p] EXCEPT !.pc = IF call[p].outcome = "ok" THEN "serve" ELSE "idle",
                                  !.outcome = "none"]
  <2>1. call[p].pc = "close lock" /\ call[p].at = "first"
    BY <1>1, <1>8 DEF CloseLock, At, CallOK, Ended
  <2>2. /\ c \in Call /\ c.pc \in {"serve", "idle"} /\ c.where = "closed"
        /\ c.at = "first" /\ c.hash = <<>>
    BY <1>1, <1>3, <2>1 DEF Call, Ended
  <2>3. CallOK(c) /\ ~Holds(c)
    BY <2>2 DEF CallOK, Ended, Holds, Downloading
  <2>4. call' = [call EXCEPT ![p] = c] /\ UNCHANGED <<lockFile, overlap>>
        /\ lockFd' = [lockFd EXCEPT ![p] = None] /\ held' = held \ {p}
    BY <1>1, <1>8 DEF CloseLock, TypeOK
  <2>5. /\ lockFile' \in Inode \cup {None} /\ lockFd' \in [Process -> Inode \cup {None}]
        /\ held' \subseteq Process /\ overlap' \in BOOLEAN
        /\ \A q \in Process \ {p} : q \in held => q \in held'
        /\ ~overlap' => ~overlap /\ \A q, r \in held' : q = r
    BY <2>4 DEF IInv, TypeOK, Alone
  <2> HIDE DEF c
  <2> QED BY <1>2, <2>2, <2>3, <2>4, <2>5, QuietStep
<1> QED BY <1>4, <1>5, <1>6, <1>7, <1>8 DEF TryAcquire, DropLock

\* A call starts, is served, ends with its label, or dies (store.rs:378).
LEMMA EndsStep ==
    ASSUME IInv, NEW p \in Process,
           HeadRequest(p) \/ Serve(p) \/ Label(p) \/ Crash(p)
    PROVE  IInv'
<1>1. call[p] \in Call /\ CallOK(call[p]) /\ TypeOK
  BY DEF IInv, CallsOK, TypeOK
<1>2. UNCHANGED <<s3, cache, partial>>
  BY DEF HeadRequest, Serve, Label, Crash, data
<1>3. CASE HeadRequest(p)
  <2> DEFINE c == [Fresh EXCEPT !.pc = "stat", !.seen = remote]
  <2>1. remote \in Version /\ sidecar' \in Version \cup {None} /\ UNCHANGED locks
    BY <1>1, <1>3 DEF HeadRequest, TypeOK, data
  <2>2. /\ c \in Call /\ c.pc = "stat" /\ c.where = "closed" /\ c.seen = remote
        /\ c.hash = <<>> /\ c.at = "first"
    BY <2>1, ConstantsOK DEF Fresh, Call, Checking
  <2>3. CallOK(c) /\ ~Holds(c)
    BY <2>1, <2>2 DEF CallOK, Ended, Holds, Downloading
  <2>4. call' = [call EXCEPT ![p] = c]
    BY <1>3 DEF HeadRequest
  <2> HIDE DEF c
  <2> QED BY <1>2, <2>1, <2>2, <2>3, <2>4, CallOnlyStep
<1>4. CASE Serve(p)
  <2> DEFINE c == MovedTo(p, "idle")
  <2>1. call[p].pc = "serve" /\ sidecar' \in Version \cup {None} /\ UNCHANGED locks
    BY <1>1, <1>4 DEF Serve, At, TypeOK, data
  <2>2. call[p].at = "first" /\ call[p].hash = <<>> /\ call[p].where = "closed"
    BY <1>1, <2>1 DEF CallOK, Ended
  <2>3. /\ c \in Call /\ c.pc = "idle" /\ c.where = "closed"
        /\ c.hash = <<>> /\ c.at = "first"
    BY <1>1, <2>2 DEF Call, MovedTo, Ended
  <2>4. CallOK(c) /\ ~Holds(c)
    BY <2>3 DEF CallOK, Ended, Holds, Downloading
  <2>5. call' = [call EXCEPT ![p] = c]
    BY <1>1, <1>4 DEF Serve, Goto, MovedTo, TypeOK
  <2> HIDE DEF c
  <2> QED BY <1>2, <2>1, <2>3, <2>4, <2>5, CallOnlyStep
<1>5. CASE Label(p)
  <2>1. /\ sidecar' \in Version \cup {None} /\ UNCHANGED locks
        /\ call' = [call EXCEPT ![p] = Returned(p, "ok")]
    BY <1>1, <1>5 DEF Label, At, Seen, CallOK, Ended, Return, ReturnWith, Returned
  <2> QED BY <1>2, <2>1, ReturnedOK, CallOnlyStep DEF Ended
<1>6. CASE Crash(p)
  <2>1. /\ sidecar' \in Version \cup {None} /\ UNCHANGED <<lockFile, overlap>>
        /\ lockFd' = [lockFd EXCEPT ![p] = None] /\ held' = held \ {p}
        /\ call' = [call EXCEPT ![p] = Fresh]
    BY <1>1, <1>6 DEF Crash, data, TypeOK
  <2>2. CallOK(Fresh) /\ Fresh.where = "closed" /\ Fresh.pc = "idle" /\ ~Holds(Fresh)
    BY ConstantsOK DEF Fresh, Holds, Downloading
  <2>3. /\ lockFile' \in Inode \cup {None} /\ lockFd' \in [Process -> Inode \cup {None}]
        /\ held' \subseteq Process /\ overlap' \in BOOLEAN
        /\ \A q \in Process \ {p} : q \in held => q \in held'
        /\ ~overlap' => ~overlap /\ \A q, r \in held' : q = r
    BY <2>1 DEF IInv, TypeOK, Alone
  <2> QED BY <1>2, <2>1, <2>2, <2>3, QuietStep
<1> QED BY <1>3, <1>4, <1>5, <1>6

---------------------------------------------------------------------------
\* A step of p, which holds the lock, of download_object_once.
LEMMA DownloadStep ==
    ASSUME IInv, NEW p \in held, NEW c, NEW moved,
           CallOK(c),
           moved \in [Process -> Call],
           \A q \in Process : CallOK(moved[q]) /\ (Holds(moved[q]) <=> Holds(call[q])),
           \A q \in Process : moved[q].where = "partial" => partial' \in Seq(Block),
           \A q \in Process : moved[q].where = "cache" => cache' \in Seq(Block),
           c.where = "partial" => partial' \in Seq(Block),
           c.where = "cache" => cache' \in Seq(Block),
           call' = [moved EXCEPT ![p] = c],
           UNCHANGED <<s3, locks, sidecar>>, cache' \in File, partial' \in File,
           ~overlap => HashOf(c, partial')
    PROVE  IInv'
<1>1. p \in Process /\ sidecar' \in Version \cup {None}
  BY DEF IInv, TypeOK
<1>2. ~overlap => \A q \in Process \ {p} : HashOf(moved[q], partial')
  BY OthersHashNothing
<1> QED BY <1>1, <1>2, FileStep

\* The attempt fails: the connection or the request does, and the files stay.
LEMMA FailsStep ==
    ASSUME IInv, NEW p \in Process, RequestFails(p) \/ StreamFails(p)
    PROVE  IInv'
<1>1. CallOK(call[p]) /\ TypeOK
  BY DEF IInv, CallsOK
<1>2. /\ call[p].pc \in {"request", "receive"} /\ Retry(p, call)
      /\ UNCHANGED <<s3, cache, partial, locks>> /\ sidecar' \in Version \cup {None}
  BY <1>1 DEF RequestFails, StreamFails, At, data, TypeOK
<1>3. p \in held /\ call[p].seen \in Version
  BY <1>1, <1>2 DEF IInv, LockKept, Holds, Downloading, CallOK, Ended
<1>4. PICK c : /\ CallOK(c) /\ c.where = "closed"
               /\ c.pc \in Ended \cup {"look"}
               /\ Holds(c) => p \in held
               /\ call' = [call EXCEPT ![p] = c]
  BY <1>1, <1>2, <1>3, RetryOK
<1> QED BY <1>2, <1>4, CallOnlyStep DEF Ended

\* The attempt fails or ends, and the partial file is removed.
LEMMA PartialRemoved ==
    ASSUME IInv, NEW p \in held, NEW c, CallOK(c), c.where = "closed",
           c.pc \in Ended \cup {"look", "label"} \/ (c.pc = "request" /\ c.hash = <<>>),
           call' = [Moved("partial", "unlinked") EXCEPT ![p] = c],
           partial' = None, UNCHANGED <<s3, locks, cache, sidecar>>
    PROVE  IInv'
<1> DEFINE m == Moved("partial", "unlinked")
<1>1. /\ m \in [Process -> Call]
      /\ \A q \in Process :
            /\ CallOK(m[q]) /\ (Holds(m[q]) <=> Holds(call[q]))
            /\ m[q].where # "partial"
            /\ m[q].where = "cache" => call[q].where = "cache"
  BY MovedOK DEF IInv
<1>2. \A q \in Process : m[q].where = "cache" => cache' \in Seq(Block)
  BY <1>1 DEF IInv, FilesOpen
<1>3. cache' \in File /\ partial' \in File /\ UNCHANGED <<s3, locks, sidecar>>
  BY DEF IInv, TypeOK, File
<1>4. HashOf(c, partial')
  BY DEF HashOf, Ended
<1>5. /\ \A q \in Process : m[q].where = "partial" => partial' \in Seq(Block)
      /\ c.where = "partial" => partial' \in Seq(Block)
      /\ c.where = "cache" => cache' \in Seq(Block)
  BY <1>1
<1> HIDE DEF m
<1>6. call' = [m EXCEPT ![p] = c]
  BY DEF m
<1> QED BY <1>1, <1>2, <1>3, <1>4, <1>5, <1>6, DownloadStep

\* A digest that is wrong, a download for a file that is cached already.
LEMMA DropStep ==
    ASSUME IInv, NEW p \in Process, Verify(p) \/ KeepCached(p)
    PROVE  IInv'
<1>1. call[p] \in Call /\ CallOK(call[p]) /\ TypeOK /\ CallsOK
  BY DEF IInv, CallsOK, TypeOK
<1>2. /\ call[p].pc \in {"verify", "place"}
      /\ UNCHANGED <<s3, cache, sidecar, locks>>
  BY DEF Verify, KeepCached, At
<1>3. p \in held /\ call[p].seen \in Version /\ call[p].where = "closed"
  BY <1>1, <1>2 DEF IInv, LockKept, Holds, Downloading, CallOK, Ended
<1> DEFINE m == Moved("partial", "unlinked")
<1>4. m \in [Process -> Call] /\ m[p] = call[p] /\ CallOK(m[p])
  BY <1>1, <1>3, MovedOK
<1>5. CASE Verify(p) /\ Verified(p)
  <2> DEFINE c == MovedTo(p, "place")
  <2>1. call' = [call EXCEPT ![p] = c] /\ partial' = partial /\ call[p].pc = "verify"
    BY <1>1, <1>5 DEF Verify, Goto, MovedTo, TypeOK, At
  <2>2. /\ c \in Call /\ c.pc = "place" /\ c.where = "closed" /\ c.at = call[p].at
        /\ c.hash = call[p].hash /\ c.seen = call[p].seen
    BY <1>1, <1>3 DEF MovedTo, Call, Downloading
  <2>3. CallOK(c)
    BY <1>3, <2>2 DEF CallOK, Ended
  <2>4. ~overlap => HashOf(c, partial')
    <3>1. ~overlap => call[p].hash = partial
      BY <2>1, <1>3 DEF IInv, PartialIsHashed, HashOf
    <3>2. HasSha => c.hash = Content(c.seen)
      BY <1>5, <2>2 DEF Verified, Seen
    <3> QED BY <2>1, <2>2, <3>1, <3>2 DEF HashOf
  <2>5. /\ \A q \in Process : call[q].where = "partial" => partial' \in Seq(Block)
        /\ \A q \in Process : call[q].where = "cache" => cache' \in Seq(Block)
        /\ cache' \in File /\ partial' \in File /\ call \in [Process -> Call]
        /\ \A q \in Process : CallOK(call[q])
    BY <1>2, <2>1 DEF IInv, FilesOpen, TypeOK, CallsOK
  <2>6. c.where # "partial" /\ c.where # "cache"
    BY <2>2
  <2> HIDE DEF c
  <2> QED BY <1>2, <1>3, <2>1, <2>3, <2>4, <2>5, <2>6, DownloadStep
<1>6. CASE Verify(p) /\ ~Verified(p)
  <2>1. Retry(p, m) /\ partial' = None
    BY <1>6 DEF Verify
  <2>2. m[p].seen \in Version /\ m[p].attempt = call[p].attempt
    BY <1>3, <1>4
  <2> HIDE DEF m
  <2>3. PICK c : /\ CallOK(c) /\ c.where = "closed"
                 /\ c.pc \in Ended \cup {"look"}
                 /\ call' = [m EXCEPT ![p] = c]
    BY <1>3, <1>4, <2>1, <2>2, RetryOK
  <2> QED BY <1>2, <1>3, <2>1, <2>3, PartialRemoved DEF m
<1>7. CASE KeepCached(p)
  <2> DEFINE c == MovedTo(p, "label")
  <2>1. call' = [m EXCEPT ![p] = c] /\ partial' = None
    BY <1>4, <1>7 DEF KeepCached, MovedTo
  <2>2. /\ c \in Call /\ c.pc = "label" /\ c.where = "closed" /\ c.seen = call[p].seen
    BY <1>1, <1>3 DEF MovedTo, Call, Downloading
  <2>3. CallOK(c)
    BY <1>3, <2>2 DEF CallOK, Ended
  <2> HIDE DEF c
  <2> QED BY <1>2, <1>3, <2>1, <2>2, <2>3, PartialRemoved
<1> QED BY <1>5, <1>6, <1>7

\* The partial file becomes the cached one (store.rs:717).
LEMMA RenameStep ==
    ASSUME IInv, NEW p \in Process, Rename(p)
    PROVE  IInv'
<1>1. call[p] \in Call /\ CallOK(call[p]) /\ TypeOK /\ CallsOK
  BY DEF IInv, CallsOK, TypeOK
<1>2. /\ call[p].pc = "place" /\ cache = None
      /\ cache' = partial /\ partial' = None
      /\ UNCHANGED <<s3, sidecar, locks>>
  BY DEF Rename, At
<1>3. p \in held /\ call[p].seen \in Version /\ call[p].where = "closed"
  BY <1>1, <1>2 DEF IInv, LockKept, Holds, Downloading, CallOK, Ended
<1>4. cache' \in File /\ partial' \in File
  BY <1>1, <1>2 DEF TypeOK, File
<1>5. CASE partial = None
  <2>1. PICK c : /\ CallOK(c) /\ c.where = "closed"
                 /\ c.pc \in Ended \cup {"look"}
                 /\ call' = [call EXCEPT ![p] = c]
    BY <1>1, <1>3, <1>5, RetryOK DEF Rename
  <2>2. /\ \A q \in Process : call[q].where = "partial" => partial' \in Seq(Block)
        /\ \A q \in Process : call[q].where = "cache" => cache' \in Seq(Block)
        /\ call \in [Process -> Call] /\ \A q \in Process : CallOK(call[q])
    BY <1>2, <1>5 DEF IInv, FilesOpen, TypeOK, CallsOK
  <2>3. HashOf(c, partial') /\ c.where # "partial" /\ c.where # "cache"
    BY <2>1 DEF HashOf, Ended
  <2> QED BY <1>2, <1>3, <1>4, <2>1, <2>2, <2>3, DownloadStep
<1>6. CASE partial # None
  <2> DEFINE m == Moved("partial", "cache")
             c == MovedTo(p, "label")
  <2>1. /\ m \in [Process -> Call] /\ m[p] = call[p]
        /\ \A q \in Process :
              /\ CallOK(m[q]) /\ (Holds(m[q]) <=> Holds(call[q]))
              /\ m[q].where # "partial"
    BY <1>1, <1>3, MovedOK
  <2>2. cache' \in Seq(Block)
    BY <1>1, <1>2, <1>6 DEF TypeOK, File
  <2>3. call' = [m EXCEPT ![p] = c]
    BY <1>6, <2>1 DEF Rename, MovedTo
  <2>4. /\ c \in Call /\ c.pc = "label" /\ c.where = "closed" /\ c.seen = call[p].seen
    BY <1>1, <1>3 DEF MovedTo, Call, Downloading
  <2>5. CallOK(c)
    BY <1>3, <2>4 DEF CallOK, Ended
  <2>6. HashOf(c, partial')
    BY <2>4 DEF HashOf
  <2>7. /\ \A q \in Process : m[q].where = "partial" => partial' \in Seq(Block)
        /\ c.where # "partial" /\ c.where # "cache"
    BY <2>1, <2>4
  <2> HIDE DEF m, c
  <2> QED BY <1>2, <1>3, <1>4, <2>1, <2>2, <2>3, <2>5, <2>6, <2>7, DownloadStep
<1> QED BY <1>5, <1>6

\* A partial file is hashed, or is too large and removed (store.rs:487).
LEMMA LookStep ==
    ASSUME IInv, NEW p \in Process, Look(p)
    PROVE  IInv'
<1>1. call[p] \in Call /\ CallOK(call[p]) /\ TypeOK /\ CallsOK
  BY DEF IInv, CallsOK, TypeOK
<1>2. call[p].pc = "look" /\ UNCHANGED <<s3, cache, sidecar, locks>>
  BY DEF Look, At
<1>3. /\ p \in held /\ call[p].seen \in Version /\ call[p].where = "closed"
      /\ call[p].hash = <<>>
  BY <1>1, <1>2 DEF IInv, LockKept, Holds, Downloading, CallOK, Ended
<1>4. CASE partial # None /\ Len(partial) > Size[Seen(p)]
  <2> DEFINE m == Moved("partial", "unlinked")
             c == MovedTo(p, "request")
  <2>1. m \in [Process -> Call] /\ m[p] = call[p]
    BY <1>1, <1>3, MovedOK
  <2>2. call' = [m EXCEPT ![p] = c] /\ partial' = None
    BY <1>4, <2>1 DEF Look, MovedTo
  <2>3. /\ c \in Call /\ c.pc = "request" /\ c.where = "closed" /\ c.seen = call[p].seen
        /\ c.hash = <<>>
    BY <1>1, <1>3 DEF MovedTo, Call, Downloading
  <2>4. CallOK(c)
    BY <1>3, <2>3 DEF CallOK, Ended
  <2> HIDE DEF c
  <2> QED BY <1>2, <1>3, <2>2, <2>3, <2>4, PartialRemoved
<1>5. CASE ~(partial # None /\ Len(partial) > Size[Seen(p)])
  <2> DEFINE h == IF partial = None THEN <<>> ELSE partial
             c == [call[p] EXCEPT !.pc = "request", !.hash = h]
  <2>1. h \in Seq(Block)
    BY <1>1 DEF TypeOK, File
  <2>2. call' = [call EXCEPT ![p] = c] /\ partial' = partial
    BY <1>1, <1>5 DEF Look, TypeOK
  <2>3. HashOf(c, partial')
    BY <1>1, <2>2 DEF Call, HashOf
  <2> HIDE DEF h
  <2>4. /\ c \in Call /\ c.pc = "request" /\ c.where = "closed" /\ c.seen = call[p].seen
    BY <1>1, <1>3, <2>1 DEF Call, Downloading
  <2>5. CallOK(c)
    BY <1>3, <2>4 DEF CallOK, Ended
  <2>6. /\ \A q \in Process : call[q].where = "partial" => partial' \in Seq(Block)
        /\ \A q \in Process : call[q].where = "cache" => cache' \in Seq(Block)
        /\ cache' \in File /\ partial' \in File /\ call \in [Process -> Call]
        /\ \A q \in Process : CallOK(call[q])
        /\ c.where # "partial" /\ c.where # "cache"
    BY <1>2, <2>2, <2>4 DEF IInv, FilesOpen, TypeOK, CallsOK
  <2> HIDE DEF c
  <2> QED BY <1>2, <1>3, <2>2, <2>3, <2>5, <2>6, DownloadStep
<1> QED BY <1>4, <1>5

\* A request that is skipped, or whose stream has ended: what is in the
\* partial file goes to be verified (store.rs:683).
LEMMA ToVerifyStep ==
    ASSUME IInv, NEW p \in Process, SkipRequest(p) \/ EndOfStream(p)
    PROVE  IInv'
<1>1. call[p] \in Call /\ CallOK(call[p]) /\ TypeOK /\ CallsOK
  BY DEF IInv, CallsOK, TypeOK
<1>2. /\ call[p].pc \in {"request", "receive"}
      /\ UNCHANGED <<s3, cache, partial, sidecar, locks>>
  BY DEF SkipRequest, EndOfStream, At, data
<1>3. p \in held /\ call[p].seen \in Version
  BY <1>1, <1>2 DEF IInv, LockKept, Holds, Downloading, CallOK, Ended
<1>4. \E c : /\ c \in Call /\ c.pc = "verify" /\ c.where = "closed" /\ c.seen = call[p].seen
             /\ c.hash = call[p].hash
             /\ call' = [call EXCEPT ![p] = c]
  <2>1. CASE SkipRequest(p)
    <3> DEFINE c == MovedTo(p, "verify")
    <3>1. call[p].where = "closed"
      BY <1>1, <2>1 DEF SkipRequest, At, CallOK
    <3>2. /\ c \in Call /\ c.pc = "verify" /\ c.where = "closed" /\ c.seen = call[p].seen
          /\ c.hash = call[p].hash
      BY <1>1, <3>1 DEF MovedTo, Call, Downloading
    <3>3. call' = [call EXCEPT ![p] = c]
      BY <1>1, <2>1 DEF SkipRequest, Goto, MovedTo, TypeOK
    <3> QED BY <3>2, <3>3
  <2>2. CASE EndOfStream(p)
    <3> DEFINE c == [call[p] EXCEPT !.pc = "verify", !.stream = None,
                                    !.append = FALSE, !.where = "closed"]
    <3>1. /\ c \in Call /\ c.pc = "verify" /\ c.where = "closed" /\ c.seen = call[p].seen
          /\ c.hash = call[p].hash
      BY <1>1 DEF Call, Downloading
    <3>2. call' = [call EXCEPT ![p] = c]
      BY <1>1, <2>2 DEF EndOfStream, TypeOK
    <3> QED BY <3>1, <3>2
  <2> QED BY <2>1, <2>2
<1>5. PICK c : /\ c \in Call /\ c.pc = "verify" /\ c.where = "closed" /\ c.seen = call[p].seen
               /\ c.hash = call[p].hash
               /\ call' = [call EXCEPT ![p] = c]
  BY <1>4
<1>6. CallOK(c)
  BY <1>3, <1>5 DEF CallOK, Ended
<1>7. ~overlap => HashOf(c, partial')
  <2> SUFFICES ASSUME ~overlap PROVE c.hash = partial
    BY <1>2, <1>5 DEF HashOf
  <2>1. HashOf(call[p], partial)
    BY DEF IInv, PartialIsHashed
  <2>2. CASE EndOfStream(p)
    BY <1>5, <2>1, <2>2 DEF EndOfStream, At, HashOf
  <2>3. CASE SkipRequest(p)
    <3>1. Len(call[p].hash) >= Size[Seen(p)] /\ Size[Seen(p)] \in Nat \ {0}
      BY <1>3, <2>3, ConstantsOK DEF SkipRequest, Complete, Seen
    <3>2. call[p].hash # <<>>
      BY <3>1
    <3> QED BY <1>5, <2>1, <2>3, <3>2 DEF SkipRequest, At, HashOf
  <2> QED BY <2>2, <2>3
<1>8. /\ \A q \in Process : call[q].where = "partial" => partial' \in Seq(Block)
      /\ \A q \in Process : call[q].where = "cache" => cache' \in Seq(Block)
      /\ cache' \in File /\ partial' \in File /\ call \in [Process -> Call]
      /\ \A q \in Process : CallOK(call[q])
      /\ c.where # "partial" /\ c.where # "cache"
  BY <1>2, <1>5 DEF IInv, FilesOpen, TypeOK, CallsOK
<1> QED BY <1>2, <1>3, <1>5, <1>6, <1>7, <1>8, DownloadStep

\* The object is asked for from where the partial file ends (store.rs:535).
LEMMA RequestStep ==
    ASSUME IInv, NEW p \in Process, Request(p)
    PROVE  IInv'
<1> DEFINE a == Len(call[p].hash) > 0
           c == [call[p] EXCEPT !.pc = "receive", !.stream = remote,
                                !.append = a, !.where = "partial"]
<1>1. call[p] \in Call /\ CallOK(call[p]) /\ TypeOK /\ CallsOK
  BY DEF IInv, CallsOK, TypeOK
<1>2. /\ call[p].pc = "request" /\ UNCHANGED <<s3, cache, sidecar, locks>>
      /\ partial' = IF Len(call[p].hash) = 0 \/ partial = None THEN <<>> ELSE partial
      /\ call' = [call EXCEPT ![p] = c]
  BY <1>1 DEF Request, At, TypeOK
<1>3. p \in held /\ call[p].seen \in Version
  BY <1>1, <1>2 DEF IInv, LockKept, Holds, Downloading, CallOK, Ended
<1>4. remote \in Version /\ partial' \in Seq(Block)
  BY <1>1, <1>2 DEF TypeOK, File
<1>5. /\ c \in Call /\ c.pc = "receive" /\ c.where = "partial" /\ c.seen = call[p].seen
      /\ c.hash = call[p].hash /\ c.stream = remote
  <2>1. a \in BOOLEAN
    OBVIOUS
  <2> HIDE DEF a
  <2> QED BY <1>1, <1>4, <2>1 DEF Call, Downloading
<1>6. CallOK(c)
  BY <1>3, <1>4, <1>5 DEF CallOK, Ended
<1>7. ~overlap => HashOf(c, partial')
  <2> SUFFICES ASSUME ~overlap PROVE c.hash = partial'
    BY <1>5 DEF HashOf
  <2>1. IF partial = None THEN call[p].hash = <<>> ELSE call[p].hash = partial
    BY <1>2 DEF IInv, PartialIsHashed, HashOf
  <2>2. call[p].hash \in Seq(Block)
    BY <1>1 DEF Call
  <2> QED BY <1>2, <1>5, <2>1, <2>2
<1>8. /\ \A q \in Process : call[q].where = "cache" => cache' \in Seq(Block)
      /\ cache' \in File /\ partial' \in File /\ call \in [Process -> Call]
      /\ \A q \in Process : CallOK(call[q])
      /\ c.where # "cache"
  BY <1>2, <1>4, <1>5 DEF IInv, FilesOpen, TypeOK, CallsOK, File
<1> HIDE DEF c
<1> QED BY <1>2, <1>3, <1>4, <1>5, <1>6, <1>7, <1>8, DownloadStep

\* A server without ranges: the partial file is removed, and made anew if there
\* is a body to put into it (store.rs:568).
LEMMA NoRangeStep ==
    ASSUME IInv, NEW p \in Process, RangeNotSupported(p)
    PROVE  IInv'
<1> DEFINE m == Moved("partial", "unlinked")
<1>1. call[p] \in Call /\ CallOK(call[p]) /\ TypeOK /\ CallsOK
  BY DEF IInv, CallsOK, TypeOK
<1>2. call[p].pc = "request" /\ UNCHANGED <<s3, cache, sidecar, locks>>
  BY DEF RangeNotSupported, At
<1>3. p \in held /\ call[p].seen \in Version /\ call[p].where = "closed"
  BY <1>1, <1>2 DEF IInv, LockKept, Holds, Downloading, CallOK, Ended
<1>4. /\ m \in [Process -> Call] /\ m[p] = call[p]
      /\ \A q \in Process :
            /\ CallOK(m[q]) /\ (Holds(m[q]) <=> Holds(call[q]))
            /\ m[q].where # "partial"
            /\ m[q].where = "cache" => call[q].where = "cache"
  BY <1>1, <1>3, MovedOK
<1>5. CASE /\ partial' = <<>>
           /\ call' = [m EXCEPT ![p].pc = "receive", ![p].stream = remote,
                                ![p].hash = <<>>, ![p].where = "partial"]
  <2> DEFINE c == [call[p] EXCEPT !.pc = "receive", !.stream = remote,
                                  !.hash = <<>>, !.where = "partial"]
  <2>1. remote \in Version /\ partial' = <<>> /\ partial' \in Seq(Block)
    BY <1>1, <1>5 DEF TypeOK
  <2>2. call' = [m EXCEPT ![p] = c]
    BY <1>4, <1>5
  <2>3. /\ c \in Call /\ c.pc = "receive" /\ c.where = "partial" /\ c.seen = call[p].seen
        /\ c.hash = <<>> /\ c.stream = remote
    BY <1>1, <2>1 DEF Call, Downloading
  <2>4. CallOK(c)
    BY <1>3, <2>1, <2>3 DEF CallOK, Ended
  <2>5. HashOf(c, partial')
    BY <2>1, <2>3 DEF HashOf
  <2>6. \A q \in Process : m[q].where = "cache" => cache' \in Seq(Block)
    BY <1>2, <1>4 DEF IInv, FilesOpen
  <2>7. cache' \in File /\ partial' \in File /\ c.where # "cache"
    BY <1>1, <1>2, <2>1, <2>3 DEF TypeOK, File
  <2> HIDE DEF m, c
  <2> QED BY <1>2, <1>3, <1>4, <2>1, <2>2, <2>4, <2>5, <2>6, <2>7, DownloadStep
<1>6. CASE Retry(p, m) /\ partial' = None
  <2>1. Retry(p, m) /\ partial' = None
    BY <1>6
  <2>2. CallOK(m[p]) /\ m[p].seen \in Version /\ m[p].attempt = call[p].attempt
    BY <1>3, <1>4
  <2> HIDE DEF m
  <2>3. PICK c : /\ CallOK(c) /\ c.where = "closed"
                 /\ c.pc \in Ended \cup {"look"}
                 /\ call' = [m EXCEPT ![p] = c]
    BY <1>3, <2>1, <2>2, RetryOK
  <2> QED BY <1>2, <1>3, <2>1, <2>3, PartialRemoved DEF m
<1> QED BY <1>5, <1>6 DEF RangeNotSupported

\* A block goes to the file that is open, at the place the hash has reached.
LEMMA WrittenOK ==
    ASSUME NEW file \in Seq(Block), NEW b \in Block, NEW n \in Nat, NEW append \in BOOLEAN
    PROVE  /\ Written(file, b, n, append) \in Seq(Block)
           /\ n = Len(file) => Written(file, b, n, append) = Append(file, b)
<1>1. CASE append \/ n = Len(file)
  BY <1>1 DEF Written
<1>2. CASE ~(append \/ n = Len(file))
  <2> DEFINE m == IF n + 1 > Len(file) THEN n + 1 ELSE Len(file)
             e(i) == IF i = n + 1 THEN b ELSE IF i <= Len(file) THEN file[i] ELSE None
  <2>1. m \in Nat
    OBVIOUS
  <2>2. \A i \in 1 .. m : e(i) \in Block
    BY DEF Block
  <2>3. Written(file, b, n, append) = [i \in 1 .. m |-> e(i)]
    BY <1>2 DEF Written
  <2> HIDE DEF m, e
  <2>4. [i \in 1 .. m |-> e(i)] \in Seq(Block)
    BY <2>1, <2>2
  <2> QED BY <1>2, <2>3, <2>4
<1> QED BY <1>1, <1>2

LEMMA ReceiveStep ==
    ASSUME IInv, NEW p \in Process, Receive(p)
    PROVE  IInv'
<1> DEFINE n == Len(call[p].hash)
           b == <<call[p].stream, n + 1>>
           h == Append(call[p].hash, b)
           c == [call[p] EXCEPT !.hash = h]
           write(name, file) ==
               IF call[p].where = name THEN Written(file, b, n, call[p].append) ELSE file
<1>1. call[p] \in Call /\ CallOK(call[p]) /\ TypeOK /\ CallsOK
  BY DEF IInv, CallsOK, TypeOK
<1>2. /\ call[p].pc = "receive" /\ ~Received(p) /\ UNCHANGED <<s3, sidecar, locks>>
      /\ partial' = write("partial", partial) /\ cache' = write("cache", cache)
      /\ call' = [call EXCEPT ![p] = c]
  BY <1>1 DEF Receive, At, TypeOK
<1>3. p \in held /\ call[p].seen \in Version /\ call[p].stream \in Version
  BY <1>1, <1>2 DEF IInv, LockKept, Holds, Downloading, CallOK, Ended
<1>4. n \in Nat /\ call[p].append \in BOOLEAN
  BY <1>1 DEF Call
<1>5. b \in Block
  <2>1. Size[call[p].stream] \in Nat /\ Size[call[p].seen] \in Nat
    BY <1>3, ConstantsOK
  <2>2. LastBlock(p) <= Size[call[p].stream] /\ LastBlock(p) \in Nat
    BY <2>1 DEF LastBlock, Seen
  <2>3. n + 1 \in 1 .. Size[call[p].stream]
    BY <1>2, <1>4, <2>1, <2>2 DEF Received
  <2> QED BY <1>3, <2>3 DEF Block
<1> HIDE DEF b
<1>6. /\ c \in Call /\ c.pc = "receive" /\ c.where = call[p].where /\ c.seen = call[p].seen
      /\ c.hash = h /\ c.stream = call[p].stream
  <2>1. h \in Seq(Block)
    BY <1>1, <1>5 DEF Call
  <2> HIDE DEF h
  <2> QED BY <1>1, <1>2, <2>1 DEF Call
<1>7. CallOK(c)
  BY <1>3, <1>6 DEF CallOK, Ended
<1>8. /\ call[p].where = "partial" =>
            partial \in Seq(Block) /\ partial' = Written(partial, b, n, call[p].append)
                /\ partial' \in Seq(Block)
      /\ call[p].where # "partial" => partial' = partial
  BY <1>2, <1>4, <1>5, WrittenOK DEF IInv, FilesOpen
<1>9. /\ call[p].where = "cache" => cache' \in Seq(Block)
      /\ call[p].where # "cache" => cache' = cache
  BY <1>2, <1>4, <1>5, WrittenOK DEF IInv, FilesOpen
<1>10. ~overlap => HashOf(c, partial')
  <2> SUFFICES ASSUME ~overlap PROVE c.where = "partial" /\ c.hash = partial'
    BY <1>6 DEF HashOf
  <2>1. call[p].where = "partial" /\ call[p].hash = partial
    BY <1>2 DEF IInv, PartialIsHashed, HashOf
  <2> QED BY <1>4, <1>5, <1>6, <1>8, <2>1, WrittenOK
<1>11. /\ \A q \in Process : call[q].where = "partial" => partial' \in Seq(Block)
       /\ \A q \in Process : call[q].where = "cache" => cache' \in Seq(Block)
       /\ cache' \in File /\ partial' \in File
  BY <1>1, <1>8, <1>9 DEF IInv, FilesOpen, TypeOK, File
<1>12. /\ call \in [Process -> Call]
       /\ \A q \in Process : CallOK(call[q])
       /\ c.where = "partial" => partial' \in Seq(Block)
       /\ c.where = "cache" => cache' \in Seq(Block)
  BY <1>1, <1>6, <1>8, <1>9 DEF TypeOK, CallsOK
<1> HIDE DEF c, n
<1> QED BY <1>2, <1>3, <1>7, <1>10, <1>11, <1>12, DownloadStep

---------------------------------------------------------------------------
LEMMA NextIInv == IInv /\ [Next]_vars => IInv'
<1> SUFFICES ASSUME IInv, [Next]_vars PROVE IInv'
  OBVIOUS
<1>1. ASSUME NEW p \in Process, HeadRequest(p) \/ DownloadObject(p) \/ Crash(p)
      PROVE  IInv'
  <2>1. CASE CacheValid(p)
    BY <2>1, CacheValidStep
  <2>2. CASE RemoveStaleCache(p)
    BY <2>2, RemoveStaleStep
  <2>3. CASE TryAcquire(p) \/ DropLock(p)
    BY <2>3, LockStep
  <2>4. CASE DownloadOnce(p)
    BY <2>4, LookStep, ToVerifyStep, RequestStep, NoRangeStep, FailsStep, ReceiveStep,
       DropStep, RenameStep, EndsStep DEF DownloadOnce
  <2>5. CASE HeadRequest(p) \/ Serve(p) \/ Crash(p)
    BY <2>5, EndsStep
  <2> QED BY <1>1, <2>1, <2>2, <2>3, <2>4, <2>5 DEF DownloadObject
<1>2. CASE Replace
  <2>1. /\ remote' \in Version /\ replaced' = replaced + 1 /\ metadata' = metadata
        /\ UNCHANGED <<cache, partial, sidecar, lockFile, lockFd, held, overlap, call>>
    BY <1>2 DEF Replace, data, locks
  <2>2. TypeOK'
    BY <2>1 DEF IInv, TypeOK, Inode
  <2>3. CallsOK' /\ LockKept' /\ FilesOpen' /\ Alone'
    BY <2>1 DEF IInv, CallsOK, LockKept, FilesOpen, Alone
  <2>4. PartialIsHashed'
    BY <2>1 DEF IInv, PartialIsHashed, HashOf, HasSha
  <2> QED BY <2>2, <2>3, <2>4 DEF IInv
<1>3. CASE UNCHANGED vars
  <2>1. UNCHANGED <<remote, metadata, replaced, cache, partial, sidecar,
                    lockFile, lockFd, held, overlap, call>>
    BY <1>3 DEF vars, s3, data, locks
  <2>2. TypeOK'
    BY <2>1 DEF IInv, TypeOK, Inode
  <2>3. CallsOK' /\ LockKept' /\ FilesOpen' /\ Alone'
    BY <2>1 DEF IInv, CallsOK, LockKept, FilesOpen, Alone
  <2>4. PartialIsHashed'
    BY <2>1 DEF IInv, PartialIsHashed, HashOf, HasSha
  <2> QED BY <2>2, <2>3, <2>4 DEF IInv
<1> QED BY <1>1, <1>2, <1>3 DEF Next

\* Whoever downloads holds the lock, and alone with it has hashed what is in the
\* partial file, whatever was resumed, renamed, removed or killed
\* (store.rs:441, store.rs:487).
THEOREM Invariance == Spec => []IInv
<1> QED BY InitIInv, NextIInv, PTL DEF Spec

\* The files, the locks and the calls keep their types, and a call waits and
\* tries less often than its bounds (store.rs:378).
THEOREM TypeCorrectness == Spec => []TypeOK
<1>1. IInv => TypeOK
  BY DEF IInv
<1> QED BY <1>1, Invariance, PTL

\* A file moved into the cache has the checksum that HEAD gave, unless a second
\* process held the lock (store.rs:698).
THEOREM PlacementIsVerified == Spec => PlacedIsVerified
<1> DEFINE A == \A p \in Process :
                   (Rename(p) /\ cache' # None /\ HasSha /\ ~overlap) => cache' = Content(Seen(p))
<1>1. ASSUME IInv, NEW p \in Process, Rename(p), cache' # None, HasSha, ~overlap
      PROVE  cache' = Content(Seen(p))
  <2>1. HashOf(call[p], partial)
    BY <1>1 DEF IInv, PartialIsHashed
  <2> QED BY <1>1, <2>1 DEF Rename, At, HashOf, Seen
<1>2. IInv /\ [Next]_vars => [A]_vars
  BY <1>1
<1>3. Spec => [][A]_vars
  BY <1>2, Invariance, PTL DEF Spec
<1> QED BY <1>3 DEF PlacedIsVerified

---------------------------------------------------------------------------
\* The beginning of version v.
IsStart(file, v) ==
    Len(file) <= Size[v] /\ \A i \in 1 .. Len(file) : file[i] = <<v, i>>

\* A call is of version v, and verifies and places only what is complete.
CallIsOf(c, v) ==
    /\ c.pc \notin Ended => c.seen = v
    /\ c.pc = "receive" => c.stream = v
    /\ c.pc \in {"verify", "place"} => Len(c.hash) >= Size[v]

\* While the object is what it was and nobody shares the lock, everything is of
\* one version.
Undisturbed == replaced = 0 /\ ~overlap
FilesAreOf(v) ==
    /\ partial # None => IsStart(partial, v)
    /\ cache \in {None, Content(v)}
CallsAreOf(v) == \A p \in Process : CallIsOf(call[p], v)
OneVersion == Undisturbed => FilesAreOf(remote) /\ CallsAreOf(remote)

\* Descriptors that follow a file change nothing else of a call.
LEMMA MovedSame ==
    ASSUME TypeOK, NEW from, NEW to, NEW q \in Process
    PROVE  LET m == Moved(from, to)[q] IN
           /\ m.pc = call[q].pc /\ m.seen = call[q].seen /\ m.stream = call[q].stream
           /\ m.hash = call[q].hash /\ m.attempt = call[q].attempt
<1>1. call[q] \in Call
  BY DEF TypeOK
<1> QED BY <1>1 DEF Moved, Call

LEMMA SameIsOf ==
    ASSUME NEW v, NEW c, NEW d, CallIsOf(c, v), d.pc = c.pc, d.seen = c.seen,
           d.stream = c.stream, d.hash = c.hash
    PROVE  CallIsOf(d, v)
BY DEF CallIsOf

\* The calls after a step of p, which leaves c.
LEMMA AllAreOf ==
    ASSUME TypeOK, NEW p \in Process, NEW v, CallsAreOf(v), NEW c, CallIsOf(c, v),
           \/ call' = [call EXCEPT ![p] = c]
           \/ \E from, to : call' = [Moved(from, to) EXCEPT ![p] = c]
    PROVE  \A q \in Process : CallIsOf(call'[q], v)
<1> SUFFICES ASSUME NEW q \in Process PROVE CallIsOf(call'[q], v)
  OBVIOUS
<1>1. CASE q = p
  <2>1. \A from, to : p \in DOMAIN Moved(from, to)
    BY DEF Moved
  <2>2. call'[q] = c
    BY <1>1, <2>1 DEF TypeOK
  <2> QED BY <2>2
<1>2. CASE q # p
  <2>1. CallIsOf(call[q], v)
    BY DEF CallsAreOf
  <2>2. CASE call' = [call EXCEPT ![p] = c]
    BY <1>2, <2>1, <2>2 DEF TypeOK
  <2>3. CASE \E from, to : call' = [Moved(from, to) EXCEPT ![p] = c]
    <3>1. PICK from, to : call' = [Moved(from, to) EXCEPT ![p] = c]
      BY <2>3
    <3>2. call'[q] = Moved(from, to)[q]
      BY <1>2, <3>1 DEF Moved
    <3> QED BY <2>1, <3>2, MovedSame, SameIsOf
  <2> QED BY <2>2, <2>3
<1> QED BY <1>1, <1>2

\* A step of p that at most removes a file and leaves a call that has nothing
\* to verify.
LEMMA CalmStep ==
    ASSUME IInv, NEW p \in Process, Undisturbed, FilesAreOf(remote), CallsAreOf(remote),
           NEW c, c.pc \notin {"receive", "verify", "place"},
           c.pc \in Ended \/ c.seen = remote,
           \/ call' = [call EXCEPT ![p] = c]
           \/ \E from, to : call' = [Moved(from, to) EXCEPT ![p] = c],
           remote' = remote, cache' \in {cache, None}, partial' \in {partial, None}
    PROVE  FilesAreOf(remote)' /\ CallsAreOf(remote)'
<1>1. CallIsOf(c, remote) /\ TypeOK
  BY DEF CallIsOf, IInv
<1>2. \A q \in Process : CallIsOf(call'[q], remote)
  BY <1>1, AllAreOf
<1>3. FilesAreOf(remote)'
  BY DEF FilesAreOf
<1> QED BY <1>2, <1>3 DEF CallsAreOf

\* What Goto, Return and Retry leave is such a call.
LEMMA GotoCalm ==
    ASSUME TypeOK, NEW p \in Process, NEW v, CallIsOf(call[p], v), NEW pc, Goto(p, pc),
           pc \in Ended \/ call[p].pc \notin Ended
    PROVE  LET c == MovedTo(p, pc) IN
           /\ call' = [call EXCEPT ![p] = c] /\ c.pc = pc
           /\ c.pc \in Ended \/ c.seen = v
<1>1. call[p] \in Call
  BY DEF TypeOK
<1> QED BY <1>1 DEF TypeOK, Goto, MovedTo, Call, CallIsOf

LEMMA ReturnCalm ==
    ASSUME NEW p, NEW outcome \in {"ok", "err"}, NEW moved, ReturnWith(p, moved, outcome)
    PROVE  LET c == Returned(p, outcome) IN
           call' = [moved EXCEPT ![p] = c] /\ c.pc \in Ended
<1>1. call' = [moved EXCEPT ![p] = Returned(p, outcome)]
  BY DEF ReturnWith, Returned
<1> QED BY <1>1, ReturnedOK

LEMMA RetryCalm ==
    ASSUME NEW p \in Process, NEW moved, CallOK(moved[p]), NEW v,
           moved[p].seen = v, Retry(p, moved)
    PROVE  \E c : /\ call' = [moved EXCEPT ![p] = c]
                  /\ c.pc \in Ended \cup {"look"}
                  /\ c.pc \in Ended \/ c.seen = v
<1>1. CASE call[p].attempt + 1 < Attempts
  <2>1. call' = [moved EXCEPT ![p] = Again(moved[p])]
    BY <1>1 DEF Retry, Again
  <2>2. Again(moved[p]).pc = "look" /\ Again(moved[p]).seen = v
    BY DEF CallOK, Call, Again
  <2> QED BY <2>1, <2>2
<1>2. CASE ~(call[p].attempt + 1 < Attempts)
  <2>1. ReturnWith(p, moved, "err")
    BY <1>2 DEF Retry
  <2> QED BY <2>1, ReturnCalm
<1> QED BY <1>1, <1>2

\* p's call has nothing to verify after the step, and the others only moved.
CalmCall(p) ==
    \E c : /\ c.pc \notin {"receive", "verify", "place"}
           /\ c.pc \in Ended \/ c.seen = remote
           /\ \/ call' = [call EXCEPT ![p] = c]
              \/ \E from, to : call' = [Moved(from, to) EXCEPT ![p] = c]

LEMMA GotoIsCalm ==
    ASSUME TypeOK, NEW p \in Process, CallIsOf(call[p], remote), NEW pc, Goto(p, pc),
           pc \in Ended \/ call[p].pc \notin Ended,
           pc \notin {"receive", "verify", "place"}
    PROVE  CalmCall(p)
<1>1. /\ call' = [call EXCEPT ![p] = MovedTo(p, pc)] /\ MovedTo(p, pc).pc = pc
      /\ pc \in Ended \/ MovedTo(p, pc).seen = remote
  BY GotoCalm
<1> QED BY <1>1 DEF CalmCall

LEMMA ReturnIsCalm ==
    ASSUME NEW p, NEW outcome \in {"ok", "err"}, Return(p, outcome)
    PROVE  CalmCall(p)
<1>1. call' = [call EXCEPT ![p] = Returned(p, outcome)] /\ Returned(p, outcome).pc \in Ended
  BY ReturnCalm DEF Return
<1> QED BY <1>1 DEF CalmCall, Ended

\* Everything around the download: cache_valid, remove_stale_cache and the lock.
LEMMA AroundOneVersion ==
    ASSUME IInv, NEW p \in Process, Undisturbed, FilesAreOf(remote), CallsAreOf(remote),
           \/ HeadRequest(p) \/ Crash(p) \/ Serve(p) \/ Label(p)
           \/ CacheValid(p) \/ RemoveStaleCache(p) \/ TryAcquire(p) \/ DropLock(p)
    PROVE  FilesAreOf(remote)' /\ CallsAreOf(remote)'
<1>1. call[p] \in Call /\ TypeOK /\ CallIsOf(call[p], remote) /\ CallOK(call[p])
  BY DEF IInv, TypeOK, CallsAreOf, CallsOK
<1>2. remote' = remote /\ cache' \in {cache, None} /\ partial' \in {partial, None}
  BY DEF HeadRequest, Crash, Serve, Label, CacheValid, Stat, ReadSidecar, Digest,
         WriteSidecar, RemoveStaleCache, Exists, RemoveCache, RemoveSidecars, TryAcquire,
         OpenLock, Flock, FlockFails, DropLock, UnlinkLock, CloseLock, s3, data
<1>3. CalmCall(p)
  <2>1. CASE CacheValid(p)
    <3>1. call[p].pc \notin Ended
      BY <2>1 DEF CacheValid, Stat, ReadSidecar, Digest, WriteSidecar, At, Ended
    <3>2. /\ {"exists", "open lock", "look"} \cap {"receive", "verify", "place"} = {}
          /\ call[p].at \in {"first", "waiting", "locked"}
      BY <1>1 DEF Call
    <3>3. ASSUME AfterInvalid(p) PROVE CalmCall(p)
      BY <1>1, <3>1, <3>2, <3>3, GotoIsCalm DEF AfterInvalid
    <3>4. \/ AfterInvalid(p)
          \/ Goto(p, "read sidecar") \/ Goto(p, "digest") \/ Goto(p, "write sidecar")
          \/ Return(p, "ok") \/ Return(p, "err")
      BY <2>1 DEF CacheValid, Stat, ReadSidecar, Digest, WriteSidecar
    <3> QED BY <1>1, <3>1, <3>3, <3>4, GotoIsCalm, ReturnIsCalm
  <2>2. CASE RemoveStaleCache(p)
    <3>1. call[p].pc \notin Ended
      BY <2>2 DEF RemoveStaleCache, Exists, RemoveCache, RemoveSidecars, At, Ended
    <3>2. CASE Exists(p)
      BY <1>1, <3>1, <3>2, GotoIsCalm DEF Exists
    <3>3. CASE RemoveCache(p) /\ cache = None
      BY <3>3, ReturnIsCalm DEF RemoveCache
    <3>4. CASE RemoveCache(p) /\ cache # None
      <4> DEFINE c == MovedTo(p, "remove sidecars")
      <4>1. call[p].where = "closed"
        BY <1>1, <3>4 DEF RemoveCache, At, CallOK
      <4>2. Moved("cache", "unlinked")[p] = call[p]
        BY <4>1 DEF Moved
      <4>3. call' = [Moved("cache", "unlinked") EXCEPT ![p] = c]
        BY <3>4, <4>2 DEF RemoveCache, MovedTo
      <4>4. c.pc = "remove sidecars" /\ c.seen = remote
        BY <1>1, <3>1 DEF MovedTo, Call, CallIsOf
      <4> HIDE DEF c
      <4> QED BY <4>3, <4>4 DEF CalmCall
    <3>5. CASE RemoveSidecars(p)
      <4> DEFINE c == [call[p] EXCEPT !.pc = "stat", !.at = "waiting"]
      <4>1. call' = [call EXCEPT ![p] = c]
        BY <1>1, <3>5 DEF RemoveSidecars, TypeOK
      <4>2. c.pc = "stat" /\ c.seen = remote
        BY <1>1, <3>1 DEF Call, CallIsOf
      <4> HIDE DEF c
      <4> QED BY <4>1, <4>2 DEF CalmCall
    <3> QED BY <2>2, <3>2, <3>3, <3>4, <3>5 DEF RemoveStaleCache
  <2>3. CASE TryAcquire(p)
    <3>1. call[p].pc \notin Ended /\ call[p].seen = remote
      BY <1>1, <2>3 DEF TryAcquire, OpenLock, Flock, FlockFails, At, Ended, CallIsOf
    <3>2. CASE OpenLock(p)
      BY <1>1, <3>1, <3>2, GotoIsCalm DEF OpenLock
    <3>3. CASE Flock(p)
      <4> DEFINE c == [call[p] EXCEPT !.pc = "stat", !.at = "locked"]
      <4>1. call' = [call EXCEPT ![p] = c]
        BY <1>1, <3>3 DEF Flock, TypeOK
      <4>2. c.pc = "stat" /\ c.seen = remote
        BY <1>1, <3>1 DEF Call
      <4> HIDE DEF c
      <4> QED BY <4>1, <4>2 DEF CalmCall
    <3>4. CASE FlockFails(p) /\ call[p].waits + 1 < LockAttempts
      <4> DEFINE c == [call[p] EXCEPT !.pc = "stat", !.waits = @ + 1]
      <4>1. call' = [call EXCEPT ![p] = c]
        BY <1>1, <3>4 DEF FlockFails, TypeOK
      <4>2. c.pc = "stat" /\ c.seen = remote
        BY <1>1, <3>1 DEF Call
      <4> HIDE DEF c
      <4> QED BY <4>1, <4>2 DEF CalmCall
    <3>5. CASE FlockFails(p) /\ ~(call[p].waits + 1 < LockAttempts)
      BY <3>5, ReturnIsCalm DEF FlockFails
    <3> QED BY <2>3, <3>2, <3>3, <3>4, <3>5 DEF TryAcquire
  <2>4. CASE DropLock(p)
    <3>1. CASE UnlinkLock(p)
      BY <1>1, <3>1, GotoIsCalm DEF UnlinkLock, Ended
    <3>2. CASE CloseLock(p)
      <4> DEFINE c == [call[p] EXCEPT !.pc = IF call[p].outcome = "ok" THEN "serve" ELSE "idle",
                                      !.outcome = "none"]
      <4>1. call' = [call EXCEPT ![p] = c]
        BY <1>1, <3>2 DEF CloseLock, TypeOK
      <4>2. c.pc \in {"serve", "idle"}
        BY <1>1 DEF Call
      <4> HIDE DEF c
      <4> QED BY <4>1, <4>2 DEF CalmCall, Ended
    <3> QED BY <2>4, <3>1, <3>2 DEF DropLock
  <2>5. CASE Serve(p)
    BY <1>1, <2>5, GotoIsCalm DEF Serve, Ended
  <2>6. CASE Label(p)
    BY <2>6, ReturnIsCalm DEF Label
  <2>7. CASE HeadRequest(p)
    <3> DEFINE c == [Fresh EXCEPT !.pc = "stat", !.seen = remote]
    <3>1. call' = [call EXCEPT ![p] = c]
      BY <2>7 DEF HeadRequest
    <3>2. c.pc = "stat" /\ c.seen = remote
      BY DEF Fresh
    <3> HIDE DEF c
    <3> QED BY <3>1, <3>2 DEF CalmCall
  <2>8. CASE Crash(p)
    BY <2>8 DEF Crash, CalmCall, Fresh, Ended
  <2> QED BY <2>1, <2>2, <2>3, <2>4, <2>5, <2>6, <2>7, <2>8
<1>4. PICK c : /\ c.pc \notin {"receive", "verify", "place"}
               /\ c.pc \in Ended \/ c.seen = remote
               /\ \/ call' = [call EXCEPT ![p] = c]
                  \/ \E from, to : call' = [Moved(from, to) EXCEPT ![p] = c]
  BY <1>3 DEF CalmCall
<1> QED BY <1>2, <1>4, CalmStep

\* The start of a version that is as long as the version is its content.
LEMMA WholeStart ==
    ASSUME NEW v \in Version, NEW file \in Seq(Block), IsStart(file, v), Len(file) >= Size[v]
    PROVE  file = Content(v)
<1>1. Size[v] \in Nat /\ Len(file) = Size[v]
  BY ConstantsOK DEF IsStart
<1>2. file = [i \in 1 .. Len(file) |-> file[i]]
  OBVIOUS
<1>3. \A i \in 1 .. Size[v] : file[i] = <<v, i>>
  BY <1>1 DEF IsStart
<1> QED BY <1>1, <1>2, <1>3 DEF Content

LEMMA ExtendedStart ==
    ASSUME NEW v \in Version, NEW file \in Seq(Block), IsStart(file, v), Len(file) < Size[v],
           <<v, Len(file) + 1>> \in Block
    PROVE  IsStart(Append(file, <<v, Len(file) + 1>>), v)
<1>1. Size[v] \in Nat
  BY ConstantsOK
<1> QED BY <1>1 DEF IsStart

LEMMA EmptyStart == \A v \in Version : IsStart(<<>>, v)
BY ConstantsOK DEF IsStart

\* download_object_once resumes, receives, verifies and places one version.
LEMMA OnceOneVersion ==
    ASSUME IInv, NEW p \in Process, Undisturbed, FilesAreOf(remote), CallsAreOf(remote),
           DownloadOnce(p)
    PROVE  FilesAreOf(remote)' /\ CallsAreOf(remote)'
<1>1. /\ call[p] \in Call /\ TypeOK /\ CallsOK /\ CallIsOf(call[p], remote) /\ CallOK(call[p])
      /\ remote \in Version /\ Size[remote] \in Nat \ {0}
  BY ConstantsOK DEF IInv, TypeOK, CallsAreOf, CallsOK
<1>2. HashOf(call[p], partial)
  BY DEF IInv, PartialIsHashed, Undisturbed
<1>3. call[p].pc \in Downloading /\ remote' = remote
  BY DEF DownloadOnce, Look, SkipRequest, Request, RangeNotSupported, RequestFails, Receive,
         EndOfStream, StreamFails, Verify, KeepCached, Rename, Label, At, Downloading, s3
<1>4. call[p].seen = remote /\ Seen(p) = remote
  BY <1>1, <1>3 DEF CallIsOf, Downloading, Ended, Seen
<1>6. CASE Look(p)
  <2>1. cache' = cache /\ partial' \in {partial, None} /\ call[p].where = "closed"
    BY <1>1, <1>6 DEF Look, At, CallOK
  <2>2. CASE partial # None /\ Len(partial) > Size[Seen(p)]
    <3> DEFINE c == [Moved("partial", "unlinked")[p] EXCEPT !.pc = "request"]
    <3>1. Moved("partial", "unlinked")[p] = call[p]
      BY <2>1 DEF Moved
    <3>2. call' = [Moved("partial", "unlinked") EXCEPT ![p] = c]
      BY <1>6, <2>2 DEF Look
    <3>3. c.pc = "request" /\ c.seen = remote
      BY <1>1, <1>4, <3>1 DEF Call
    <3> HIDE DEF c
    <3> QED BY <1>3, <2>1, <3>2, <3>3, CalmStep
  <2>3. CASE ~(partial # None /\ Len(partial) > Size[Seen(p)])
    <3> DEFINE h == IF partial = None THEN <<>> ELSE partial
               c == [call[p] EXCEPT !.pc = "request", !.hash = h]
    <3>1. call' = [call EXCEPT ![p] = c]
      BY <1>1, <1>6, <2>3 DEF Look, TypeOK
    <3>2. c.pc = "request" /\ c.seen = remote
      BY <1>1, <1>4 DEF Call
    <3> HIDE DEF c
    <3> QED BY <1>3, <2>1, <3>1, <3>2, CalmStep
  <2> QED BY <2>2, <2>3
<1>7. ASSUME NEW c, CallIsOf(c, remote), call' = [call EXCEPT ![p] = c],
             UNCHANGED <<cache, partial>>
      PROVE  FilesAreOf(remote)' /\ CallsAreOf(remote)'
  <2>1. \A q \in Process : CallIsOf(call'[q], remote)
    BY <1>1, <1>7, AllAreOf
  <2> QED BY <1>3, <1>7, <2>1 DEF FilesAreOf, CallsAreOf
<1>8. CASE SkipRequest(p)
  <2> DEFINE c == MovedTo(p, "verify")
  <2>1. call' = [call EXCEPT ![p] = c] /\ UNCHANGED <<cache, partial>>
    BY <1>1, <1>8 DEF SkipRequest, Goto, MovedTo, TypeOK, data
  <2>2. CallIsOf(c, remote)
    BY <1>1, <1>4, <1>8 DEF SkipRequest, Complete, MovedTo, Call, CallIsOf
  <2> HIDE DEF c
  <2> QED BY <1>7, <2>1, <2>2
<1>9. CASE EndOfStream(p)
  <2> DEFINE c == [call[p] EXCEPT !.pc = "verify", !.stream = None,
                                  !.append = FALSE, !.where = "closed"]
  <2>1. call' = [call EXCEPT ![p] = c] /\ UNCHANGED <<cache, partial>>
    BY <1>1, <1>9 DEF EndOfStream, TypeOK, data
  <2>2. call[p].stream = remote
    BY <1>1, <1>9 DEF EndOfStream, At, CallIsOf
  <2>3. Len(call[p].hash) >= Size[remote]
    BY <1>1, <1>4, <1>9, <2>2 DEF EndOfStream, Received, LastBlock
  <2>4. CallIsOf(c, remote)
    BY <1>1, <1>4, <2>3 DEF Call, CallIsOf
  <2> HIDE DEF c
  <2> QED BY <1>7, <2>1, <2>4
<1>10. CASE Verify(p) /\ Verified(p)
  <2> DEFINE c == MovedTo(p, "place")
  <2>1. call' = [call EXCEPT ![p] = c] /\ UNCHANGED <<cache, partial>>
    BY <1>1, <1>10 DEF Verify, Goto, MovedTo, TypeOK
  <2>2. CallIsOf(c, remote)
    BY <1>1, <1>4, <1>10 DEF Verify, At, MovedTo, Call, CallIsOf
  <2> HIDE DEF c
  <2> QED BY <1>7, <2>1, <2>2
<1>11. ASSUME NEW moved, CallOK(moved[p]), moved[p].seen = remote, Retry(p, moved),
              moved = call \/ (\E from, to : moved = Moved(from, to)),
              cache' \in {cache, None}, partial' \in {partial, None}
       PROVE  FilesAreOf(remote)' /\ CallsAreOf(remote)'
  <2>1. PICK c : /\ call' = [moved EXCEPT ![p] = c]
                 /\ c.pc \in Ended \cup {"look"}
                 /\ c.pc \in Ended \/ c.seen = remote
    BY <1>11, RetryCalm
  <2>2. c.pc \notin {"receive", "verify", "place"}
    BY <2>1 DEF Ended
  <2>3. \/ call' = [call EXCEPT ![p] = c]
        \/ \E from, to : call' = [Moved(from, to) EXCEPT ![p] = c]
    BY <1>11, <2>1
  <2> QED BY <1>3, <1>11, <2>1, <2>2, <2>3, CalmStep
<1>12. CASE RequestFails(p) \/ StreamFails(p)
  BY <1>1, <1>4, <1>11, <1>12 DEF RequestFails, StreamFails, data
<1>13. /\ CallOK(Moved("partial", "unlinked")[p])
       /\ Moved("partial", "unlinked")[p].seen = remote
  BY <1>1, <1>4, MovedOK, MovedSame
<1>14. CASE Verify(p) /\ ~Verified(p)
  BY <1>11, <1>13, <1>14 DEF Verify
<1>15. CASE KeepCached(p)
  <2> DEFINE c == [Moved("partial", "unlinked")[p] EXCEPT !.pc = "label"]
  <2>1. call' = [Moved("partial", "unlinked") EXCEPT ![p] = c]
    BY <1>15 DEF KeepCached
  <2>2. c.pc = "label" /\ c.seen = remote
    BY <1>13 DEF CallOK, Call
  <2>3. cache' = cache /\ partial' = None
    BY <1>15 DEF KeepCached
  <2> HIDE DEF c
  <2> QED BY <1>3, <2>1, <2>2, <2>3, CalmStep
<1>16. CASE /\ RangeNotSupported(p)
            /\ Retry(p, Moved("partial", "unlinked")) /\ partial' = None
  BY <1>11, <1>13, <1>16 DEF RangeNotSupported
<1>17. ASSUME NEW c, CallIsOf(c, remote),
              \/ call' = [call EXCEPT ![p] = c]
              \/ \E from, to : call' = [Moved(from, to) EXCEPT ![p] = c],
              cache' \in {None, Content(remote)}, partial' # None => IsStart(partial', remote)
       PROVE  FilesAreOf(remote)' /\ CallsAreOf(remote)'
  <2>1. \A q \in Process : CallIsOf(call'[q], remote)
    BY <1>1, <1>17, AllAreOf
  <2>2. FilesAreOf(remote)'
    BY <1>3, <1>17 DEF FilesAreOf, IsStart
  <2> QED BY <1>3, <2>1, <2>2 DEF CallsAreOf
<1>18. CASE RangeNotSupported(p) /\ partial' = <<>>
  <2> DEFINE m == Moved("partial", "unlinked")
             c == [m[p] EXCEPT !.pc = "receive", !.stream = remote,
                               !.hash = <<>>, !.where = "partial"]
  <2>1. call' = [m EXCEPT ![p] = c] /\ partial' = <<>> /\ cache' = cache
    <3>1. <<>> \in Seq(Block)
      OBVIOUS
    <3>2. partial' # None
      BY <1>18, <3>1, NoneAssumption
    <3> QED BY <1>18, <3>2 DEF RangeNotSupported
  <2>2. CallIsOf(c, remote)
    BY <1>13 DEF CallOK, Call, CallIsOf
  <2> HIDE DEF c
  <2> QED BY <1>1, <1>17, <2>1, <2>2, EmptyStart DEF FilesAreOf
<1>19. CASE Request(p)
  <2> DEFINE a == Len(call[p].hash) > 0
             c == [call[p] EXCEPT !.pc = "receive", !.stream = remote,
                                  !.append = a, !.where = "partial"]
  <2>1. call' = [call EXCEPT ![p] = c] /\ cache' = cache
    BY <1>1, <1>19 DEF Request, TypeOK
  <2>2. partial' = <<>> \/ (partial' = partial /\ partial # None)
    BY <1>19 DEF Request
  <2>3. IsStart(partial', remote)
    BY <1>1, <2>2, EmptyStart DEF FilesAreOf
  <2>4. CallIsOf(c, remote)
    BY <1>1, <1>4 DEF Call, CallIsOf
  <2> HIDE DEF c
  <2> QED BY <1>17, <2>1, <2>3, <2>4 DEF FilesAreOf
<1>20. CASE Receive(p)
  <2> DEFINE n == Len(call[p].hash)
             b == <<remote, n + 1>>
             h == Append(call[p].hash, b)
             c == [call[p] EXCEPT !.hash = h]
  <2>1. /\ call[p].pc = "receive" /\ call[p].stream = remote /\ call[p].where = "partial"
        /\ call[p].hash = partial /\ partial \in Seq(Block) /\ n \in Nat
    BY <1>1, <1>2, <1>20 DEF Receive, At, CallIsOf, HashOf, Call
  <2>2. call' = [call EXCEPT ![p] = c] /\ cache' = cache
    BY <1>1, <1>20, <2>1 DEF Receive, TypeOK
  <2>3. n < Size[remote]
    BY <1>1, <1>4, <1>20, <2>1 DEF Receive, Received, LastBlock
  <2>4. b \in Block
    BY <1>1, <2>1, <2>3 DEF Block
  <2>5. partial' = Append(partial, b)
    BY <1>20, <2>1, <2>4 DEF Receive, Written
  <2>6. IsStart(partial, remote)
    BY <2>1, NoneAssumption DEF FilesAreOf
  <2>7. IsStart(partial', remote)
    BY <1>1, <2>1, <2>3, <2>4, <2>5, <2>6, ExtendedStart
  <2>8. CallIsOf(c, remote)
    BY <1>1, <1>4, <2>1 DEF Call, CallIsOf
  <2> HIDE DEF c
  <2> QED BY <1>17, <2>2, <2>7, <2>8 DEF FilesAreOf
<1>21. CASE Rename(p) /\ partial = None
  BY <1>1, <1>4, <1>11, <1>21 DEF Rename
<1>22. CASE Rename(p) /\ partial # None
  <2> DEFINE c == [Moved("partial", "cache")[p] EXCEPT !.pc = "label"]
  <2>1. call' = [Moved("partial", "cache") EXCEPT ![p] = c]
    BY <1>22 DEF Rename
  <2>2. Moved("partial", "cache")[p].seen = remote /\ CallOK(Moved("partial", "cache")[p])
    BY <1>1, <1>4, MovedOK, MovedSame
  <2>3. c.pc = "label" /\ c.seen = remote
    BY <2>2 DEF CallOK, Call
  <2>4. CallIsOf(c, remote)
    BY <2>3 DEF CallIsOf
  <2>5. call[p].pc = "place" /\ cache' = partial /\ partial' = None
    BY <1>22 DEF Rename, At
  <2>6. partial \in Seq(Block) /\ IsStart(partial, remote) /\ Len(partial) >= Size[remote]
    BY <1>1, <1>2, <1>22, <2>5 DEF FilesAreOf, CallIsOf, HashOf, TypeOK, File
  <2>7. cache' = Content(remote)
    BY <1>1, <2>5, <2>6, WholeStart
  <2> HIDE DEF c
  <2> QED BY <1>17, <2>1, <2>4, <2>5, <2>7
<1>23. CASE Label(p)
  BY <1>23, AroundOneVersion
<1>24. CASE RangeNotSupported(p)
  BY <1>16, <1>18, <1>24 DEF RangeNotSupported
<1> QED
  BY <1>6, <1>8, <1>9, <1>10, <1>12, <1>14, <1>15, <1>19, <1>20, <1>21, <1>22, <1>23, <1>24
     DEF DownloadOnce

LEMMA OneVersionStep ==
    IInv /\ OneVersion /\ [Next]_vars => OneVersion'
<1> SUFFICES ASSUME IInv, OneVersion, [Next]_vars, Undisturbed'
             PROVE  FilesAreOf(remote)' /\ CallsAreOf(remote)'
  BY DEF OneVersion
<1>1. ASSUME NEW p \in Process, HeadRequest(p) \/ DownloadObject(p) \/ Crash(p)
      PROVE  FilesAreOf(remote)' /\ CallsAreOf(remote)'
  <2>1. replaced' = replaced /\ overlap' = FALSE /\ (overlap => overlap')
    BY <1>1
    DEF Undisturbed, HeadRequest, Crash, DownloadObject, Serve, CacheValid, Stat, ReadSidecar,
        Digest, WriteSidecar, RemoveStaleCache, Exists, RemoveCache, RemoveSidecars,
        TryAcquire, OpenLock, Flock, FlockFails, DropLock, UnlinkLock, CloseLock,
        DownloadOnce, Look, SkipRequest, Request, RangeNotSupported, RequestFails, Receive,
        EndOfStream, StreamFails, Verify, KeepCached, Rename, Label, s3, locks, IInv, TypeOK
  <2>2. Undisturbed
    BY <2>1 DEF Undisturbed
  <2> QED BY <1>1, <2>2, AroundOneVersion, OnceOneVersion DEF OneVersion, DownloadObject
<1>2. CASE Replace
  BY <1>2 DEF Replace, Undisturbed, IInv, TypeOK
<1>3. CASE UNCHANGED vars
  BY <1>3 DEF vars, s3, data, locks, OneVersion, Undisturbed, FilesAreOf, CallsAreOf, IsStart
<1> QED BY <1>1, <1>2, <1>3 DEF Next

\* As long as the object stays what it is and the lock keeps the processes
\* apart, what a caller maps is exactly the object, whatever was lost, killed
\* and resumed before (lpn/mod.rs:95).
THEOREM ServingIsTheObject == Spec => ServedIsTheObject
<1>1. ASSUME Init PROVE OneVersion
  <2>1. FilesAreOf(remote)
    BY <1>1 DEF Init, FilesAreOf
  <2>2. ASSUME NEW p \in Process PROVE CallIsOf(call[p], remote)
    <3>1. call[p].pc = "idle"
      BY <1>1 DEF Init, Fresh
    <3> QED BY <3>1 DEF CallIsOf, Ended
  <2> QED BY <2>1, <2>2 DEF OneVersion, CallsAreOf
<1>2. Spec => []OneVersion
  BY <1>1, OneVersionStep, Invariance, PTL DEF Spec
<1> DEFINE A == \A p \in Process :
                   (Serve(p) /\ replaced = 0 /\ ~overlap) => cache \in {None, Content(remote)}
<1>3. OneVersion => [A]_vars
  BY DEF OneVersion, Undisturbed, FilesAreOf
<1>4. Spec => [][A]_vars
  BY <1>2, <1>3, PTL
<1> QED BY <1>4 DEF ServedIsTheObject
============================================================================
