--------------------------- MODULE DownloadCache ---------------------------
(***************************************************************************)
(* download_object of deep-prove/src/store.rs: several processes keep one  *)
(* object of S3 in one cache directory, as fetch_graph_context_mmap of     *)
(* worker/lpn/mod.rs asks them to.  Every file operation is a step.        *)
(*                                                                         *)
(* Next to the cached file there are a partial file, which a later attempt *)
(* resumes, sidecars with the checksum and the etag of the cached file,    *)
(* and a lock file.  A file is the sequence of its blocks, a block the     *)
(* version of the object it is from and its number.  Of the two sidecars   *)
(* only the one cache_valid reads for this object is kept: the sha256 if   *)
(* the object has that metadata, the etag otherwise.  Both stand for the   *)
(* version they were computed from.  S3 and the kernel are external: a GET *)
(* serves one version to its end, and a lock goes with its descriptor.     *)
(***************************************************************************)
EXTENDS Integers, Sequences, FiniteSets, TLC

CONSTANTS
    Process,        \* the worker processes
    Version,        \* the contents the object has had
    Size,           \* number of blocks of each version
    Metadata,       \* what HEAD may return: "etag", "sha256" or "both"
    Attempts,       \* ATTEMPTS of a download
    LockAttempts,   \* DOWNLOAD_LOCK_ATTEMPTS
    MaxCalls,       \* calls of download_object by each process
    MaxReplaced,    \* times the object is replaced
    MaxCrashes,     \* processes that are killed
    None            \* no file, no version

ASSUME SizeAssumption == Size \in [Version -> Nat \ {0}]
ASSUME BoundsAssumption ==
    {Attempts, LockAttempts} \subseteq Nat \ {0} /\ MaxCalls \in [Process -> Nat]
ASSUME ProcessAssumption == IsFiniteSet(Process)

Inode == 1 .. Cardinality(Process) + 1
Block == (UNION {{<<v, i>> : i \in 1 .. Size[v]} : v \in Version}) \cup {None}

ASSUME NoneAssumption == None \notin Inode /\ None \notin Seq(Block)
ASSUME MetadataAssumption == Metadata \subseteq {"etag", "sha256", "both"}

VARIABLES
    remote,     \* the version S3 has
    metadata,   \* which metadata the object has
    cache,      \* content of the cached file
    partial,    \* content of the .partial file
    sidecar,    \* version named by the sidecar cache_valid reads
    lockFile,   \* inode of the .lock file
    lockFd,     \* inode each process has open as lock file
    held,       \* processes whose flock succeeded
    call,       \* the call of download_object of each process
    overlap,    \* history: two processes have held a lock at once
    calls, replaced, crashes   \* counters of the bounds

s3 == <<remote, metadata, replaced>>
data == <<cache, partial, sidecar>>
locks == <<lockFile, lockFd, held, overlap>>
counters == <<calls, crashes>>
vars == <<s3, data, locks, call, counters>>

Content(v) == [i \in 1 .. Size[v] |-> <<v, i>>]

HasSha == metadata # "etag"
HasEtag == metadata # "sha256"

\* The local variables of download_object.  at: which of its three calls of
\* cache_valid; hash: what the hasher has been fed; stream: the version being
\* received; append: how the partial file was opened; where: which file the
\* open descriptor now is, since another process may rename or remove it.
Fresh == [pc |-> "idle", at |-> "first", waits |-> 0, attempt |-> 0, hash |-> <<>>,
          stream |-> None, append |-> FALSE, where |-> "closed",
          seen |-> None, outcome |-> "none"]

Init ==
    /\ remote \in Version /\ metadata \in Metadata /\ replaced = 0
    /\ cache = None /\ partial = None /\ sidecar = None
    /\ lockFile = None /\ lockFd = [p \in Process |-> None]
    /\ held = {} /\ overlap = FALSE
    /\ call = [p \in Process |-> Fresh]
    /\ calls = [p \in Process |-> 0] /\ crashes = 0

At(p, pc) == call[p].pc = pc
Seen(p) == call[p].seen

Goto(p, pc) == call' = [call EXCEPT ![p].pc = pc]

\* Return from download_object, by way of the drop of the lock if it is held.
\* moved is call with the other descriptors brought up to date.
ReturnWith(p, moved, outcome) ==
    call' = [moved EXCEPT ![p] =
        IF p \in held THEN [Fresh EXCEPT !.pc = "unlink lock", !.outcome = outcome]
        ELSE IF outcome = "ok" THEN [Fresh EXCEPT !.pc = "serve"]
        ELSE Fresh]

Return(p, outcome) == ReturnWith(p, call, outcome)

\* The HEAD request.  A call whose HEAD fails has touched nothing: it is left
\* out.
HeadRequest(p) ==
    /\ At(p, "idle") /\ calls[p] < MaxCalls[p]
    /\ calls' = [calls EXCEPT ![p] = @ + 1]
    /\ call' = [call EXCEPT ![p] = [Fresh EXCEPT !.pc = "stat", !.seen = remote]]
    /\ UNCHANGED <<s3, data, locks, crashes>>

---------------------------------------------------------------------------
(* cache_valid *)

AfterInvalid(p) ==
    Goto(p, CASE call[p].at = "first" -> "exists"
              [] call[p].at = "waiting" -> "open lock"
              [] call[p].at = "locked" -> "look")

Stat(p) ==
    /\ At(p, "stat")
    /\ IF cache = None THEN AfterInvalid(p) ELSE Goto(p, "read sidecar")
    /\ UNCHANGED <<s3, data, locks, counters>>

ReadSidecar(p) ==
    /\ At(p, "read sidecar")
    /\ \/ sidecar = Seen(p) /\ Return(p, "ok")
       \/ sidecar # Seen(p) /\ HasSha /\ Goto(p, "digest")
       \/ sidecar = None /\ ~HasSha /\ Goto(p, "write sidecar")
       \/ sidecar \notin {Seen(p), None} /\ ~HasSha /\ AfterInvalid(p)
    /\ UNCHANGED <<s3, data, locks, counters>>

\* Recompute the digest; the file may be gone by now.
Digest(p) ==
    /\ At(p, "digest")
    /\ \/ cache = None /\ Return(p, "err")
       \/ cache = Content(Seen(p)) /\ Goto(p, "write sidecar")
       \/ cache \notin {None, Content(Seen(p))} /\ AfterInvalid(p)
    /\ UNCHANGED <<s3, data, locks, counters>>

WriteSidecar(p) ==
    /\ At(p, "write sidecar")
    /\ sidecar' = Seen(p)
    /\ Return(p, "ok")
    /\ UNCHANGED <<s3, cache, partial, locks, counters>>

---------------------------------------------------------------------------
(* remove_stale_cache, called once and before the lock is asked for *)

\* Descriptors of other processes follow the file they are open on.
Moved(from, to) ==
    [p \in Process |-> IF call[p].where = from THEN [call[p] EXCEPT !.where = to] ELSE call[p]]

Exists(p) ==
    /\ At(p, "exists")
    /\ Goto(p, IF cache = None THEN "remove sidecars" ELSE "remove cache")
    /\ UNCHANGED <<s3, data, locks, counters>>

RemoveCache(p) ==
    /\ At(p, "remove cache")
    /\ IF cache = None
       THEN Return(p, "err")
       ELSE call' = [Moved("cache", "unlinked") EXCEPT ![p].pc = "remove sidecars"]
    /\ cache' = None
    /\ UNCHANGED <<s3, partial, sidecar, locks, counters>>

RemoveSidecars(p) ==
    /\ At(p, "remove sidecars")
    /\ sidecar' = None
    /\ call' = [call EXCEPT ![p].pc = "stat", ![p].at = "waiting"]
    /\ UNCHANGED <<s3, cache, partial, locks, counters>>

---------------------------------------------------------------------------
(* DownloadLock *)

\* File::create opens the lock file, or makes one.
OpenLock(p) ==
    LET inUse == {lockFile} \cup {lockFd[q] : q \in Process}
        inode == IF lockFile # None THEN lockFile ELSE CHOOSE i \in Inode : i \notin inUse
    IN  /\ At(p, "open lock")
        /\ lockFile' = inode
        /\ lockFd' = [lockFd EXCEPT ![p] = inode]
        /\ Goto(p, "flock")
        /\ UNCHANGED <<s3, data, held, overlap, counters>>

Locked(inode) == \E q \in held : lockFd[q] = inode

Flock(p) ==
    /\ At(p, "flock") /\ ~Locked(lockFd[p])
    /\ held' = held \cup {p}
    /\ overlap' = (overlap \/ held # {})
    /\ call' = [call EXCEPT ![p].pc = "stat", ![p].at = "locked"]
    /\ UNCHANGED <<s3, data, lockFile, lockFd, counters>>

BugFlockFails(p) ==         \* one wait more than DOWNLOAD_LOCK_ATTEMPTS
    /\ At(p, "flock") /\ Locked(lockFd[p])
    /\ lockFd' = [lockFd EXCEPT ![p] = None]
    /\ IF call[p].waits < LockAttempts
       THEN call' = [call EXCEPT ![p].pc = "stat", ![p].waits = @ + 1]
       ELSE Return(p, "err")
    /\ UNCHANGED <<s3, data, lockFile, held, overlap, counters>>

\* The descriptor is closed and the process sleeps before it tries again.
FlockFails(p) ==
    /\ At(p, "flock") /\ Locked(lockFd[p])
    /\ lockFd' = [lockFd EXCEPT ![p] = None]
    /\ IF call[p].waits + 1 < LockAttempts
       THEN call' = [call EXCEPT ![p].pc = "stat", ![p].waits = @ + 1]
       ELSE Return(p, "err")
    /\ UNCHANGED <<s3, data, lockFile, held, overlap, counters>>

\* Drop of the lock: the file at the path is removed, whichever it is, and
\* then the descriptor is closed.
UnlinkLock(p) ==
    /\ At(p, "unlink lock")
    /\ lockFile' = None
    /\ Goto(p, "close lock")
    /\ UNCHANGED <<s3, data, lockFd, held, overlap, counters>>

CloseLock(p) ==
    /\ At(p, "close lock")
    /\ lockFd' = [lockFd EXCEPT ![p] = None]
    /\ held' = held \ {p}
    /\ call' = [call EXCEPT ![p].pc = IF call[p].outcome = "ok" THEN "serve" ELSE "idle",
                               ![p].outcome = "none"]
    /\ UNCHANGED <<s3, data, lockFile, overlap, counters>>

---------------------------------------------------------------------------
(* download_object_once and its retries *)

BugRetry(p, moved) ==       \* does not count the attempts
    call' = [moved EXCEPT ![p].pc = "look", ![p].hash = <<>>,
                          ![p].stream = None, ![p].append = FALSE, ![p].where = "closed"]

\* The attempt fails.
Retry(p, moved) ==
    LET again == [moved[p] EXCEPT !.pc = "look", !.attempt = @ + 1, !.hash = <<>>,
                                  !.stream = None, !.append = FALSE, !.where = "closed"]
    IN  IF call[p].attempt + 1 < Attempts
        THEN call' = [moved EXCEPT ![p] = again]
        ELSE ReturnWith(p, moved, "err")

BugLook(p) ==               \* takes the partial file to be of this version
    /\ At(p, "look")
    /\ IF partial # None /\ Len(partial) > Size[Seen(p)]
       THEN /\ partial' = None
            /\ call' = [Moved("partial", "unlinked") EXCEPT ![p].pc = "request"]
       ELSE /\ UNCHANGED partial
            /\ call' = [call EXCEPT ![p].pc = "request",
                                    ![p].hash = IF partial = None THEN <<>>
                                                ELSE SubSeq(Content(Seen(p)), 1, Len(partial))]
    /\ UNCHANGED <<s3, cache, sidecar, locks, counters>>

\* What a partial file is good for: removed when it is too large, hashed and
\* resumed otherwise.
Look(p) ==
    /\ At(p, "look")
    /\ IF partial # None /\ Len(partial) > Size[Seen(p)]
       THEN /\ partial' = None
            /\ call' = [Moved("partial", "unlinked") EXCEPT ![p].pc = "request"]
       ELSE /\ UNCHANGED partial
            /\ call' = [call EXCEPT ![p].pc = "request",
                                    ![p].hash = IF partial = None THEN <<>> ELSE partial]
    /\ UNCHANGED <<s3, cache, sidecar, locks, counters>>

Complete(p) == Len(call[p].hash) >= Size[Seen(p)]

\* The partial file already has all the bytes.
SkipRequest(p) ==
    /\ At(p, "request") /\ Complete(p)
    /\ Goto(p, "verify")
    /\ UNCHANGED <<s3, data, locks, counters>>

\* If-Match, when there is an etag.
Matches(p) == HasEtag => remote = Seen(p)

\* GET, from where the partial file ends, and open that file: to append, or
\* truncated.
Request(p) ==
    LET start == Len(call[p].hash)
    IN  /\ At(p, "request") /\ ~Complete(p) /\ Matches(p)
        /\ start < Size[remote]
        /\ call' = [call EXCEPT ![p].pc = "receive", ![p].stream = remote,
                                 ![p].append = start > 0, ![p].where = "partial"]
        /\ partial' = IF start = 0 \/ partial = None THEN <<>> ELSE partial
        /\ UNCHANGED <<s3, cache, sidecar, locks, counters>>

BugRangeNotSupported(p) ==  \* the whole object goes behind the partial file
    /\ At(p, "request") /\ ~Complete(p) /\ call[p].hash # <<>> /\ Matches(p)
    /\ call' = [call EXCEPT ![p].pc = "receive", ![p].stream = remote, ![p].append = TRUE,
                             ![p].where = "partial", ![p].hash = <<>>]
    /\ UNCHANGED <<s3, data, locks, counters>>

\* The server knows no ranges: start again from byte 0, unless the second GET
\* fails too.
RangeNotSupported(p) ==
    LET reset == Moved("partial", "unlinked")
    IN  /\ At(p, "request") /\ ~Complete(p) /\ call[p].hash # <<>>
        /\ \/ /\ Matches(p)
              /\ call' = [reset EXCEPT ![p].pc = "receive", ![p].stream = remote,
                                       ![p].hash = <<>>, ![p].where = "partial"]
              /\ partial' = <<>>
           \/ Retry(p, reset) /\ partial' = None
        /\ UNCHANGED <<s3, cache, sidecar, locks, counters>>

\* 412, 416, or no answer at all.
RequestFails(p) ==
    /\ At(p, "request") /\ ~Complete(p)
    /\ Retry(p, call)
    /\ UNCHANGED <<s3, data, locks, counters>>

\* A range ends where the object that was asked for does.
LastBlock(p) ==
    LET v == call[p].stream
    IN  IF call[p].append /\ Size[Seen(p)] < Size[v] THEN Size[Seen(p)] ELSE Size[v]

Received(p) == Len(call[p].hash) >= LastBlock(p)

\* Write block b after the first n blocks, or at the end of the file.
Written(file, b, n, append) ==
    IF append \/ n = Len(file) THEN Append(file, b)
    ELSE [i \in 1 .. (IF n + 1 > Len(file) THEN n + 1 ELSE Len(file)) |->
             IF i = n + 1 THEN b ELSE IF i <= Len(file) THEN file[i] ELSE None]

Receive(p) ==
    LET n == Len(call[p].hash)
        b == <<call[p].stream, n + 1>>
        write(name, file) ==
            IF call[p].where = name THEN Written(file, b, n, call[p].append) ELSE file
    IN  /\ At(p, "receive") /\ ~Received(p)
        /\ partial' = write("partial", partial)
        /\ cache' = write("cache", cache)
        /\ call' = [call EXCEPT ![p].hash = Append(@, b)]
        /\ UNCHANGED <<s3, sidecar, locks, counters>>

EndOfStream(p) ==
    /\ At(p, "receive") /\ Received(p)
    /\ call' = [call EXCEPT ![p].pc = "verify", ![p].stream = None,
                             ![p].append = FALSE, ![p].where = "closed"]
    /\ UNCHANGED <<s3, data, locks, counters>>

\* The connection breaks; what was written stays for the next attempt.
StreamFails(p) ==
    /\ At(p, "receive")
    /\ Retry(p, call)
    /\ UNCHANGED <<s3, data, locks, counters>>

Verified(p) == HasSha => call[p].hash = Content(Seen(p))

Verify(p) ==
    /\ At(p, "verify")
    /\ IF Verified(p)
       THEN Goto(p, "place") /\ UNCHANGED partial
       ELSE Retry(p, Moved("partial", "unlinked")) /\ partial' = None
    /\ UNCHANGED <<s3, cache, sidecar, locks, counters>>

\* A file that is in the cache already is kept, and the download dropped.
KeepCached(p) ==
    /\ At(p, "place") /\ cache # None
    /\ partial' = None
    /\ call' = [Moved("partial", "unlinked") EXCEPT ![p].pc = "label"]
    /\ UNCHANGED <<s3, cache, sidecar, locks, counters>>

Rename(p) ==
    /\ At(p, "place") /\ cache = None
    /\ IF partial = None
       THEN Retry(p, call)
       ELSE call' = [Moved("partial", "cache") EXCEPT ![p].pc = "label"]
    /\ cache' = partial
    /\ partial' = None
    /\ UNCHANGED <<s3, sidecar, locks, counters>>

Label(p) ==
    /\ At(p, "label")
    /\ sidecar' = Seen(p)
    /\ Return(p, "ok")
    /\ UNCHANGED <<s3, cache, partial, locks, counters>>

\* The caller opens and maps the cached file, and fails if it is gone.
Serve(p) ==
    /\ At(p, "serve")
    /\ Goto(p, "idle")
    /\ UNCHANGED <<s3, data, locks, counters>>

---------------------------------------------------------------------------
(* The environment *)

\* A new version is uploaded.
Replace ==
    /\ replaced < MaxReplaced
    /\ \E v \in Version \ {remote} : remote' = v
    /\ replaced' = replaced + 1
    /\ UNCHANGED <<metadata, data, locks, call, counters>>

\* A process is killed: the kernel closes its files, which stay as they are.
Crash(p) ==
    /\ crashes < MaxCrashes /\ ~At(p, "idle")
    /\ crashes' = crashes + 1
    /\ call' = [call EXCEPT ![p] = Fresh]
    /\ lockFd' = [lockFd EXCEPT ![p] = None]
    /\ held' = held \ {p}
    /\ UNCHANGED <<s3, data, lockFile, overlap, calls>>

CacheValid(p) == Stat(p) \/ ReadSidecar(p) \/ Digest(p) \/ WriteSidecar(p)
RemoveStaleCache(p) == Exists(p) \/ RemoveCache(p) \/ RemoveSidecars(p)
TryAcquire(p) == OpenLock(p) \/ Flock(p) \/ FlockFails(p)
DropLock(p) == UnlinkLock(p) \/ CloseLock(p)
DownloadOnce(p) ==
    \/ Look(p) \/ SkipRequest(p) \/ Request(p) \/ RangeNotSupported(p) \/ RequestFails(p)
    \/ Receive(p) \/ EndOfStream(p) \/ StreamFails(p)
    \/ Verify(p) \/ KeepCached(p) \/ Rename(p) \/ Label(p)

DownloadObject(p) ==
    CacheValid(p) \/ RemoveStaleCache(p) \/ TryAcquire(p) \/ DownloadOnce(p)
        \/ DropLock(p) \/ Serve(p)

Next ==
    \/ \E p \in Process : HeadRequest(p) \/ DownloadObject(p) \/ Crash(p)
    \/ Replace

Spec == Init /\ [][Next]_vars

\* A process that has not been killed goes on with its call; nobody has to
\* call, to crash or to replace the object.
FairSpec == Spec /\ \A p \in Process : WF_vars(DownloadObject(p))

---------------------------------------------------------------------------
File == Seq(Block) \cup {None}

Ended == {"idle", "unlink lock", "close lock", "serve"}
Downloading == {"look", "request", "receive", "verify", "place", "label"}
Checking ==
    {"stat", "read sidecar", "digest", "write sidecar", "exists", "remove cache",
     "remove sidecars", "open lock", "flock"}

Call ==
    [pc : Ended \cup Checking \cup Downloading, at : {"first", "waiting", "locked"},
     waits : 0 .. LockAttempts - 1, attempt : 0 .. Attempts - 1,
     hash : Seq(Block), stream : Version \cup {None}, append : BOOLEAN,
     where : {"closed", "partial", "cache", "unlinked"},
     seen : Version \cup {None}, outcome : {"none", "ok", "err"}]

\* The files, the locks and the calls keep their types (store.rs:378): a call
\* waits and tries less often than its bounds.
TypeOK ==
    /\ remote \in Version /\ metadata \in Metadata /\ replaced \in Nat
    /\ cache \in File /\ partial \in File
    /\ sidecar \in Version \cup {None}
    /\ lockFile \in Inode \cup {None}
    /\ lockFd \in [Process -> Inode \cup {None}]
    /\ held \subseteq Process /\ overlap \in BOOLEAN
    /\ call \in [Process -> Call]

\* As long as the object stays what it is and the lock keeps the processes
\* apart, what a caller maps is exactly the object, whatever was lost, killed
\* and resumed before (lpn/mod.rs:95).  It may find no file: another process
\* that saw none may still be about to remove the "stale" one.
ServedIsTheObject ==
    [][\A p \in Process :
          (Serve(p) /\ replaced = 0 /\ ~overlap) => cache \in {None, Content(remote)}]_vars

\* A file moved into the cache has the checksum that HEAD gave, if it gave one,
\* even when it was resumed from an attempt on another version
\* (store.rs:698), unless a second process wrote to it.
PlacedIsVerified ==
    [][\A p \in Process :
          (Rename(p) /\ cache' # None /\ HasSha /\ ~overlap) => cache' = Content(Seen(p))]_vars

\* Every call returns: waiting for the lock and retrying are both bounded, and
\* a lock dies with its process (store.rs:445).
CallsEnd == \A p \in Process : ~At(p, "idle") ~> At(p, "idle")

\* store.rs:650 "Use If-Match so S3 returns 412 Precondition Failed if the
\* object was replaced between the HEAD and this GET. This prevents corrupt
\* resumptions as without it, the new bytes would be appended to an old partial
\* file": what is cached is of one version.
NoCorruptResumption ==
    cache # None => \A i, j \in DOMAIN cache : cache[i][1] = cache[j][1]
============================================================================
