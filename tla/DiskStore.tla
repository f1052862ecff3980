----------------------------- MODULE DiskStore -----------------------------
(***************************************************************************)
(* The disk-backed tensor store of one process: DiskStore of               *)
(* tenstore/src/local.rs behind the mutex of GenStore                      *)
(* (tenstore/src/genstore.rs).  It keeps, for every run, the keys it was   *)
(* given; the bytes are in one file per key, and a bounded LRU cache keeps *)
(* some of them in memory.  Every operation holds the mutex from its first *)
(* line to its last, so each is one step; the operators below give its     *)
(* effect on the four variables, and its caller conjoins them with its own.*)
(*                                                                         *)
(* Abstractions.  The data stored under key k by run r is the pair <<r,k>>,*)
(* so that data of another run can be told apart.  A write that stops      *)
(* short leaves Torn, which is never decoded: the encoding carries its     *)
(* length.  The order of eviction is that of the LRU list; the cache is    *)
(* measured in bytes and a put may evict any of the other entries, so any  *)
(* set of them may go.  File names are a 64-bit hash of the key, taken to  *)
(* have no collision.                                                      *)
(***************************************************************************)
EXTENDS Naturals, FiniteSets

CONSTANTS
    Run,        \* the run identifiers
    Tensor,     \* the storage keys
    Torn,       \* the content of a file whose write stopped short
    None        \* no file, no cache entry

ASSUME MarkersAreNotData ==
    /\ Torn # None
    /\ \A p \in Run \X Tensor : p # Torn /\ p # None

VARIABLES
    storage,    \* the keys each run has stored, as DiskStore.storage
    cache,      \* the serialized data in memory, by run and key
    files,      \* the content of the file of each key
    poisoned    \* a thread has panicked while it held the mutex

store == <<storage, cache, files, poisoned>>

Page == (Run \X Tensor) \cup {Torn}

StoreTypeOK ==
    /\ storage \in [Run -> SUBSET Tensor]
    /\ cache \in [Run \X Tensor -> Page \cup {None}]
    /\ files \in [Tensor -> Page \cup {None}]
    /\ poisoned \in BOOLEAN

StoreInit ==
    /\ storage = [r \in Run |-> {}]
    /\ cache = [p \in Run \X Tensor |-> None]
    /\ files = [k \in Tensor |-> None]
    /\ poisoned = FALSE

(* The file of a key: the run identifier is not part of its name. *)
RootedAt(r, k) == k

(* Make room for an entry, and put it: any of the others may be evicted. *)
Put(r, k, page) ==
    \E kept \in SUBSET {p \in Run \X Tensor : cache[p] # None} :
        cache' = [p \in Run \X Tensor |->
                     IF p = <<r, k>> THEN page
                     ELSE IF p \in kept THEN cache[p] ELSE None]

(* What a fetch finds, None when it fails. *)
Answer(r, k) ==
    IF poisoned \/ k \notin storage[r] THEN None
    ELSE IF cache[<<r, k>>] # None THEN cache[<<r, k>>]
    ELSE files[RootedAt(r, k)]

(* The key is known and its file is not there: file_size panics. *)
FilePanics(r, k) == ~poisoned /\ k \in storage[r] /\ Answer(r, k) = None

(* Fetch.  Found data are put in the cache, a panic poisons the mutex. *)
FetchBytes(r, k) ==
    /\ IF Answer(r, k) # None /\ cache[<<r, k>>] = None
       THEN Put(r, k, Answer(r, k))
       ELSE UNCHANGED cache
    /\ poisoned' = (poisoned \/ FilePanics(r, k))
    /\ UNCHANGED <<storage, files>>

(* Store.  The key is entered before the file is created, so it stays      *)
(* known when the creation fails; when the write fails the file is left    *)
(* truncated; and when the bytes still in the BufWriter cannot be written  *)
(* as it is dropped, the error is lost and the call succeeds.              *)
StoreBytes(r, k, outcome) ==
    /\ ~poisoned
    /\ storage' = [storage EXCEPT ![r] = @ \cup {k}]
    /\ \/ /\ outcome = "stored"
          /\ files' = [files EXCEPT ![RootedAt(r, k)] = <<r, k>>]
          /\ Put(r, k, <<r, k>>)
       \/ /\ outcome = "not created"
          /\ UNCHANGED <<files, cache>>
       \/ /\ outcome = "not written"
          /\ files' = [files EXCEPT ![RootedAt(r, k)] = Torn]
          /\ UNCHANGED cache
       \/ /\ outcome = "not flushed"
          /\ files' = [files EXCEPT ![RootedAt(r, k)] = Torn]
          /\ Put(r, k, <<r, k>>)
    /\ UNCHANGED poisoned

(* The outcomes of a store: the first succeeds, the others are faults. *)
Outcomes == {"stored", "not created", "not written", "not flushed"}
IsFault(outcome) == outcome # "stored"
ReportsError(outcome) == outcome \in {"not created", "not written"}

(* Clean-up of a run: its keys are forgotten and their files removed, in   *)
(* any order, up to the first that cannot be.  The cache is left alone.    *)
CleanUp(r) ==
    LET Paths == {RootedAt(r, k) : k \in storage[r]}
    IN  /\ ~poisoned
        /\ storage' = [storage EXCEPT ![r] = {}]
        /\ \E removed \in SUBSET {k \in Paths : files[k] # None} :
              /\ (\A k \in Paths : files[k] # None) => removed = Paths
              /\ files' = [k \in Tensor |-> IF k \in removed THEN None ELSE files[k]]
        /\ UNCHANGED <<cache, poisoned>>

(* A new process on the same root: only the files are left. *)
Reopen ==
    /\ storage' = [r \in Run |-> {}]
    /\ cache' = [p \in Run \X Tensor |-> None]
    /\ poisoned' = FALSE
    /\ UNCHANGED files
=============================================================================
