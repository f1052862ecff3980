------------------------- MODULE InferenceRunProofs -------------------------
(***************************************************************************)
(* For every model, every placement of faults and crashes, and whatever    *)
(* the cache evicts: no layer meets a dry handle, memory is given back,    *)
(* and a trace that was returned can be loaded, one run at a time.         *)
(*                                                                         *)
(* The argument: the count of a tensor is the number of links that have    *)
(* not been read yet (Counted), so that a handle has its data exactly      *)
(* while it is needed (DataKept); and what was sent to the saver is in the *)
(* channel or stored (SavedOrSent), so that it is stored when the saver    *)
(* has returned.                                                           *)
(***************************************************************************)
EXTENDS InferenceRun, FiniteSetTheorems, TLAPS

\* The links of k that are read from layer n on, or by output nodes.
Later(k, n) == {f \in FeedsOf(k) : f.to = OutputNode \/ f.to >= n}

\* What the model has computed, and sent to the saver, before layer n.
Produced(n) == InputTensors \cup UNION {OutputsOf(m) : m \in 1..(n - 1)}
SentSoFar(n) == InputTensors \cup UNION {Range(Sent(m)) : m \in 1..(n - 1)}

Counted ==
    Running => \A k \in Tensor :
        uses[k] = Cardinality(Later(k, next))
                    + Cardinality(FeedsOf(k) \cap FeedsInto(OutputNode))

DataKept == Running => data = {k \in Produced(next) : uses[k] > 0}

\* One run at a time, with its saver.
InOrder ==
    /\ run # None => run \in Run /\ state[run] = "running" /\ saver # "off"
    /\ \A r \in Run : state[r] = "running" => run = r
    /\ run = None => saver = "off" /\ ending = "not yet"
    /\ saver # "on" => queue = <<>>
    /\ saver = "done" => ending # "not yet"
    /\ ending = "traced" => next = NumLayers + 1

Apart == ~(Interleaved /\ worker = "plan")
Active == {r \in Run : state[r] \in {"running", "traced", "erred"}}
OneActive == Apart => \A r, s \in Active : r = s

\* Tensor k of run r is in the store.
Saved(r, k) ==
    /\ k \in storage[r]
    /\ cache[<<r, k>>] \in {None, <<r, k>>} \/ (unflushed /\ cache[<<r, k>>] = Torn)
    /\ files[k] = <<r, k>> \/ (unflushed /\ files[k] = Torn)

SavedOrSent ==
    Apart =>
      /\ ~poisoned
      /\ \A r \in Run : state[r] = "traced" => \A k \in TraceTensors : Saved(r, k)
      /\ run # None /\ ending # "erred" /\ saver # "failed" =>
            \A k \in SentSoFar(next) : k \in Range(queue) \/ Saved(run, k)

\* Whose the files are that in_new_run has to discard.
Owned ==
    worker = "job" /\ crashes = 0 =>
      /\ \A k \in Tensor : files[k] # None =>
            \E r \in Run : state[r] \in {"running", "traced", "erred", "panicked"}
                              /\ k \in storage[r]
      /\ \A r \in Run : state[r] \in {"new", "over"} => storage[r] = {}
      /\ \A r \in Run :
            state[r] \in {"traced", "erred"} \/ (state[r] = "running" /\ saver # "failed")
               => \A k \in storage[r] : files[k] # None

IInv ==
    TypeOK /\ InOrder /\ OneActive /\ Counted /\ DataKept /\ SavedOrSent /\ Owned

---------------------------------------------------------------------------
\* The elements of a sequence that is extended, or whose head is taken.
LEMMA RangeConcat ==
    ASSUME NEW S, NEW s \in Seq(S), NEW t \in Seq(S)
    PROVE  s \o t \in Seq(S) /\ Range(s \o t) = Range(s) \cup Range(t)
<1>1. /\ s \o t \in Seq(S) /\ Len(s \o t) = Len(s) + Len(t)
      /\ Len(s) \in Nat /\ Len(t) \in Nat
      /\ \A i \in 1 .. Len(s) : (s \o t)[i] = s[i]
      /\ \A i \in 1 .. Len(t) : (s \o t)[Len(s) + i] = t[i]
  OBVIOUS
<1>2. DOMAIN s = 1 .. Len(s) /\ DOMAIN t = 1 .. Len(t) /\ DOMAIN (s \o t) = 1 .. Len(s \o t)
  BY <1>1
<1>3. ASSUME NEW x \in Range(s \o t) PROVE x \in Range(s) \cup Range(t)
  <2>1. PICK i \in 1 .. Len(s \o t) : x = (s \o t)[i]
    BY <1>2 DEF Range
  <2>2. CASE i <= Len(s)
    BY <1>1, <1>2, <2>1, <2>2 DEF Range
  <2>3. CASE i > Len(s)
    <3>1. i - Len(s) \in 1 .. Len(t) /\ i = Len(s) + (i - Len(s))
      BY <1>1, <2>1, <2>3
    <3>2. x = t[i - Len(s)]
      BY <1>1, <2>1, <3>1
    <3> QED BY <1>2, <3>1, <3>2 DEF Range
  <2> QED BY <1>1, <2>1, <2>2, <2>3
<1>4. ASSUME NEW x \in Range(s) PROVE x \in Range(s \o t)
  <2>1. PICK i \in 1 .. Len(s) : x = s[i]
    BY <1>2 DEF Range
  <2>2. i \in 1 .. Len(s \o t) /\ x = (s \o t)[i]
    BY <1>1, <2>1
  <2> QED BY <1>2, <2>2 DEF Range
<1>5. ASSUME NEW x \in Range(t) PROVE x \in Range(s \o t)
  <2>1. PICK i \in 1 .. Len(t) : x = t[i]
    BY <1>2 DEF Range
  <2>2. Len(s) + i \in 1 .. Len(s \o t) /\ x = (s \o t)[Len(s) + i]
    BY <1>1, <2>1
  <2> QED BY <1>2, <2>2 DEF Range
<1> QED BY <1>1, <1>3, <1>4, <1>5

LEMMA RangeTail ==
    ASSUME NEW S, NEW s \in Seq(S), s # <<>>
    PROVE  /\ Head(s) \in S /\ Tail(s) \in Seq(S)
           /\ Range(s) = {Head(s)} \cup Range(Tail(s))
<1>1. /\ Head(s) = s[1] /\ Len(s) \in Nat \ {0} /\ Head(s) \in S
      /\ Tail(s) \in Seq(S) /\ Len(Tail(s)) = Len(s) - 1
      /\ \A i \in 1 .. Len(Tail(s)) : Tail(s)[i] = s[i + 1]
  OBVIOUS
<1>2. DOMAIN s = 1 .. Len(s) /\ DOMAIN Tail(s) = 1 .. Len(Tail(s))
  BY <1>1
<1>3. ASSUME NEW x \in Range(s) PROVE x = Head(s) \/ x \in Range(Tail(s))
  <2>1. PICK i \in 1 .. Len(s) : x = s[i]
    BY <1>2 DEF Range
  <2>2. CASE i = 1
    BY <1>1, <2>1, <2>2
  <2>3. CASE i # 1
    <3>1. i - 1 \in 1 .. Len(Tail(s)) /\ x = Tail(s)[i - 1]
      BY <1>1, <2>1, <2>3
    <3> QED BY <1>2, <3>1 DEF Range
  <2> QED BY <2>2, <2>3
<1>4. Head(s) \in Range(s)
  BY <1>1, <1>2 DEF Range
<1>5. ASSUME NEW x \in Range(Tail(s)) PROVE x \in Range(s)
  <2>1. PICK i \in 1 .. Len(Tail(s)) : x = Tail(s)[i]
    BY <1>2 DEF Range
  <2>2. i + 1 \in 1 .. Len(s) /\ x = s[i + 1]
    BY <1>1, <2>1
  <2> QED BY <1>2, <2>2 DEF Range
<1> QED BY <1>1, <1>3, <1>4, <1>5

---------------------------------------------------------------------------
\* The links of a tensor are finitely many, in whole and in part.
LEMMA LinksCounted ==
    ASSUME NEW k, NEW n, NEW S, S \subseteq FeedsOf(k)
    PROVE  IsFiniteSet(S) /\ Cardinality(S) \in Nat /\ (Cardinality(S) = 0 <=> S = {})
<1>1. S \subseteq Feeds
  BY DEF FeedsOf
<1> QED BY <1>1, Graph, FS_Subset, FS_CardinalityType, FS_EmptySet

LEMMA InitialUsesCounted ==
    ASSUME NEW k
    PROVE  /\ InitialUses(k) \in Nat
           /\ Later(k, 1) = FeedsOf(k)
           /\ InitialUses(k) = Cardinality(Later(k, 1))
                                 + Cardinality(FeedsOf(k) \cap FeedsInto(OutputNode))
<1>1. Later(k, 1) = FeedsOf(k)
  <2>1. \A f \in Feeds : f.to \in Layer \cup {OutputNode}
    BY Graph
  <2> QED BY <2>1 DEF Later, FeedsOf, Layer, OutputNode
<1>2. /\ Cardinality(FeedsOf(k)) \in Nat
      /\ Cardinality(FeedsOf(k) \cap FeedsInto(OutputNode)) \in Nat
  <2>1. FeedsOf(k) \subseteq FeedsOf(k) /\ FeedsOf(k) \cap FeedsInto(OutputNode) \subseteq FeedsOf(k)
    OBVIOUS
  <2> QED BY <2>1, LinksCounted
<1> QED BY <1>1, <1>2 DEF InitialUses

\* Layer n reads its links of k, and leaves the later ones.
LEMMA LayerReads ==
    ASSUME NEW k, NEW n \in Layer
    PROVE  /\ Cardinality(FeedsOf(k) \cap FeedsInto(n)) \in Nat
           /\ Cardinality(Later(k, n + 1)) \in Nat
           /\ Cardinality(Later(k, n))
                = Cardinality(Later(k, n + 1)) + Cardinality(FeedsOf(k) \cap FeedsInto(n))
<1> DEFINE Now == FeedsOf(k) \cap FeedsInto(n)
<1>0. n \in Nat \ {0} /\ \A f \in Feeds : f.to \in Nat
  BY Graph DEF Layer, OutputNode
<1>1. Later(k, n) = Later(k, n + 1) \cup Now /\ Later(k, n + 1) \cap Now = {}
  BY <1>0 DEF Later, FeedsOf, FeedsInto, OutputNode
<1>2. Later(k, n + 1) \subseteq FeedsOf(k) /\ Now \subseteq FeedsOf(k)
  BY DEF Later
<1>3. /\ IsFiniteSet(Later(k, n + 1)) /\ Cardinality(Later(k, n + 1)) \in Nat
      /\ IsFiniteSet(Now) /\ Cardinality(Now) \in Nat /\ Cardinality({}) = 0
  BY <1>2, LinksCounted, FS_EmptySet
<1>4. Cardinality(Later(k, n + 1) \cup Now)
        = Cardinality(Later(k, n + 1)) + Cardinality(Now) - Cardinality(Later(k, n + 1) \cap Now)
  BY <1>3, FS_Union
<1>5. /\ Cardinality(Later(k, n)) = Cardinality(Later(k, n + 1) \cup Now)
      /\ Cardinality(Later(k, n + 1) \cap Now) = Cardinality({})
  BY <1>1
<1> HIDE DEF Now
<1>6. Cardinality(Later(k, n)) = Cardinality(Later(k, n + 1)) + Cardinality(Now)
  BY <1>3, <1>4, <1>5
<1> QED BY <1>3, <1>6 DEF Now

LEMMA SentLater ==
    ASSUME NEW n \in Nat \ {0}
    PROVE  /\ Produced(n + 1) = Produced(n) \cup OutputsOf(n)
           /\ SentSoFar(n + 1) = SentSoFar(n) \cup Range(Sent(n))
<1>1. 1 .. ((n + 1) - 1) = (1 .. (n - 1)) \cup {n}
  OBVIOUS
<1> QED BY <1>1 DEF Produced, SentSoFar

LEMMA SentAtEnds ==
    /\ Produced(1) = InputTensors
    /\ SentSoFar(1) = InputTensors
    /\ SentSoFar(NumLayers + 1) = TraceTensors
<1>1. 1 .. (1 - 1) = {} /\ 1 .. ((NumLayers + 1) - 1) = Layer
  BY Graph DEF Layer
<1> QED BY <1>1 DEF Produced, SentSoFar, TraceTensors

LEMMA TensorsTyped ==
    /\ InputTensors \subseteq Tensor
    /\ \A n \in Layer : /\ Outputs[n] \in Seq(Tensor) /\ ProvingData[n] \in Seq(Tensor)
                        /\ Sent(n) \in Seq(Tensor)
                        /\ OutputsOf(n) \subseteq Tensor
                        /\ Range(Sent(n)) \subseteq Tensor
    /\ TraceTensors \subseteq Tensor
<1>1. \A s \in Seq(Tensor) : Range(s) \subseteq Tensor
  BY DEF Range
<1>2. ASSUME NEW n \in Layer
      PROVE  Outputs[n] \in Seq(Tensor) /\ ProvingData[n] \in Seq(Tensor) /\ Sent(n) \in Seq(Tensor)
  BY Graph DEF Sent
<1> QED BY <1>1, <1>2, Graph DEF InputTensors, OutputsOf, TraceTensors

---------------------------------------------------------------------------
\* The operations of the store keep its types.
LEMMA PutType ==
    ASSUME StoreTypeOK, NEW r \in Run, NEW k \in Tensor, NEW page \in Page, Put(r, k, page)
    PROVE  /\ cache' \in [Run \X Tensor -> Page \cup {None}]
           /\ cache'[<<r, k>>] = page
           /\ \A q \in Run \X Tensor : q # <<r, k>> => cache'[q] \in {None, cache[q]}
BY DEF Put, StoreTypeOK

LEMMA StoreType ==
    ASSUME StoreTypeOK, NEW r \in Run, NEW k \in Tensor, NEW outcome, StoreBytes(r, k, outcome)
    PROVE  StoreTypeOK'
<1>1. <<r, k>> \in Page /\ Torn \in Page
  BY DEF Page
<1>2. storage' \in [Run -> SUBSET Tensor] /\ poisoned' \in BOOLEAN
  BY DEF StoreBytes, StoreTypeOK
<1>3. files' \in [Tensor -> Page \cup {None}]
  BY <1>1 DEF StoreBytes, StoreTypeOK, RootedAt
<1>4. cache' \in [Run \X Tensor -> Page \cup {None}]
  <2>1. CASE Put(r, k, <<r, k>>)
    BY <1>1, <2>1, PutType
  <2>2. CASE UNCHANGED cache
    BY <2>2 DEF StoreTypeOK
  <2> QED BY <2>1, <2>2 DEF StoreBytes
<1> QED BY <1>2, <1>3, <1>4 DEF StoreTypeOK

LEMMA AnswerType ==
    ASSUME StoreTypeOK, NEW r \in Run, NEW k \in Tensor
    PROVE  Answer(r, k) \in Page \cup {None}
BY DEF Answer, StoreTypeOK, RootedAt

LEMMA FetchType ==
    ASSUME StoreTypeOK, NEW r \in Run, NEW k \in Tensor, FetchBytes(r, k)
    PROVE  StoreTypeOK'
<1>1. Answer(r, k) \in Page \cup {None}
  BY AnswerType
<1>2. cache' \in [Run \X Tensor -> Page \cup {None}]
  <2>1. CASE Answer(r, k) # None /\ cache[<<r, k>>] = None
    BY <1>1, <2>1, PutType DEF FetchBytes
  <2>2. CASE ~(Answer(r, k) # None /\ cache[<<r, k>>] = None)
    BY <2>2 DEF FetchBytes, StoreTypeOK
  <2> QED BY <2>1, <2>2
<1>3. FilePanics(r, k) \in BOOLEAN
  BY DEF FilePanics
<1> QED BY <1>2, <1>3 DEF FetchBytes, StoreTypeOK

LEMMA CleanUpType ==
    ASSUME StoreTypeOK, NEW r \in Run, CleanUp(r)
    PROVE  StoreTypeOK'
BY DEF CleanUp, StoreTypeOK

LEMMA ReopenType ==
    ASSUME StoreTypeOK, Reopen
    PROVE  StoreTypeOK'
BY DEF Reopen, StoreTypeOK

---------------------------------------------------------------------------
LEMMA InitIInv == Init => IInv
<1> SUFFICES ASSUME Init PROVE IInv
  OBVIOUS
<1>1. TypeOK
  <2>1. StoreTypeOK
    BY DEF Init, StoreInit, StoreTypeOK
  <2>2. next = 1 /\ faults = 0 /\ crashes = 0
    BY DEF Init
  <2>6. next \in 1 .. (NumLayers + 1) /\ faults \in 0 .. MaxFaults /\ crashes \in 0 .. MaxCrashes
    BY <2>2, Graph
  <2>0. queue = <<>> /\ uses = [k \in Tensor |-> 0] /\ state = [r \in Run |-> "new"]
    BY DEF Init
  <2>3. queue \in Seq(Tensor)
    BY <2>0
  <2>4. /\ uses \in [Tensor -> Nat]
        /\ state \in [Run -> {"new", "running", "traced", "erred", "over", "panicked", "lost"}]
    BY <2>0
  <2>5. /\ worker \in {"job", "plan"} /\ run \in Run \cup {None} /\ data \subseteq Tensor
        /\ saver \in {"off", "on", "done", "failed"} /\ ending \in {"not yet", "traced", "erred"}
        /\ unflushed \in BOOLEAN
    BY DEF Init
  <2> QED BY <2>1, <2>3, <2>4, <2>5, <2>6 DEF TypeOK
<1>2. InOrder
  <2>1. \A r \in Run : state[r] = "new"
    BY DEF Init
  <2>2. run = None /\ saver = "off" /\ ending = "not yet" /\ queue = <<>>
    BY DEF Init
  <2> QED BY <2>1, <2>2 DEF InOrder
<1>4. OneActive
  BY DEF Init, OneActive, Active
<1>5. Counted /\ DataKept
  BY DEF Init, Counted, DataKept, Running
<1>3. SavedOrSent /\ Owned
  BY DEF Init, StoreInit, SavedOrSent, Owned
<1> QED BY <1>1, <1>2, <1>3, <1>4, <1>5 DEF IInv

---------------------------------------------------------------------------
\* Saved depends on the store and on unflushed alone, and what it says of a
\* pair is not undone by a store of another tensor.
LEMMA SavedStays ==
    ASSUME NEW r \in Run, NEW k \in Tensor, Saved(r, k),
           storage[r] \subseteq storage'[r], unflushed => unflushed',
           cache'[<<r, k>>] \in {None, cache[<<r, k>>]}, files'[k] = files[k]
    PROVE  Saved(r, k)'
BY DEF Saved

LEMMA StartKeeps ==
    ASSUME IInv, NEW r \in Run, StartRun(r) PROVE IInv'
<1> USE DEF IInv
<1>0. /\ run = None /\ state[r] = "new" /\ run' = r
      /\ state' = [state EXCEPT ![r] = "running"]
      /\ next' = 1 /\ uses' = [k \in Tensor |-> InitialUses(k)]
      /\ saver' = "on" /\ data' = KeptInputs
      /\ UNCHANGED <<store, worker, faults, crashes, unflushed>>
      /\ Apart => \A s \in Run : state[s] \notin {"traced", "erred"}
  BY Zenon DEF StartRun, Apart
<1>1. /\ state'[r] = "running" /\ \A s \in Run : s # r => state'[s] = state[s]
      /\ state' \in [Run -> {"new", "running", "traced", "erred", "over", "panicked", "lost"}]
  BY <1>0 DEF TypeOK
<1>2. /\ saver = "off" /\ ending = "not yet"
      /\ \A s \in Run : state[s] # "running"
  BY <1>0, NoRun DEF InOrder
<1>3. \/ queue' = ModelInputs /\ ending' = ending
      \/ /\ ending' = "erred"
         /\ \E k \in 1 .. Len(ModelInputs) : queue' = SubSeq(ModelInputs, 1, k - 1)
  BY DEF StartRun, End
<1>4. ending' \in {"not yet", "erred"} /\ queue' \in Seq(Tensor)
      /\ (ending' # "erred" => queue' = ModelInputs)
  <2>1. \A k \in 1 .. Len(ModelInputs) : SubSeq(ModelInputs, 1, k - 1) \in Seq(Tensor)
    BY Graph
  <2> QED BY <1>2, <1>3, <2>1, Graph
<1>5. TypeOK'
  <2>1. KeptInputs \subseteq Tensor
    BY TensorsTyped DEF KeptInputs
  <2>2. uses' \in [Tensor -> Nat]
    BY <1>0, InitialUsesCounted
  <2>3. next' \in 1 .. (NumLayers + 1)
    BY <1>0, Graph
  <2>4. StoreTypeOK'
    BY <1>0 DEF TypeOK, StoreTypeOK, store
  <2> QED BY <1>0, <1>1, <1>4, <2>1, <2>2, <2>3, <2>4 DEF TypeOK
<1>6. InOrder'
  <2>1. \A s \in Run : state'[s] = "running" => run' = s
    BY <1>0, <1>1, <1>2
  <2> QED BY <1>0, <1>1, <1>4, <2>1, NoRun DEF InOrder
<1>7. OneActive'
  <2>1. ASSUME Apart', NEW s \in Run, state'[s] \in {"running", "traced", "erred"} PROVE s = r
    BY <1>0, <1>1, <1>2, <2>1 DEF Apart
  <2> QED BY <2>1 DEF OneActive, Active
<1>8. Counted'
  <2>1. ASSUME NEW k \in Tensor
        PROVE  uses'[k] = Cardinality(Later(k, 1))
                            + Cardinality(FeedsOf(k) \cap FeedsInto(OutputNode))
    BY <1>0, InitialUsesCounted
  <2> QED BY <1>0, <2>1 DEF Counted
<1>9. DataKept'
  <2>1. KeptInputs = {k \in Produced(1) : uses'[k] > 0}
    BY <1>0, SentAtEnds, TensorsTyped DEF KeptInputs
  <2> QED BY <1>0, <2>1 DEF DataKept
<1>10. SavedOrSent'
  <2> SUFFICES ASSUME Apart' PROVE
          /\ ~poisoned'
          /\ \A s \in Run : state'[s] # "traced"
          /\ ending' # "erred" => \A k \in SentSoFar(1) : k \in Range(queue')
    BY <1>0 DEF SavedOrSent
  <2>1. Apart
    BY <1>0 DEF Apart
  <2> QED BY <1>0, <1>1, <1>4, <2>1, SentAtEnds DEF SavedOrSent, InputTensors, store
<1>11. Owned'
  <2> SUFFICES ASSUME worker = "job", crashes = 0 PROVE Owned'
    BY <1>0 DEF Owned
  <2>1. storage' = storage /\ files' = files
    BY <1>0 DEF store
  <2>2. storage[r] = {} /\ \A s \in Run : state'[s] \in {"new", "over"} => state[s] \in {"new", "over"}
    BY <1>0, <1>1 DEF Owned
  <2>3. ASSUME NEW k \in Tensor, files[k] # None
        PROVE  \E s \in Run : state'[s] \in {"running", "traced", "erred", "panicked"} /\ k \in storage[s]
    <3>1. PICK s \in Run : state[s] \in {"running", "traced", "erred", "panicked"} /\ k \in storage[s]
      BY <2>3 DEF Owned
    <3> QED BY <1>1, <3>1
  <2>4. ASSUME NEW s \in Run, state'[s] \in {"traced", "erred"} \/ state'[s] = "running"
        PROVE  \A k \in storage[s] : files[k] # None
    <3>1. CASE s = r
      BY <2>2, <3>1
    <3>2. CASE s # r
      BY <1>1, <1>2, <2>4, <3>2 DEF Owned
    <3> QED BY <3>1, <3>2
  <2>5. \A s \in Run : state'[s] \in {"new", "over"} => storage[s] = {}
    BY <2>2 DEF Owned
  <2> QED BY <2>1, <2>3, <2>4, <2>5 DEF Owned
<1> QED BY <1>5, <1>6, <1>7, <1>8, <1>9, <1>10, <1>11

---------------------------------------------------------------------------
\* What layer n reads has its data.
LEMMA ReadsData ==
    ASSUME TypeOK, Counted, DataKept, Running, next \in Layer
    PROVE  InputsOf(next) \subseteq data
<1> SUFFICES ASSUME NEW f \in Feeds, f.to = next PROVE f.tensor \in data
  BY DEF InputsOf, FeedsInto
<1> DEFINE k == f.tensor
<1>1. k \in Tensor /\ next \in Nat \ {0}
  BY Graph DEF Layer
<1>2. k \in Produced(next)
  <2>1. CASE k \in InputTensors
    BY <2>1 DEF Produced
  <2>2. CASE \E m \in Layer : k \in OutputsOf(m) /\ (f.to = OutputNode \/ m < f.to)
    <3>1. PICK m \in Layer : k \in OutputsOf(m) /\ m < next
      BY <1>1, <2>2 DEF OutputNode
    <3>2. m \in 1 .. (next - 1)
      BY <1>1, <3>1 DEF Layer
    <3> QED BY <3>1, <3>2 DEF Produced
  <2> QED BY <2>1, <2>2, ForwardOrder
<1>3. uses[k] > 0
  <2>1. f \in Later(k, next)
    BY <1>1 DEF Later, FeedsOf
  <2>2. Later(k, next) \subseteq FeedsOf(k) /\ FeedsOf(k) \cap FeedsInto(OutputNode) \subseteq FeedsOf(k)
    BY DEF Later
  <2>3. /\ Cardinality(Later(k, next)) \in Nat \ {0}
        /\ Cardinality(FeedsOf(k) \cap FeedsInto(OutputNode)) \in Nat
    BY <2>1, <2>2, LinksCounted
  <2>4. uses[k] = Cardinality(Later(k, next)) + Cardinality(FeedsOf(k) \cap FeedsInto(OutputNode))
    BY <1>1 DEF Counted
  <2> QED BY <2>3, <2>4
<1> QED BY <1>2, <1>3 DEF DataKept

\* Nothing but "ending" moves, or the saver stops: the rest is untouched.
LEMMA QuietKeeps ==
    ASSUME IInv, UNCHANGED <<store, worker, state, run, next, data, uses, queue, faults, crashes, unflushed>>,
           run # None, ending' \in {"traced", "erred"},
           ending' = "traced" => next = NumLayers + 1,
           ending # "erred" \/ ending' = "erred",
           saver' = saver \/ (saver = "on" /\ saver' = "done" /\ queue = <<>>)
    PROVE  IInv'
<1>1. TypeOK'
  BY DEF IInv, TypeOK, StoreTypeOK, store
<1>2. InOrder'
  BY DEF IInv, InOrder, TypeOK
<1>3. OneActive' /\ ~Running'
  BY DEF IInv, OneActive, Active, Apart, Running
<1>4. Counted' /\ DataKept'
  BY <1>3 DEF Counted, DataKept
<1>5. SavedOrSent'
  <2>1. \A r, k : Saved(r, k) => Saved(r, k)'
    BY DEF Saved, store
  <2> QED BY <2>1 DEF IInv, SavedOrSent, Apart, store
<1>6. Owned'
  BY DEF IInv, Owned, store
<1> QED BY <1>1, <1>2, <1>3, <1>4, <1>5, <1>6 DEF IInv

LEMMA LayerKeeps == ASSUME IInv, RunLayer PROVE IInv'
<1>0. run # None /\ ending = "not yet" /\ next \in Layer
  BY DEF RunLayer, Running
<1>1. CASE saver = "failed" /\ End("erred") /\ UNCHANGED <<next, data, uses, queue>>
  BY <1>0, <1>1, QuietKeeps DEF RunLayer, End
<1>2. CASE /\ saver = "on"
           /\ queue' = queue \o Sent(next)
           /\ uses' = UsesAfter(next)
           /\ data' = (data \cup OutputsOf(next)) \ Dried(next)
           /\ next' = next + 1
           /\ UNCHANGED ending
  <2>0. /\ UNCHANGED <<store, worker, state, run, saver, faults, crashes, unflushed>>
        /\ next \in Nat \ {0} /\ NumLayers \in Nat
        /\ queue \in Seq(Tensor) /\ Sent(next) \in Seq(Tensor)
        /\ OutputsOf(next) \subseteq Tensor
        /\ InputsOf(next) \subseteq data
        /\ Running /\ Running' /\ data \subseteq Tensor
        /\ next <= NumLayers
    <3>1. next \in Nat \ {0} /\ NumLayers \in Nat /\ next <= NumLayers
      <4>1. NumLayers \in Nat
        BY Graph
      <4>2. next \in 1 .. NumLayers
        BY <1>0 DEF Layer
      <4> QED BY <4>1, <4>2
    <3>2. /\ UNCHANGED <<store, worker, state, run, saver, faults, crashes, unflushed>>
          /\ InputsOf(next) \subseteq data
      BY DEF RunLayer
    <3>3. Running /\ Running'
      BY <1>0, <1>2, <3>2 DEF Running
    <3>4. queue \in Seq(Tensor) /\ data \subseteq Tensor
      BY DEF IInv, TypeOK
    <3> QED BY <1>0, <3>1, <3>2, <3>3, <3>4, TensorsTyped
  <2>1. ASSUME NEW k \in Tensor
        PROVE  /\ uses'[k] = Cardinality(Later(k, next + 1))
                              + Cardinality(FeedsOf(k) \cap FeedsInto(OutputNode))
               /\ uses'[k] \in Nat
               /\ uses'[k] = uses[k] - Cardinality(FeedsOf(k) \cap FeedsInto(next))
               /\ k \notin InputsOf(next) => uses'[k] = uses[k]
    <3>1. uses[k] = Cardinality(Later(k, next)) + Cardinality(FeedsOf(k) \cap FeedsInto(OutputNode))
      BY <2>0 DEF IInv, Counted
    <3>2. uses'[k] = uses[k] - Cardinality(FeedsOf(k) \cap FeedsInto(next))
      BY <1>2 DEF UsesAfter
    <3>3. Cardinality(FeedsOf(k) \cap FeedsInto(OutputNode)) \in Nat
      BY LinksCounted
    <3>4. /\ Cardinality(FeedsOf(k) \cap FeedsInto(next)) \in Nat
          /\ Cardinality(Later(k, next + 1)) \in Nat
          /\ Cardinality(Later(k, next)) = Cardinality(Later(k, next + 1))
                                             + Cardinality(FeedsOf(k) \cap FeedsInto(next))
      BY <1>0, LayerReads
    <3>5. k \notin InputsOf(next) => Cardinality(FeedsOf(k) \cap FeedsInto(next)) = 0
      <4>1. k \notin InputsOf(next) => FeedsOf(k) \cap FeedsInto(next) = {}
        BY DEF InputsOf, FeedsOf, FeedsInto
      <4> QED BY <4>1, LinksCounted
    <3> HIDE DEF InputsOf
    <3> QED BY <3>1, <3>2, <3>3, <3>4, <3>5
  <2>2. TypeOK'
    <3>1. next' \in 1 .. (NumLayers + 1)
      <4>1. next + 1 \in 1 .. (NumLayers + 1)
        BY <2>0
      <4> QED BY <1>2, <4>1
    <3>2. uses' \in [Tensor -> Nat]
      <4>1. DOMAIN uses' = Tensor /\ uses' = [k \in Tensor |-> uses'[k]]
        BY <1>2 DEF UsesAfter
      <4> QED BY <4>1, <2>1
    <3>3. queue' \in Seq(Tensor)
      BY <1>2, <2>0, RangeConcat
    <3>4. data' \subseteq Tensor
      BY <1>2, <2>0
    <3> QED BY <1>0, <1>2, <2>0, <3>1, <3>2, <3>3, <3>4 DEF IInv, TypeOK, StoreTypeOK, store
  <2>3. InOrder' /\ OneActive' /\ Owned'
    BY <1>0, <1>2, <2>0 DEF IInv, InOrder, OneActive, Active, Apart, Owned, store
  <2>4. Counted'
    BY <1>2, <2>0, <2>1 DEF Counted
  <2>5. DataKept'
    <3>1. Produced(next') = Produced(next) \cup OutputsOf(next)
      BY <1>2, <2>0, SentLater
    <3>2. data = {k \in Produced(next) : uses[k] > 0}
      BY <2>0 DEF IInv, DataKept
    <3>3. Dried(next) = {k \in InputsOf(next) \cup OutputsOf(next) : uses'[k] = 0}
      BY <1>2 DEF Dried
    <3>4. Produced(next) \subseteq Tensor
      <4>1. 1 .. (next - 1) \subseteq Layer
        BY <2>0 DEF Layer
      <4> QED BY <4>1, TensorsTyped DEF Produced
    <3>5. data' = {k \in Produced(next) \cup OutputsOf(next) : uses'[k] > 0}
      <4>1. ASSUME NEW k \in data' PROVE k \in Produced(next) \cup OutputsOf(next) /\ uses'[k] > 0
        <5>1. k \in Tensor /\ uses[k] \in Nat /\ uses'[k] \in Nat
          BY <2>0, <2>1, <2>2, <4>1 DEF IInv, TypeOK
        <5>2. CASE k \in data
          <6>1. k \notin Dried(next) /\ k \in Produced(next) /\ uses[k] > 0
            BY <1>2, <3>2, <4>1, <5>2
          <6>2. k \in InputsOf(next) => uses'[k] # 0
            BY <3>3, <6>1
          <6>3. k \notin InputsOf(next) => uses'[k] = uses[k]
            BY <2>1, <5>1
          <6> HIDE DEF InputsOf
          <6> QED BY <5>1, <6>1, <6>2, <6>3
        <5>3. CASE k \in OutputsOf(next)
          BY <1>2, <3>3, <4>1, <5>1, <5>3
        <5> QED BY <1>2, <4>1, <5>2, <5>3
      <4>2. ASSUME NEW k \in Produced(next) \cup OutputsOf(next), uses'[k] > 0 PROVE k \in data'
        <5>1. k \in Tensor /\ uses[k] \in Nat /\ uses'[k] \in Nat
          BY <2>0, <2>1, <3>4 DEF IInv, TypeOK
        <5>2. k \notin Dried(next)
          BY <3>3, <4>2, <5>1
        <5>3. k \in data \cup OutputsOf(next)
          <6>1. CASE k \in OutputsOf(next) \cup InputsOf(next)
            BY <2>0, <6>1
          <6>2. CASE k \notin OutputsOf(next) \cup InputsOf(next)
            <7>1. k \in Produced(next) /\ uses'[k] = uses[k]
              BY <2>1, <5>1, <6>2
            <7> QED BY <3>2, <4>2, <7>1
          <6> QED BY <6>1, <6>2
        <5> QED BY <1>2, <5>2, <5>3
      <4> QED BY <4>1, <4>2
    <3> QED BY <3>1, <3>5 DEF DataKept
  <2>6. SavedOrSent'
    <3>1. SentSoFar(next') = SentSoFar(next) \cup Range(Sent(next))
      BY <1>2, <2>0, SentLater
    <3>2. Range(queue') = Range(queue) \cup Range(Sent(next))
      BY <1>2, <2>0, RangeConcat
    <3>3. \A r, k : Saved(r, k) => Saved(r, k)'
      BY <2>0 DEF Saved, store
    <3> QED BY <1>0, <1>2, <2>0, <3>1, <3>2, <3>3 DEF IInv, SavedOrSent, Apart, store
  <2> QED BY <2>2, <2>3, <2>4, <2>5, <2>6 DEF IInv
<1> QED BY <1>1, <1>2 DEF RunLayer

LEMMA EndsKeep == ASSUME IInv, LayerFails \/ BuildTrace \/ SaverReturns PROVE IInv'
<1>1. ASSUME LayerFails PROVE IInv'
  BY <1>1, QuietKeeps DEF LayerFails, Running, End
<1>2. ASSUME BuildTrace PROVE IInv'
  <2>1. next = NumLayers + 1
    <3>1. next \in 1 .. (NumLayers + 1) /\ next > NumLayers
      BY <1>2 DEF BuildTrace, IInv, TypeOK
    <3> QED BY <3>1, Graph
  <2> QED BY <1>2, <2>1, QuietKeeps DEF BuildTrace, Running, End
<1>3. ASSUME SaverReturns PROVE IInv'
  <2>1. run # None /\ ending \in {"traced", "erred"} /\ (ending = "traced" => next = NumLayers + 1)
    BY <1>3 DEF SaverReturns, IInv, InOrder, TypeOK
  <2> QED BY <1>3, <2>1, QuietKeeps DEF SaverReturns
<1> QED BY <1>1, <1>2, <1>3

---------------------------------------------------------------------------
\* The effect of a store on the other tensors, and on its own.
LEMMA StoreEffect ==
    ASSUME StoreTypeOK, NEW r \in Run, NEW k \in Tensor, NEW outcome \in Outcomes,
           StoreBytes(r, k, outcome), unflushed' = (unflushed \/ outcome = "not flushed")
    PROVE  /\ \A s \in Run : s # r => storage'[s] = storage[s]
           /\ storage'[r] = storage[r] \cup {k}
           /\ \A j \in Tensor : j # k => files'[j] = files[j]
           /\ outcome # "not created" => files'[k] # None
           /\ files[k] # None => files'[k] # None
           /\ \A j \in Tensor : j # k /\ Saved(r, j) => Saved(r, j)'
           /\ ~ReportsError(outcome) => Saved(r, k)'
<1>1. /\ \A s \in Run : s # r => storage'[s] = storage[s]
      /\ storage'[r] = storage[r] \cup {k}
  BY DEF StoreBytes, StoreTypeOK
<1>2. \A j \in Tensor : j # k => files'[j] = files[j]
  BY DEF StoreBytes, StoreTypeOK, RootedAt
<1>3. /\ outcome # "not created" => files'[k] \in {<<r, k>>, Torn}
      /\ outcome = "not created" => files' = files
      /\ outcome = "stored" => files'[k] = <<r, k>>
      /\ outcome = "not flushed" => files'[k] = Torn
  BY DEF StoreBytes, StoreTypeOK, RootedAt
<1>4. <<r, k>> # None /\ Torn # None /\ <<r, k>> \in Page
  BY MarkersAreNotData DEF Page
<1>5. /\ \A j \in Tensor : j # k => cache'[<<r, j>>] \in {None, cache[<<r, j>>]}
      /\ ~ReportsError(outcome) => cache'[<<r, k>>] = <<r, k>>
  <2>1. CASE outcome \in {"stored", "not flushed"}
    <3>1. Put(r, k, <<r, k>>)
      BY <2>1 DEF StoreBytes
    <3> QED BY <1>4, <3>1, PutType
  <2>2. CASE outcome \in {"not created", "not written"}
    BY <2>2 DEF StoreBytes, ReportsError
  <2> QED BY <2>1, <2>2 DEF Outcomes
<1>6. ASSUME NEW j \in Tensor, j # k, Saved(r, j) PROVE Saved(r, j)'
  BY <1>1, <1>2, <1>5, <1>6, SavedStays
<1>7. ASSUME ~ReportsError(outcome) PROVE Saved(r, k)'
  <2>1. outcome = "stored" \/ (outcome = "not flushed" /\ unflushed')
    BY <1>7 DEF Outcomes, ReportsError
  <2> QED BY <1>1, <1>3, <1>5, <1>7, <2>1 DEF Saved
<1> QED BY <1>1, <1>2, <1>3, <1>4, <1>6, <1>7

LEMMA SaveKeeps == ASSUME IInv, SaveTensor PROVE IInv'
<1>12. PICK k : k = Head(queue)
  OBVIOUS
<1>13. PICK r : r = run
  OBVIOUS
<1>0. /\ saver = "on" /\ r # None /\ r \in Run /\ state[r] = "running"
      /\ run = r /\ run' = r
      /\ k \in Tensor /\ Tail(queue) \in Seq(Tensor)
      /\ Range(queue) = {k} \cup Range(Tail(queue))
      /\ UNCHANGED <<worker, state, run, next, data, uses, ending, crashes>>
  <2>1. saver = "on" /\ queue # <<>> /\ UNCHANGED <<worker, state, run, next, data, uses, ending, crashes>>
    BY DEF SaveTensor
  <2>2. queue \in Seq(Tensor)
    BY DEF IInv, TypeOK
  <2>3. run # None /\ run \in Run /\ state[run] = "running"
    BY <2>1 DEF IInv, InOrder
  <2> QED BY <1>12, <1>13, <2>1, <2>2, <2>3, RangeTail
<1>1. PICK outcome \in Outcomes :
          /\ faults' = faults \/ (faults < MaxFaults /\ faults' = faults + 1)
          /\ unflushed' = (unflushed \/ outcome = "not flushed")
          /\ StoreBytes(r, k, outcome)
          /\ \/ ReportsError(outcome) /\ saver' = "failed" /\ queue' = <<>>
             \/ ~ReportsError(outcome) /\ saver' = saver /\ queue' = Tail(queue)
  BY Zenon, <1>12, <1>13 DEF SaveTensor
<1>9. /\ faults' = faults \/ (faults < MaxFaults /\ faults' = faults + 1)
      /\ saver' = "failed" \/ ~ReportsError(outcome)
  BY Zenon, <1>1
<1>10. /\ queue' = <<>> \/ queue' = Tail(queue)
       /\ saver' \in {"failed", saver}
       /\ saver' = "failed" => queue' = <<>> \/ saver = "failed"
       /\ saver' = "failed" \/ queue' = Tail(queue)
  BY Zenon, <1>1
<1>11. StoreBytes(r, k, outcome) /\ unflushed' = (unflushed \/ outcome = "not flushed")
  BY Zenon, <1>1
<1>2. StoreTypeOK
  BY DEF IInv, TypeOK
<1>3. /\ \A s \in Run : s # r => storage'[s] = storage[s]
      /\ storage'[r] = storage[r] \cup {k}
      /\ \A j \in Tensor : j # k => files'[j] = files[j]
      /\ outcome # "not created" => files'[k] # None
      /\ files[k] # None => files'[k] # None
      /\ \A j \in Tensor : j # k /\ Saved(r, j) => Saved(r, j)'
      /\ ~ReportsError(outcome) => Saved(r, k)'
  <2> QED BY <1>0, <1>2, <1>11, StoreEffect
<1>4. TypeOK'
  <2>1. StoreTypeOK'
    BY <1>0, <1>2, <1>11, StoreType
  <2>2. faults' \in 0 .. MaxFaults
    <3>1. faults \in 0 .. MaxFaults /\ MaxFaults \in Nat
      BY Graph DEF IInv, TypeOK
    <3> QED BY <1>9, <3>1
  <2>3. queue' \in Seq(Tensor) /\ saver' \in {"off", "on", "done", "failed"}
    <3>1. <<>> \in Seq(Tensor)
      OBVIOUS
    <3>2. queue' \in Seq(Tensor)
      BY Zenon, <1>0, <1>10, <3>1
    <3> QED BY <1>0, <1>10, <3>2
  <2>4. unflushed' \in BOOLEAN
    BY <1>11
  <2> QED BY <1>0, <2>1, <2>2, <2>3, <2>4 DEF IInv, TypeOK
<1>5. InOrder'
  BY <1>0, <1>10 DEF IInv, InOrder
<1>6. OneActive' /\ Counted' /\ DataKept'
  BY <1>0 DEF IInv, OneActive, Active, Apart, Counted, DataKept, Running
<1>7. SavedOrSent'
  <2> SUFFICES ASSUME Apart
               PROVE  /\ ~poisoned'
                      /\ \A s \in Run : state[s] # "traced"
                      /\ ending # "erred" /\ saver' # "failed" =>
                            \A j \in SentSoFar(next) : j \in Range(queue') \/ Saved(r, j)'
    BY <1>0 DEF SavedOrSent, Apart, Saved
  <2>1. ~poisoned'
    BY <1>11 DEF IInv, SavedOrSent, StoreBytes
  <2>2. \A s \in Run : state[s] # "traced"
    BY <1>0 DEF IInv, OneActive, Active
  <2>3. ASSUME ending # "erred", saver' # "failed", NEW j \in SentSoFar(next)
        PROVE  j \in Range(queue') \/ Saved(r, j)'
    <3>1. ~ReportsError(outcome) /\ queue' = Tail(queue)
      BY <1>9, <1>10, <2>3
    <3>2. j \in {k} \cup Range(Tail(queue)) \/ Saved(r, j)
      BY <1>0, <2>3 DEF IInv, SavedOrSent
    <3>3. CASE j = k
      BY <1>3, <3>1, <3>3
    <3>4. CASE j \in Range(Tail(queue))
      BY <3>1, <3>4
    <3>5. CASE Saved(r, j)
      <4>1. j \in Tensor
        BY <1>0, <1>2, <3>5 DEF Saved, StoreTypeOK
      <4> QED BY <1>3, <3>1, <3>3, <3>5, <4>1
    <3> QED BY <3>2, <3>3, <3>4, <3>5
  <2> QED BY <2>1, <2>2, <2>3
<1>8. Owned'
  <2> SUFFICES ASSUME worker = "job", crashes = 0 PROVE Owned'
    BY <1>0 DEF Owned
  <2>1. ASSUME NEW j \in Tensor, files'[j] # None
        PROVE  \E s \in Run : state[s] \in {"running", "traced", "erred", "panicked"} /\ j \in storage'[s]
    <3>1. CASE j = k
      BY <1>0, <1>3, <3>1
    <3>2. CASE j # k
      <4>1. PICK s \in Run : state[s] \in {"running", "traced", "erred", "panicked"} /\ j \in storage[s]
        BY <1>3, <2>1, <3>2 DEF IInv, Owned
      <4> QED BY <1>3, <4>1
    <3> QED BY <3>1, <3>2
  <2>2. ASSUME NEW s \in Run, state[s] \in {"new", "over"} PROVE storage'[s] = {}
    BY <1>0, <1>3, <2>2 DEF IInv, Owned
  <2>3. ASSUME NEW s \in Run, state[s] \in {"traced", "erred"} \/ (state[s] = "running" /\ saver' # "failed"),
               NEW j \in storage'[s]
        PROVE  files'[j] # None
    <3>1. CASE s = r
      <4>1. outcome # "not created" /\ saver # "failed"
        BY <1>0, <1>9, <2>3, <3>1 DEF ReportsError
      <4>2. CASE j = k
        BY <1>3, <4>1, <4>2
      <4>3. CASE j # k
        <5>1. j \in storage[r] /\ j \in Tensor
          BY <1>0, <1>2, <1>3, <2>3, <3>1, <4>3 DEF StoreTypeOK
        <5>2. files[j] # None
          BY <1>0, <4>1, <5>1 DEF IInv, Owned
        <5> QED BY <1>3, <4>3, <5>1, <5>2
      <4> QED BY <4>2, <4>3
    <3>2. CASE s # r
      <4>1. j \in storage[s] /\ j \in Tensor
        BY <1>2, <1>3, <2>3, <3>2 DEF StoreTypeOK
      <4>2. files[j] # None
        BY <1>0, <2>3, <3>2, <4>1 DEF IInv, Owned, InOrder
      <4> QED BY <1>3, <4>1, <4>2
    <3> QED BY <3>1, <3>2
  <2> QED BY <1>0, <2>1, <2>2, <2>3 DEF Owned
<1> QED BY <1>4, <1>5, <1>6, <1>7, <1>8 DEF IInv

---------------------------------------------------------------------------
LEMMA JoinKeeps == ASSUME IInv, JoinSaver PROVE IInv'
<1>1. PICK r : r = run
  OBVIOUS
<1>2. PICK how : how = IF saver = "failed" THEN "panicked"
                       ELSE IF ending = "erred" /\ worker = "plan" THEN "over" ELSE ending
  OBVIOUS
<1>3. /\ ending # "not yet" /\ saver \in {"done", "failed"}
      /\ state' = [state EXCEPT ![r] = how]
      /\ run' = None /\ data' = {} /\ saver' = "off" /\ ending' = "not yet"
      /\ UNCHANGED <<store, worker, next, uses, queue, faults, crashes, unflushed>>
  BY Zenon, <1>1, <1>2 DEF JoinSaver
<1>4. r \in Run /\ r = run /\ state[r] = "running" /\ r # None /\ queue = <<>>
      /\ \A s \in Run : state[s] = "running" => s = r
  BY <1>1, <1>3 DEF IInv, InOrder
<1>5. /\ how \in {"panicked", "over", "traced", "erred"}
      /\ how \in {"traced", "erred"} => saver = "done" /\ how = ending
      /\ how = "over" => worker = "plan"
  BY <1>2, <1>3 DEF IInv, TypeOK
<1>6. /\ state'[r] = how /\ \A s \in Run : s # r => state'[s] = state[s]
      /\ state' \in [Run -> {"new", "running", "traced", "erred", "over", "panicked", "lost"}]
  BY <1>3, <1>4, <1>5 DEF IInv, TypeOK
<1>7. \A s, k : Saved(s, k) => Saved(s, k)'
  BY <1>3 DEF Saved, store
<1>8. TypeOK'
  BY <1>3, <1>6 DEF IInv, TypeOK, StoreTypeOK, store
<1>9. InOrder'
  <2>1. \A s \in Run : state'[s] # "running"
    BY <1>4, <1>5, <1>6
  <2> QED BY <1>3, <1>4, <2>1 DEF InOrder
<1>10. OneActive'
  <2>1. \A s \in Run : s \in Active' => s \in Active
    BY <1>4, <1>6 DEF Active
  <2>2. Apart' => Apart
    BY <1>3 DEF Apart
  <2> QED BY <2>1, <2>2 DEF IInv, OneActive, Active
<1>11. Counted' /\ DataKept'
  BY <1>3 DEF Counted, DataKept, Running
<1>12. SavedOrSent'
  <2> SUFFICES ASSUME Apart
               PROVE  /\ ~poisoned
                      /\ \A s \in Run : state'[s] = "traced" => \A k \in TraceTensors : Saved(s, k)
    BY <1>3, <1>7 DEF SavedOrSent, Apart, store
  <2>1. ~poisoned
    BY DEF IInv, SavedOrSent
  <2>2. ASSUME NEW s \in Run, state'[s] = "traced", NEW k \in TraceTensors PROVE Saved(s, k)
    <3>1. CASE s = r
      <4>1. ending = "traced" /\ saver = "done"
        BY <1>5, <1>6, <2>2, <3>1
      <4>2. next = NumLayers + 1
        BY <4>1 DEF IInv, InOrder
      <4>3. \A j \in SentSoFar(next) : j \in Range(queue) \/ Saved(r, j)
        BY <1>4, <4>1 DEF IInv, SavedOrSent
      <4>4. Range(queue) = {}
        BY <1>4 DEF Range
      <4> QED BY <3>1, <4>2, <4>3, <4>4, SentAtEnds
    <3>2. CASE s # r
      BY <1>6, <2>2, <3>2 DEF IInv, SavedOrSent
    <3> QED BY <3>1, <3>2
  <2> QED BY <2>1, <2>2
<1>13. Owned'
  <2> SUFFICES ASSUME worker = "job", crashes = 0 PROVE Owned'
    BY <1>3 DEF Owned
  <2>1. how \in {"panicked", "traced", "erred"}
    BY <1>5
  <2>2. ASSUME NEW k \in Tensor, files[k] # None
        PROVE  \E s \in Run : state'[s] \in {"running", "traced", "erred", "panicked"} /\ k \in storage[s]
    <3>1. PICK s \in Run : state[s] \in {"running", "traced", "erred", "panicked"} /\ k \in storage[s]
      BY <2>2 DEF IInv, Owned
    <3> QED BY <1>6, <2>1, <3>1
  <2>3. ASSUME NEW s \in Run, state'[s] \in {"new", "over"} PROVE storage[s] = {}
    BY <1>6, <2>1, <2>3 DEF IInv, Owned
  <2>4. ASSUME NEW s \in Run, state'[s] \in {"traced", "erred", "running"}, NEW k \in storage[s]
        PROVE  files[k] # None
    <3>1. CASE s = r
      <4>1. saver # "failed"
        BY <1>5, <1>6, <2>4, <3>1
      <4> QED BY <1>4, <2>4, <3>1, <4>1 DEF IInv, Owned
    <3>2. CASE s # r
      <4>1. state[s] \in {"traced", "erred"}
        BY <1>4, <1>6, <2>4, <3>2
      <4> QED BY <2>4, <4>1 DEF IInv, Owned
    <3> QED BY <3>1, <3>2
  <2> QED BY <1>3, <2>2, <2>3, <2>4 DEF Owned, store
<1> QED BY <1>8, <1>9, <1>10, <1>11, <1>12, <1>13 DEF IInv

\* A run that has ended: "over" takes it out of what the invariant is about.
LEMMA OverKeeps ==
    ASSUME IInv, NEW r \in Run, state[r] \in {"traced", "erred"},
           \/ state' = state
           \/ state' = [state EXCEPT ![r] = "over"]
              /\ (worker = "job" => CleanUp(r)),
           worker = "job" => state'[r] = "over",
           StoreTypeOK', Apart => ~poisoned',
           worker = "plan" => \A s, k : Apart /\ s = r /\ k \in TraceTensors => Saved(s, k)',
           UNCHANGED <<worker, inference, faults, crashes, unflushed>>
    PROVE  IInv'
<1>1. UNCHANGED <<worker, run, next, data, uses, queue, saver, ending, faults, crashes, unflushed>>
  BY DEF inference
<1>2. /\ \A s \in Run : s # r => state'[s] = state[s]
      /\ state'[r] \in {state[r], "over"}
      /\ state' \in [Run -> {"new", "running", "traced", "erred", "over", "panicked", "lost"}]
  BY DEF IInv, TypeOK
<1>3. TypeOK'
  BY <1>1, <1>2 DEF IInv, TypeOK
<1>4. InOrder'
  <2>1. run # r
    BY NoRun DEF IInv, InOrder
  <2>2. \A s \in Run : state'[s] = "running" <=> state[s] = "running"
    BY <1>2
  <2> QED BY <1>1, <2>1, <2>2 DEF IInv, InOrder
<1>5. OneActive'
  <2>1. \A s \in Run : s \in Active' => s \in Active
    BY <1>2 DEF Active
  <2>2. Apart' => Apart
    BY <1>1 DEF Apart
  <2> QED BY <2>1, <2>2 DEF IInv, OneActive, Active
<1>6. Counted' /\ DataKept'
  BY <1>1 DEF IInv, Counted, DataKept, Running
<1>7. Apart => run = None /\ \A s \in Run : s # r => state[s] \notin {"running", "traced", "erred"}
  <2> SUFFICES ASSUME Apart
               PROVE  run = None /\ \A s \in Run : s # r => state[s] \notin {"running", "traced", "erred"}
    OBVIOUS
  <2>1. \A s \in Run : state[s] \in {"running", "traced", "erred"} => s = r
    BY DEF IInv, OneActive, Active
  <2>2. run # None => run \in Run /\ state[run] = "running"
    BY DEF IInv, InOrder
  <2> QED BY <2>1, <2>2
<1>8. SavedOrSent'
  <2> SUFFICES ASSUME Apart, NEW s \in Run, state'[s] = "traced", NEW k \in TraceTensors
               PROVE  Saved(s, k)'
    BY <1>1, <1>7 DEF SavedOrSent, Apart
  <2>1. s = r
    BY <1>2, <1>7
  <2>2. worker = "plan"
    BY <2>1 DEF IInv, TypeOK
  <2> QED BY <2>1, <2>2
<1>9. Owned'
  <2> SUFFICES ASSUME worker = "job", crashes = 0 PROVE Owned'
    BY <1>1 DEF Owned
  <2>1. Apart /\ state'[r] = "over" /\ CleanUp(r)
    BY DEF Apart
  <2>2. \A s \in Run : s # r => state[s] \notin {"running", "traced", "erred"}
    BY <1>7, <2>1
  <2>3. storage'[r] = {} /\ \A s \in Run : s # r => storage'[s] = storage[s]
    BY <2>1 DEF CleanUp, IInv, TypeOK, StoreTypeOK
  <2>4. storage[r] \subseteq Tensor /\ \A k \in storage[r] : files[k] # None
    BY DEF IInv, Owned, TypeOK, StoreTypeOK
  <2>5. \A k \in Tensor : files'[k] = IF k \in storage[r] THEN None ELSE files[k]
    <3>1. {RootedAt(r, k) : k \in storage[r]} = storage[r]
      BY DEF RootedAt
    <3>2. PICK removed \in SUBSET {k \in storage[r] : files[k] # None} :
              /\ (\A k \in storage[r] : files[k] # None) => removed = storage[r]
              /\ files' = [k \in Tensor |-> IF k \in removed THEN None ELSE files[k]]
      BY <2>1, <3>1 DEF CleanUp
    <3> QED BY <2>4, <3>2
  <2>6. ASSUME NEW k \in Tensor, files'[k] # None
        PROVE  \E s \in Run : state'[s] \in {"running", "traced", "erred", "panicked"} /\ k \in storage'[s]
    <3>1. k \notin storage[r] /\ files[k] # None
      BY <2>5, <2>6
    <3>2. PICK s \in Run : state[s] \in {"running", "traced", "erred", "panicked"} /\ k \in storage[s]
      BY <3>1 DEF IInv, Owned
    <3> QED BY <1>2, <2>3, <3>1, <3>2
  <2>7. ASSUME NEW s \in Run, state'[s] \in {"new", "over"} PROVE storage'[s] = {}
    BY <1>2, <2>3, <2>7 DEF IInv, Owned
  <2>8. \A s \in Run : state'[s] \notin {"traced", "erred", "running"}
    BY <1>2, <2>1, <2>2
  <2> QED BY <1>1, <2>6, <2>7, <2>8 DEF Owned
<1> QED BY <1>3, <1>4, <1>5, <1>6, <1>8, <1>9 DEF IInv

LEMMA JobKeeps == ASSUME IInv, NEW r \in Run, EndJob(r) PROVE IInv'
<1>1. /\ worker = "job" /\ state[r] \in {"traced", "erred"} /\ CleanUp(r)
      /\ state' = [state EXCEPT ![r] = "over"]
      /\ UNCHANGED <<worker, inference, faults, crashes, unflushed>>
  BY DEF EndJob
<1>2. StoreTypeOK' /\ poisoned' = poisoned /\ state'[r] = "over"
  BY <1>1, CleanUpType DEF IInv, TypeOK, CleanUp
<1>3. Apart => ~poisoned
  BY DEF IInv, SavedOrSent
<1> QED BY <1>1, <1>2, <1>3, OverKeeps

LEMMA PlanKeeps == ASSUME IInv, NEW r \in Run, PlanEnds(r) PROVE IInv'
<1>1. /\ worker = "plan" /\ state[r] = "traced"
      /\ state' = [state EXCEPT ![r] = "over"]
      /\ UNCHANGED <<store, worker, inference, faults, crashes, unflushed>>
  BY DEF PlanEnds
<1>2. StoreTypeOK' /\ poisoned' = poisoned
  BY <1>1 DEF IInv, TypeOK, StoreTypeOK, store
<1>3. Apart => ~poisoned /\ \A k \in TraceTensors : Saved(r, k)
  BY <1>1 DEF IInv, SavedOrSent
<1>4. \A s, k : Saved(s, k) => Saved(s, k)'
  BY <1>1 DEF Saved, store
<1> QED BY <1>1, <1>2, <1>3, <1>4, OverKeeps

LEMMA LoadKeeps == ASSUME IInv, NEW r \in Run, NEW k \in Tensor, LoadTensor(r, k) PROVE IInv'
<1>1. /\ worker = "plan" /\ state[r] = "traced" /\ k \in TraceTensors
      /\ FetchBytes(r, k)
      /\ state' = state \/ state' = [state EXCEPT ![r] = "over"]
      /\ UNCHANGED <<worker, inference, faults, crashes, unflushed>>
  BY DEF LoadTensor
<1>2. StoreTypeOK /\ StoreTypeOK' /\ Answer(r, k) \in Page \cup {None}
  BY <1>1, FetchType, AnswerType DEF IInv, TypeOK
<1>3. storage' = storage /\ files' = files /\ unflushed' = unflushed
  BY <1>1 DEF FetchBytes
<1>4. ASSUME Apart PROVE ~poisoned' /\ \A j \in TraceTensors : Saved(r, j)'
  <2>1. ~poisoned /\ \A j \in TraceTensors : Saved(r, j)
    BY <1>1, <1>4 DEF IInv, SavedOrSent
  <2>2. Answer(r, k) = <<r, k>> \/ (unflushed /\ Answer(r, k) = Torn)
    BY <1>1, <2>1 DEF Answer, Saved, RootedAt
  <2>3. Answer(r, k) # None
    BY <2>2, MarkersAreNotData
  <2>4. ~poisoned'
    BY <1>1, <2>1, <2>3 DEF FetchBytes, FilePanics
  <2>5. ASSUME NEW j \in TraceTensors PROVE Saved(r, j)'
    <3>1. j \in Tensor /\ Saved(r, j)
      BY <2>1, TensorsTyped
    <3>2. CASE Answer(r, k) # None /\ cache[<<r, k>>] = None
      <4>1. Put(r, k, Answer(r, k)) /\ Answer(r, k) \in Page
        BY <1>1, <1>2, <3>2 DEF FetchBytes
      <4>2. /\ cache'[<<r, k>>] = Answer(r, k)
            /\ \A q \in Run \X Tensor : q # <<r, k>> => cache'[q] \in {None, cache[q]}
        BY <1>2, <4>1, PutType
      <4>3. CASE j = k
        BY <1>3, <2>2, <3>1, <4>2, <4>3 DEF Saved
      <4>4. CASE j # k
        BY <1>3, <3>1, <4>2, <4>4, SavedStays
      <4> QED BY <4>3, <4>4
    <3>3. CASE ~(Answer(r, k) # None /\ cache[<<r, k>>] = None)
      <4>1. cache' = cache
        BY <1>1, <3>3 DEF FetchBytes
      <4> QED BY <1>3, <3>1, <4>1 DEF Saved
    <3> QED BY <3>2, <3>3
  <2> QED BY <2>4, <2>5
<1> QED BY <1>1, <1>2, <1>4, OverKeeps

LEMMA CrashKeeps == ASSUME IInv, Crash PROVE IInv'
<1>1. /\ crashes < MaxCrashes /\ crashes' = crashes + 1 /\ Reopen
      /\ state' = [r \in Run |-> IF state[r] \in {"new", "over"} THEN state[r] ELSE "lost"]
      /\ run' = None /\ data' = {} /\ queue' = <<>>
      /\ saver' = "off" /\ ending' = "not yet"
      /\ UNCHANGED <<worker, next, uses, faults, unflushed>>
  BY DEF Crash
<1>8. crashes < MaxCrashes /\ crashes' = crashes + 1 /\ queue' = <<>>
  BY Zenon, <1>1
<1>2. /\ \A r \in Run : state'[r] \in {"new", "over", "lost"}
      /\ state' \in [Run -> {"new", "running", "traced", "erred", "over", "panicked", "lost"}]
  BY <1>1
<1>3. TypeOK'
  <2>1. crashes' \in 0 .. MaxCrashes /\ crashes' # 0
    <3>1. crashes \in 0 .. MaxCrashes /\ MaxCrashes \in Nat
      BY Graph DEF IInv, TypeOK
    <3> QED BY <1>8, <3>1
  <2>2. StoreTypeOK'
    BY <1>1, ReopenType DEF IInv, TypeOK
  <2>3. queue' \in Seq(Tensor)
    BY <1>8
  <2> QED BY <1>1, <1>2, <2>1, <2>2, <2>3 DEF IInv, TypeOK
<1>4. InOrder' /\ OneActive'
  BY <1>1, <1>2 DEF InOrder, OneActive, Active
<1>5. Counted' /\ DataKept'
  BY <1>1 DEF Counted, DataKept, Running
<1>6. SavedOrSent'
  BY <1>1, <1>2 DEF SavedOrSent, Reopen
<1>7. Owned'
  <2>1. crashes' # 0
    <3>1. crashes \in 0 .. MaxCrashes /\ MaxCrashes \in Nat
      BY Graph DEF IInv, TypeOK
    <3> QED BY <1>8, <3>1
  <2> QED BY <2>1 DEF Owned
<1> QED BY <1>3, <1>4, <1>5, <1>6, <1>7 DEF IInv

---------------------------------------------------------------------------
LEMMA NextIInv == IInv /\ [Next]_vars => IInv'
<1> SUFFICES ASSUME IInv, [Next]_vars PROVE IInv'
  OBVIOUS
<1>1. CASE \E r \in Run : StartRun(r) \/ EndJob(r) \/ PlanEnds(r)
  BY <1>1, StartKeeps, JobKeeps, PlanKeeps
<1>2. CASE \E r \in Run, k \in Tensor : LoadTensor(r, k)
  BY <1>2, LoadKeeps
<1>3. CASE InferenceThread
  BY <1>3, LayerKeeps, EndsKeep, JoinKeeps DEF InferenceThread
<1>4. CASE SaverThread
  BY <1>4, SaveKeeps, EndsKeep DEF SaverThread
<1>5. CASE Crash
  BY <1>5, CrashKeeps
<1>6. CASE UNCHANGED vars
  <2>1. UNCHANGED <<store, worker, state, run, next, data, uses, queue, saver, ending,
                    faults, crashes, unflushed>>
    BY <1>6 DEF vars, inference
  <2>2. TypeOK' /\ InOrder' /\ OneActive' /\ Counted' /\ DataKept'
    BY <2>1 DEF IInv, TypeOK, StoreTypeOK, store, InOrder, OneActive, Active, Apart,
                Counted, DataKept, Running
  <2>3. SavedOrSent'
    <3>1. \A r, k : Saved(r, k) => Saved(r, k)'
      BY <2>1 DEF Saved, store
    <3> QED BY <2>1, <3>1 DEF IInv, SavedOrSent, Apart, store
  <2>4. Owned'
    BY <2>1 DEF IInv, Owned, store
  <2> QED BY <2>2, <2>3, <2>4 DEF IInv
<1> QED BY <1>1, <1>2, <1>3, <1>4, <1>5, <1>6 DEF Next, Jobs

\* The inductive invariant holds in every state of every behaviour.
THEOREM InferenceInvariance == Spec => []IInv
BY InitIInv, NextIInv, PTL DEF Spec

\* Every variable keeps its type; above all, no use count of a tensor goes
\* below zero where a layer subtracts its reads (a usize, model/mod.rs:1072).
THEOREM InferenceTypeCorrectness == Spec => []TypeOK
<1>1. IInv => TypeOK
  BY DEF IInv
<1> QED BY <1>1, InferenceInvariance, PTL

\* In every model that keeps to the forward order, a layer finds the data of
\* each input in its handle: HandleLifetimeRunner (model/mod.rs:920) counts
\* one use per link, and dries a handle only when none is left.
THEOREM LayersNeverDry == Spec => []LayersReadData
<1>1. IInv => LayersReadData
  BY ReadsData DEF IInv, LayersReadData
<1> QED BY <1>1, InferenceInvariance, PTL

\* No handle keeps the data of a tensor that neither a later layer nor an
\* output node reads: memory is given back after the last use
\* (model/mod.rs:1084).
THEOREM MemoryGivenBack == Spec => []HandlesFreed
<1>1. ASSUME IInv, Running, NEW k \in data
      PROVE  \E f \in FeedsOf(k) : f.to = OutputNode \/ f.to >= next
  <2>1. k \in Tensor /\ uses[k] > 0
    BY <1>1 DEF IInv, TypeOK, DataKept
  <2>2. uses[k] = Cardinality(Later(k, next)) + Cardinality(FeedsOf(k) \cap FeedsInto(OutputNode))
    BY <1>1, <2>1 DEF IInv, Counted
  <2>3. Later(k, next) \subseteq FeedsOf(k) /\ FeedsOf(k) \cap FeedsInto(OutputNode) \subseteq FeedsOf(k)
    BY DEF Later
  <2>4. Later(k, next) # {} \/ FeedsOf(k) \cap FeedsInto(OutputNode) # {}
    <3>1. /\ Later(k, next) = {} => Cardinality(Later(k, next)) = 0
          /\ FeedsOf(k) \cap FeedsInto(OutputNode) = {}
                => Cardinality(FeedsOf(k) \cap FeedsInto(OutputNode)) = 0
      BY <2>3, LinksCounted
    <3> QED BY <2>1, <2>2, <3>1
  <2> QED BY <2>4 DEF Later, FeedsInto
<1>2. IInv => HandlesFreed
  BY <1>1 DEF HandlesFreed
<1> QED BY <1>2, InferenceInvariance, PTL

\* With one run at a time, a trace that Model::run returned can be loaded in
\* full, whatever the cache evicts and whichever stores fail: the drop of the
\* StoreRunner joins the saver, and panics if a store failed
\* (model/mod.rs:567).
THEOREM TracesLoad ==
    ASSUME ~Interleaved PROVE Spec => []TraceReadable
<1>1. IInv => TraceReadable
  <2> SUFFICES ASSUME IInv, NEW r \in Run, NEW k \in TraceTensors, state[r] = "traced"
               PROVE  Answer(r, k) = <<r, k>> \/ (unflushed /\ Answer(r, k) = Torn)
    BY DEF TraceReadable
  <2>1. Apart
    BY DEF Apart
  <2>2. ~poisoned /\ Saved(r, k)
    BY <2>1 DEF IInv, SavedOrSent
  <2> QED BY <2>2 DEF Answer, Saved, RootedAt
<1> QED BY <1>1, InferenceInvariance, PTL

\* When every job of a worker that never crashed is over, in_new_run has
\* removed every key and every file that it stored (tenstore/genstore.rs:178).
THEOREM RunsDiscarded == Spec => []Discarded
<1>1. IInv => Discarded
  <2> SUFFICES ASSUME IInv, worker = "job", \A r \in Run : state[r] \in {"new", "over"}, crashes = 0
               PROVE  /\ \A r \in Run : storage[r] = {}
                      /\ \A k \in Tensor : files[k] = None
    BY DEF Discarded
  <2>1. \A r \in Run : storage[r] = {}
    BY DEF IInv, Owned
  <2>2. \A k \in Tensor : files[k] = None
    BY <2>1 DEF IInv, Owned
  <2> QED BY <2>1, <2>2
<1> QED BY <1>1, InferenceInvariance, PTL
============================================================================
