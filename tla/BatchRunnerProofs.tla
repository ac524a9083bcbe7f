-------------------------- MODULE BatchRunnerProofs --------------------------
(***************************************************************************)
(* Proofs about BatchRunner for every number of processes, threads, files  *)
(* and kills, every batch size and every capacity of the error pipe.       *)
(***************************************************************************)
EXTENDS BatchRunner, SequenceTheorems, FiniteSetTheorems, TLAPS

-----------------------------------------------------------------------------
(* Lemmas about the queue of files.                                        *)

(* The finder sends a whole number of sentinels.                           *)
LEMMA SentinelsType ==
    /\ Sentinels \in Seq(SUBSET Files)
    /\ \A i \in DOMAIN Sentinels : Sentinels[i] = None
<1>1. Cardinality(Procs) \in Nat /\ Cardinality(Threads) \in Nat
  BY BatchRunnerAssumption, FS_CardinalityType
<1>2. Cardinality(Procs) * Cardinality(Threads) \in Nat
  BY <1>1
<1>3. QED
  BY <1>2 DEF Sentinels, None

(* Queueing a batch adds exactly its files.                                *)
LEMMA FilesOfAppend ==
    ASSUME NEW q \in Seq(SUBSET Files), NEW b \in SUBSET Files
    PROVE  /\ Append(q, b) \in Seq(SUBSET Files)
           /\ FilesOf(Append(q, b)) = FilesOf(q) \cup b
<1> DEFINE r == Append(q, b)
<1>1. /\ r \in Seq(SUBSET Files) /\ DOMAIN r = 1..(Len(q) + 1)
      /\ \A i \in 1..Len(q) : r[i] = q[i]
      /\ r[Len(q) + 1] = b
      /\ Len(q) \in Nat /\ DOMAIN q = 1..Len(q)
  OBVIOUS
<1> HIDE DEF r
<1>2. FilesOf(r) \subseteq FilesOf(q) \cup b
  BY <1>1 DEF FilesOf
<1>3. FilesOf(q) \cup b \subseteq FilesOf(r)
  BY <1>1 DEF FilesOf
<1>4. QED
  BY <1>1, <1>2, <1>3 DEF r

(* Reading the oldest element removes exactly its files.                   *)
LEMMA FilesOfTail ==
    ASSUME NEW q \in Seq(SUBSET Files), q # <<>>
    PROVE  /\ Head(q) \in SUBSET Files
           /\ Tail(q) \in Seq(SUBSET Files)
           /\ FilesOf(q) = Head(q) \cup FilesOf(Tail(q))
<1> DEFINE r == Tail(q)
<1>1. /\ r \in Seq(SUBSET Files) /\ Head(q) = q[1] /\ q[1] \in SUBSET Files
      /\ Len(q) \in Nat \ {0} /\ DOMAIN q = 1..Len(q)
      /\ DOMAIN r = 1..(Len(q) - 1)
      /\ \A i \in 1..(Len(q) - 1) : r[i] = q[i + 1]
  OBVIOUS
<1> HIDE DEF r
<1>2. FilesOf(q) \subseteq q[1] \cup FilesOf(r)
  <2> SUFFICES ASSUME NEW i \in 1..Len(q), NEW f \in q[i]
               PROVE  f \in q[1] \cup FilesOf(r)
    BY <1>1 DEF FilesOf
  <2>1. CASE i = 1
    BY <2>1
  <2>2. CASE i # 1
    <3>1. i - 1 \in 1..(Len(q) - 1) /\ r[i - 1] = q[i]
      BY <1>1, <2>2
    <3>2. QED
      BY <1>1, <3>1 DEF FilesOf
  <2>3. QED
    BY <2>1, <2>2
<1>3. q[1] \cup FilesOf(r) \subseteq FilesOf(q)
  <2>1. q[1] \subseteq FilesOf(q)
    BY <1>1 DEF FilesOf
  <2>2. ASSUME NEW i \in 1..(Len(q) - 1)
        PROVE  r[i] \subseteq FilesOf(q)
    <3>1. i + 1 \in DOMAIN q /\ r[i] = q[i + 1]
      BY <1>1
    <3>2. QED
      BY <3>1 DEF FilesOf
  <2>3. QED
    BY <1>1, <2>1, <2>2 DEF FilesOf
<1>4. QED
  BY <1>1, <1>2, <1>3 DEF r

(* The elements of two queues put together.                                *)
LEMMA ConcatElements ==
    ASSUME NEW q \in Seq(SUBSET Files), NEW r \in Seq(SUBSET Files)
    PROVE  /\ q \o r \in Seq(SUBSET Files)
           /\ DOMAIN (q \o r) = 1..(Len(q) + Len(r))
           /\ \A i \in 1..Len(q) : (q \o r)[i] = q[i]
           /\ \A i \in 1..Len(r) : (q \o r)[Len(q) + i] = r[i]
           /\ \A i \in DOMAIN (q \o r) :
                 \/ i \in 1..Len(q)
                 \/ i > Len(q) /\ i - Len(q) \in 1..Len(r) /\ (q \o r)[i] = r[i - Len(q)]
BY ConcatProperties

(* Putting two queues together adds up their files.                        *)
LEMMA FilesOfConcat ==
    ASSUME NEW q \in Seq(SUBSET Files), NEW r \in Seq(SUBSET Files)
    PROVE  FilesOf(q \o r) = FilesOf(q) \cup FilesOf(r)
<1> DEFINE s == q \o r
<1>1. /\ DOMAIN s = 1..(Len(q) + Len(r))
      /\ \A i \in 1..Len(q) : s[i] = q[i]
      /\ \A i \in 1..Len(r) : s[Len(q) + i] = r[i]
      /\ \A i \in DOMAIN s : \/ i \in 1..Len(q)
                             \/ i - Len(q) \in 1..Len(r) /\ s[i] = r[i - Len(q)]
  BY ConcatElements
<1>2. /\ Len(q) \in Nat /\ DOMAIN q = 1..Len(q)
      /\ Len(r) \in Nat /\ DOMAIN r = 1..Len(r)
  OBVIOUS
<1> HIDE DEF s
<1>3. FilesOf(s) \subseteq FilesOf(q) \cup FilesOf(r)
  BY <1>1, <1>2 DEF FilesOf
<1>4. FilesOf(q) \subseteq FilesOf(s)
  BY <1>1, <1>2 DEF FilesOf
<1>5. FilesOf(r) \subseteq FilesOf(s)
  <2> SUFFICES ASSUME NEW i \in 1..Len(r), NEW f \in r[i]
               PROVE  f \in FilesOf(s)
    BY <1>2 DEF FilesOf
  <2>1. Len(q) + i \in DOMAIN s /\ s[Len(q) + i] = r[i]
    BY <1>1, <1>2
  <2>2. QED
    BY <2>1 DEF FilesOf
<1>6. QED
  BY <1>3, <1>4, <1>5 DEF s

-----------------------------------------------------------------------------
(* Type correctness.                                                       *)

(* What the finder queues when it stops is a queue of sets of files.       *)
LEMMA FlushType ==
    ASSUME TypeOK
    PROVE  /\ PartialBatch \in Seq(SUBSET Files)
           /\ file_queue \o PartialBatch \in Seq(SUBSET Files)
           /\ file_queue \o PartialBatch \o Sentinels \in Seq(SUBSET Files)
<1>1. PartialBatch \in Seq(SUBSET Files)
  <2>1. <<>> \in Seq(SUBSET Files) /\ <<batch>> \in Seq(SUBSET Files)
    BY DEF TypeOK
  <2>2. QED
    BY <2>1 DEF PartialBatch
<1>2. file_queue \o PartialBatch \in Seq(SUBSET Files)
  BY <1>1, ConcatElements DEF TypeOK
<1>3. QED
  BY <1>1, <1>2, SentinelsType, ConcatElements

(* The first components of workers are processes.                          *)
LEMMA ProcType ==
    ASSUME NEW w \in Workers
    PROVE  Proc(w) \in Procs
BY DEF Workers, Proc

(* A worker that stops, or handles a file, keeps the types of its state.   *)
LEMMA WorkerStepType ==
    ASSUME TypeOK, NEW w \in Workers
    PROVE  /\ StopWorker(w) =>
                /\ pc' \in [Workers -> {"get", "work", "done"}]
                /\ out_buffer' \in [Procs -> SUBSET SUBSET Files]
                /\ batch_processed' \in [Workers -> SUBSET Files]
           /\ \A f \in Files : Handled(w, f) =>
                /\ pc' \in [Workers -> {"get", "work", "done"}]
                /\ todo' \in [Workers -> SUBSET Files]
<1>1. ASSUME StopWorker(w)
      PROVE  /\ pc' \in [Workers -> {"get", "work", "done"}]
             /\ batch_processed' \in [Workers -> SUBSET Files]
  BY <1>1 DEF TypeOK, StopWorker
<1>2. ASSUME StopWorker(w)
      PROVE  out_buffer' \in [Procs -> SUBSET SUBSET Files]
  <2>1. Proc(w) \in Procs /\ batch_processed[w] \in SUBSET Files
    BY ProcType DEF TypeOK
  <2>2. QED
    BY <1>2, <2>1 DEF TypeOK, StopWorker
<1>3. ASSUME NEW f \in Files, Handled(w, f)
      PROVE  /\ pc' \in [Workers -> {"get", "work", "done"}]
             /\ todo' \in [Workers -> SUBSET Files]
  BY <1>3 DEF TypeOK, Handled
<1>4. QED
  BY <1>1, <1>2, <1>3

(* Every variable keeps its type in every step of every call.              *)
THEOREM TypeCorrect == Spec => []TypeOK
<1>1. Init => TypeOK
  <2> SUFFICES ASSUME Init
               PROVE  TypeOK
    OBVIOUS
  <2>1. input \in Seq(Files \cup {Missing}) /\ file_queue \in Seq(SUBSET Files)
    BY BatchRunnerAssumption DEF Init
  <2>2. /\ out_buffer \in [Procs -> SUBSET SUBSET Files]
        /\ err_buffer \in [Procs -> SUBSET Records]
        /\ todo \in [Workers -> SUBSET Files]
        /\ batch_processed \in [Workers -> SUBSET Files]
    BY DEF Init
  <2>3. QED
    BY <2>1, <2>2 DEF Init, TypeOK
<1>2. TypeOK /\ [Next]_vars => TypeOK'
  <2> SUFFICES ASSUME TypeOK, [Next]_vars
               PROVE  TypeOK'
    OBVIOUS
  <2> USE DEF TypeOK, finderVars, childVars, mainVars, history
  <2>1. CASE HandlePath
    <3>1. Head(input) \in Files /\ Tail(input) \in Seq(Files \cup {Missing})
      BY <2>1 DEF HandlePath
    <3>2. Append(file_queue, batch \cup {Head(input)}) \in Seq(SUBSET Files)
      BY <3>1, FilesOfAppend
    <3>3. /\ seen_paths' \in SUBSET Files /\ batch' \in SUBSET Files
          /\ file_queue' \in Seq(SUBSET Files)
      BY <2>1, <3>1, <3>2 DEF HandlePath
    <3>4. QED
      BY <2>1, <3>1, <3>3 DEF HandlePath
  <2>2. CASE EndDiscovery
    BY <2>2, FlushType DEF EndDiscovery, StopsDiscovering
  <2>3. ASSUME NEW w \in Workers, GetBatch(w)
        PROVE  TypeOK'
    <3>1. Head(file_queue) \in SUBSET Files /\ Tail(file_queue) \in Seq(SUBSET Files)
      BY <2>3, FilesOfTail DEF GetBatch
    <3>2. QED
      BY <2>3, <3>1 DEF GetBatch
  <2>4. ASSUME NEW w \in Workers, GetSentinel(w) \/ GetTimesOut(w)
        PROVE  TypeOK'
    <3>1. file_queue' \in Seq(SUBSET Files)
      BY <2>4, FilesOfTail DEF GetSentinel, GetTimesOut
    <3>2. StopWorker(w)
      BY <2>4 DEF GetSentinel, GetTimesOut
    <3>3. QED
      BY <2>4, <3>1, <3>2, WorkerStepType DEF GetSentinel, GetTimesOut
  <2>5. ASSUME NEW w \in Workers, NEW f \in Files,
               ProcessFile(w, f) \/ FileFails(w, f)
        PROVE  TypeOK'
    <3>1. /\ out_buffer' \in [Procs -> SUBSET SUBSET Files]
          /\ batch_processed' \in [Workers -> SUBSET Files]
          /\ err_buffer' \in [Procs -> SUBSET Records]
          /\ failed' \in SUBSET Files
      BY <2>5, ProcType DEF ProcessFile, FileFails, Records
    <3>2. Handled(w, f)
      BY <2>5 DEF ProcessFile, FileFails
    <3>3. QED
      BY <2>5, <3>1, <3>2, WorkerStepType DEF ProcessFile, FileFails
  <2>6. ASSUME NEW w \in Workers, NEW f \in Files, WorkerAborts(w, f)
        PROVE  TypeOK'
    <3>1. /\ err_buffer' \in [Procs -> SUBSET Records]
          /\ aborted' \in SUBSET Workers /\ dropped' \in SUBSET Files
          /\ todo' \in [Workers -> SUBSET Files]
      BY <2>6, ProcType DEF WorkerAborts, Records
    <3>2. StopWorker(w)
      BY <2>6 DEF WorkerAborts
    <3>3. QED
      BY <2>6, <3>1, <3>2, WorkerStepType DEF WorkerAborts
  <2>7. ASSUME NEW p \in Procs, Child(p)
        PROVE  TypeOK'
    <3>1. CASE FeedResult(p)
      BY <3>1 DEF FeedResult
    <3>2. CASE FeedError(p)
      BY <3>2 DEF FeedError
    <3>3. CASE ProcessExits(p)
      BY <3>3 DEF ProcessExits
    <3>4. QED
      BY <2>7, <3>1, <3>2, <3>3 DEF Child
  <2>8. ASSUME NEW p \in Procs, Kill(p)
        PROVE  TypeOK'
    <3>1. Held(p) \in SUBSET Files
      <4>1. ASSUME NEW t \in Threads
            PROVE  todo[<<p, t>>] \cup batch_processed[<<p, t>>] \in SUBSET Files
        BY <4>1 DEF Workers
      <4>2. \A f \in Held(p) : \E t \in Threads :
               f \in todo[<<p, t>>] \cup batch_processed[<<p, t>>]
        BY DEF Held
      <4>3. QED
        BY <4>1, <4>2
    <3>2. UNION out_buffer[p] \in SUBSET Files
      OBVIOUS
    <3>3. /\ pc' \in [Workers -> {"get", "work", "done"}]
          /\ todo' \in [Workers -> SUBSET Files]
          /\ batch_processed' \in [Workers -> SUBSET Files]
          /\ rlock_lost' \in BOOLEAN
      BY <2>8 DEF Kill
    <3>4. /\ alive' \in [Procs -> BOOLEAN] /\ killed' \in SUBSET Procs
          /\ out_buffer' \in [Procs -> SUBSET SUBSET Files]
          /\ err_buffer' \in [Procs -> SUBSET Records]
          /\ dropped' \in SUBSET Files
      BY <2>8, <3>1, <3>2 DEF Kill
    <3>5. QED
      BY <2>8, <3>3, <3>4 DEF Kill
  <2>9. CASE Caller
    BY <2>9 DEF Caller, Collect, EndCollection, Finish
  <2>10. CASE Done \/ UNCHANGED vars
    BY <2>10 DEF Done, vars
  <2>11. QED
    BY <2>1, <2>2, <2>3, <2>4, <2>5, <2>6, <2>7, <2>8, <2>9, <2>10
    DEF Next, Finder, Worker
<1>3. QED
  BY <1>1, <1>2, PTL DEF Spec

-----------------------------------------------------------------------------
(* The order of the file queue.                                            *)

(* All batches come before all sentinels, and no sentinel is sent or read  *)
(* while the finder can still send a batch.                                *)
QueueInv ==
    /\ finder = "discovering" => ~all_paths_sent /\ \A i \in DOMAIN file_queue : file_queue[i] # None
    /\ finder # "discovering" => batch = {}
    /\ finder = "finished" => input = <<>>
    /\ \A i, j \in DOMAIN file_queue : i < j /\ file_queue[i] = None => file_queue[j] = None
    /\ all_paths_sent => \A i \in DOMAIN file_queue : file_queue[i] = None

(* A step that neither discovers nor gets does not concern the queue.      *)
LEMMA QueueInvStable ==
    ASSUME QueueInv, UNCHANGED <<finderVars, file_queue, all_paths_sent>>
    PROVE  QueueInv'
BY DEF QueueInv, finderVars

(* Taking the oldest element keeps the rest in order.                      *)
LEMMA TailOrder ==
    ASSUME NEW q \in Seq(SUBSET Files), q # <<>>,
           \A i, j \in DOMAIN q : i < j /\ q[i] = None => q[j] = None
    PROVE  /\ \A i, j \in DOMAIN Tail(q) : i < j /\ Tail(q)[i] = None => Tail(q)[j] = None
           /\ Head(q) = None => \A i \in DOMAIN Tail(q) : Tail(q)[i] = None
           /\ \A i \in DOMAIN Tail(q) : \E j \in DOMAIN q : Tail(q)[i] = q[j]
<1> DEFINE r == Tail(q)
<1>1. /\ Len(q) \in Nat \ {0} /\ DOMAIN q = 1..Len(q) /\ Head(q) = q[1]
      /\ DOMAIN r = 1..(Len(q) - 1)
      /\ \A i \in 1..(Len(q) - 1) : r[i] = q[i + 1] /\ i + 1 \in DOMAIN q
  OBVIOUS
<1> HIDE DEF r
<1>2. \A i, j \in DOMAIN r : i < j /\ r[i] = None => r[j] = None
  BY <1>1
<1>3. Head(q) = None => \A i \in DOMAIN r : r[i] = None
  BY <1>1
<1>4. \A i \in DOMAIN r : \E j \in DOMAIN q : r[i] = q[j]
  BY <1>1
<1>5. QED
  BY <1>2, <1>3, <1>4 DEF r

(* QueueInv is inductive.                                                  *)
THEOREM QueueInvariant == Spec => []QueueInv
<1>1. Init => QueueInv
  BY DEF Init, QueueInv
<1>2. TypeOK /\ QueueInv /\ [Next]_vars => QueueInv'
  <2> SUFFICES ASSUME TypeOK, QueueInv, [Next]_vars
               PROVE  QueueInv'
    OBVIOUS
  <2>1. CASE HandlePath
    <3> DEFINE b == batch \cup {Head(input)}
    <3>1. b \in SUBSET Files /\ b # None
      <4>1. Head(input) \in Files
        BY <2>1 DEF HandlePath, TypeOK
      <4>2. QED
        BY <4>1 DEF TypeOK, None
    <3>2. /\ finder = "discovering" /\ finder' = finder /\ all_paths_sent' = all_paths_sent
          /\ file_queue' = file_queue \/ file_queue' = Append(file_queue, b)
      BY <2>1 DEF HandlePath
    <3>3. \A i \in DOMAIN file_queue' : file_queue'[i] # None
      <4>1. \A i \in DOMAIN file_queue : file_queue[i] # None
        BY <3>2 DEF QueueInv
      <4>2. \A i \in DOMAIN Append(file_queue, b) : Append(file_queue, b)[i] # None
        <5>1. file_queue \in Seq(SUBSET Files)
          BY DEF TypeOK
        <5> HIDE DEF b
        <5>2. QED
          BY <3>1, <4>1, <5>1
      <4>3. QED
        BY <3>2, <4>1, <4>2
    <3>4. QED
      BY <3>2, <3>3 DEF QueueInv
  <2>2. CASE EndDiscovery
    <3> DEFINE q == file_queue \o PartialBatch
    <3>1. /\ ~all_paths_sent /\ all_paths_sent' = all_paths_sent
          /\ \A i \in DOMAIN file_queue : file_queue[i] # None
          /\ batch' = {} /\ finder' # "discovering"
          /\ finder' = "finished" => input' = <<>>
          /\ file_queue' = q \o Sentinels
      BY <2>2 DEF EndDiscovery, StopsDiscovering, QueueInv
    <3>2. /\ PartialBatch \in Seq(SUBSET Files) /\ q \in Seq(SUBSET Files)
          /\ file_queue \in Seq(SUBSET Files) /\ Sentinels \in Seq(SUBSET Files)
      BY FlushType, SentinelsType DEF TypeOK
    <3>3. \A i \in 1..Len(PartialBatch) : PartialBatch[i] # None
      BY DEF PartialBatch, None
    <3>4. \A i \in 1..Len(q) : q[i] # None
      <4>1. /\ DOMAIN q = 1..Len(q) /\ DOMAIN file_queue = 1..Len(file_queue)
            /\ Len(file_queue) \in Nat
        BY <3>2
      <4>2. \A i \in DOMAIN q : \/ i \in 1..Len(file_queue) /\ q[i] = file_queue[i]
                                \/ /\ i - Len(file_queue) \in 1..Len(PartialBatch)
                                   /\ q[i] = PartialBatch[i - Len(file_queue)]
        BY <3>2, ConcatElements
      <4> HIDE DEF q
      <4>3. QED
        BY <3>1, <3>3, <4>1, <4>2
    <3>5. \A i \in DOMAIN file_queue' : \/ i \in 1..Len(q) /\ file_queue'[i] = q[i]
                                        \/ i > Len(q) /\ file_queue'[i] = None
      <4>1. DOMAIN Sentinels = 1..Len(Sentinels)
        BY <3>2
      <4> HIDE DEF q
      <4>2. QED
        BY <3>1, <3>2, <4>1, SentinelsType, ConcatElements
    <3>6. Len(q) \in Nat /\ DOMAIN file_queue' \subseteq Int
      BY <3>1, <3>2, ConcatElements
    <3> HIDE DEF q
    <3>7. \A i, j \in DOMAIN file_queue' :
             i < j /\ file_queue'[i] = None => file_queue'[j] = None
      BY <3>4, <3>5, <3>6
    <3>8. QED
      BY <3>1, <3>7 DEF QueueInv
  <2>3. ASSUME NEW w \in Workers, GetBatch(w)
        PROVE  QueueInv'
    <3>1. /\ file_queue \in Seq(SUBSET Files) /\ file_queue # <<>>
          /\ file_queue' = Tail(file_queue)
          /\ UNCHANGED <<finderVars, all_paths_sent>>
      BY <2>3 DEF GetBatch, TypeOK
    <3>2. QED
      BY <3>1, TailOrder DEF QueueInv, finderVars
  <2>4. ASSUME NEW w \in Workers, GetSentinel(w)
        PROVE  QueueInv'
    <3>1. /\ file_queue \in Seq(SUBSET Files) /\ file_queue # <<>>
          /\ file_queue' = Tail(file_queue) /\ Head(file_queue) = None
          /\ UNCHANGED finderVars /\ all_paths_sent' = TRUE
      BY <2>4 DEF GetSentinel, TypeOK
    <3>2. 1 \in DOMAIN file_queue /\ file_queue[1] = None
      BY <3>1
    <3>3. finder # "discovering"
      BY <3>2 DEF QueueInv
    <3>4. QED
      BY <3>1, <3>3, TailOrder DEF QueueInv, finderVars
  <2>5. ASSUME NEW w \in Workers,
               GetTimesOut(w) \/ \E f \in Files :
                   ProcessFile(w, f) \/ FileFails(w, f) \/ WorkerAborts(w, f)
        PROVE  QueueInv'
    <3>1. UNCHANGED <<finderVars, file_queue, all_paths_sent>>
      BY <2>5 DEF GetTimesOut, ProcessFile, FileFails, WorkerAborts
    <3>2. QED
      BY <3>1, QueueInvStable
  <2>6. ASSUME NEW p \in Procs, Child(p) \/ Kill(p)
        PROVE  QueueInv'
    <3>1. UNCHANGED <<finderVars, file_queue, all_paths_sent>>
      BY <2>6 DEF Child, FeedResult, FeedError, ProcessExits, Kill
    <3>2. QED
      BY <3>1, QueueInvStable
  <2>7. CASE Caller \/ Done \/ UNCHANGED vars
    <3>1. UNCHANGED <<finderVars, file_queue, all_paths_sent>>
      BY <2>7 DEF Caller, Collect, EndCollection, Finish, Done, vars
    <3>2. QED
      BY <3>1, QueueInvStable
  <2>8. QED
    BY <2>1, <2>2, <2>3, <2>4, <2>5, <2>6, <2>7 DEF Next, Finder, Worker
<1>3. QED
  BY <1>1, <1>2, TypeCorrect, PTL DEF Spec

(* A worker that leaves because it timed out leaves no batch behind.       *)
THEOREM FlagIsSafe == Spec => []FlagMeansNoBatchLeft
<1>1. QueueInv => FlagMeansNoBatchLeft
  BY DEF QueueInv, FlagMeansNoBatchLeft
<1>2. QED
  BY <1>1, QueueInvariant, PTL

-----------------------------------------------------------------------------
(* No file is forgotten.                                                   *)

(* A worker that is not working has no batch, and one that is done has     *)
(* published everything.                                                   *)
IdleInv ==
    \A w \in Workers : /\ pc[w] # "work" => todo[w] = {}
                       /\ pc[w] = "done" => batch_processed[w] = {}

(* No worker gives up its loop or ends its job with files still in hand. *)
THEOREM IdleInvariant == Spec => []IdleInv
<1>1. Init => IdleInv
  BY DEF Init, IdleInv
<1>2. TypeOK /\ IdleInv /\ [Next]_vars => IdleInv'
  <2> SUFFICES ASSUME TypeOK, IdleInv, [Next]_vars
               PROVE  IdleInv'
    OBVIOUS
  <2> USE DEF TypeOK, IdleInv
  <2>1. CASE Finder
    BY <2>1 DEF Finder, HandlePath, EndDiscovery, StopsDiscovering, childVars
  <2>2. ASSUME NEW w \in Workers, GetBatch(w)
        PROVE  IdleInv'
    BY <2>2 DEF GetBatch, CanGet
  <2>3. ASSUME NEW w \in Workers, GetSentinel(w) \/ GetTimesOut(w)
        PROVE  IdleInv'
    BY <2>3 DEF GetSentinel, GetTimesOut, CanGet, StopWorker
  <2>4. ASSUME NEW w \in Workers, NEW f \in Files, ProcessFile(w, f) \/ FileFails(w, f)
        PROVE  IdleInv'
    BY <2>4 DEF ProcessFile, FileFails, CanHandle, Handled
  <2>5. ASSUME NEW w \in Workers, NEW f \in Files, WorkerAborts(w, f)
        PROVE  IdleInv'
    BY <2>5 DEF WorkerAborts, CanHandle, StopWorker
  <2>6. ASSUME NEW p \in Procs, Child(p)
        PROVE  IdleInv'
    BY <2>6 DEF Child, FeedResult, FeedError, ProcessExits
  <2>7. ASSUME NEW p \in Procs, Kill(p)
        PROVE  IdleInv'
    BY <2>7 DEF Kill
  <2>8. CASE Caller \/ Done \/ UNCHANGED vars
    BY <2>8 DEF Caller, Collect, EndCollection, Finish, Done, vars, childVars
  <2>9. QED
    BY <2>1, <2>2, <2>3, <2>4, <2>5, <2>6, <2>7, <2>8 DEF Next, Worker
<1>3. QED
  BY <1>1, <1>2, TypeCorrect, PTL DEF Spec

(* NoFileForgotten, file by file.                                          *)
InWorker(f) == \E w \in Workers : f \in todo[w] \/ f \in batch_processed[w]

InTransit(f) == \/ \E b \in out_pipe : f \in b
                \/ \E p \in Procs : \E b \in out_buffer[p] : f \in b

Accounted(f) ==
    f \in seen_paths <=> \/ f \in batch \/ f \in Queued \/ InWorker(f) \/ InTransit(f)
                         \/ f \in result \/ f \in failed \/ f \in dropped

(* The places of a file, as sets and as predicates.                        *)
LEMMA Places ==
    ASSUME NEW f
    PROVE  /\ f \in InHand <=> InWorker(f)
           /\ f \in Published <=> InTransit(f)
           /\ \A p \in Procs :
                 f \in Held(p) <=> \E t \in Threads : f \in todo[<<p, t>>]
                                                      \/ f \in batch_processed[<<p, t>>]
<1>1. f \in InHand <=> InWorker(f)
  BY DEF InHand, InWorker
<1>2. f \in UNION {UNION out_buffer[p] : p \in Procs}
        <=> \E p \in Procs : \E b \in out_buffer[p] : f \in b
  OBVIOUS
<1>3. f \in Published <=> InTransit(f)
  BY <1>2 DEF Published, InTransit
<1>4. QED
  BY <1>1, <1>3 DEF Held

(* A worker that stops hands its processed files to the feeder.            *)
LEMMA StopWorkerPlaces ==
    ASSUME TypeOK, NEW w \in Workers, StopWorker(w), NEW f,
           UNCHANGED out_pipe
    PROVE  /\ InTransit(f)' <=> InTransit(f) \/ f \in batch_processed[w]
           /\ \A v \in Workers :
                 f \in batch_processed'[v] <=> v # w /\ f \in batch_processed[v]
<1>1. Proc(w) \in Procs
  BY ProcType
<1>2. \A v \in Workers : f \in batch_processed'[v] <=> v # w /\ f \in batch_processed[v]
  BY DEF StopWorker, TypeOK
<1>3. CASE batch_processed[w] = {}
  BY <1>2, <1>3 DEF StopWorker, InTransit
<1>4. CASE batch_processed[w] # {}
  <2>1. \A p \in Procs : out_buffer'[p] = IF p = Proc(w) THEN out_buffer[p] \cup {batch_processed[w]}
                                          ELSE out_buffer[p]
    BY <1>4 DEF StopWorker, TypeOK
  <2>2. QED
    BY <1>1, <1>2, <2>1 DEF InTransit
<1>5. QED
  BY <1>3, <1>4

(* Accounted is inductive, for every file.                                 *)
LEMMA AccountedStep ==
    ASSUME TypeOK, IdleInv, QueueInv, [Next]_vars, NEW f, Accounted(f)
    PROVE  Accounted(f)'
<1> USE DEF Accounted
<1>1. CASE HandlePath
  <2>1. UNCHANGED <<InWorker(f), InTransit(f), result, failed, dropped>>
    BY <1>1 DEF HandlePath, InWorker, InTransit, childVars, mainVars, history
  <2>2. CASE Head(input) \in seen_paths
    <3>1. UNCHANGED <<seen_paths, batch, file_queue>>
      BY <1>1, <2>2 DEF HandlePath
    <3>2. QED
      BY <2>1, <3>1 DEF Queued
  <2>3. CASE Head(input) \notin seen_paths
    <3> DEFINE b == batch \cup {Head(input)}
    <3>1. /\ seen_paths' = seen_paths \cup {Head(input)}
          /\ \/ file_queue' = Append(file_queue, b) /\ batch' = {}
             \/ file_queue' = file_queue /\ batch' = b
      BY <1>1, <2>3 DEF HandlePath
    <3>2. b \in SUBSET Files
      BY <1>1 DEF HandlePath, TypeOK
    <3>3. f \in batch' \/ f \in Queued' <=> f \in b \/ f \in Queued
      BY <3>1, <3>2, FilesOfAppend DEF Queued, TypeOK
    <3>4. QED
      BY <2>1, <3>1, <3>3
  <2>4. QED
    BY <2>2, <2>3
<1>2. CASE EndDiscovery
  <2>1. /\ UNCHANGED <<seen_paths, InWorker(f), InTransit(f), result, failed, dropped>>
        /\ batch' = {} /\ file_queue' = file_queue \o PartialBatch \o Sentinels
    BY <1>2 DEF EndDiscovery, StopsDiscovering, InWorker, InTransit, childVars, mainVars, history
  <2>2. FilesOf(file_queue \o PartialBatch \o Sentinels)
          = FilesOf(file_queue) \cup FilesOf(PartialBatch) \cup FilesOf(Sentinels)
    BY FlushType, SentinelsType, FilesOfConcat DEF TypeOK
  <2>3. FilesOf(PartialBatch) = batch
    BY DEF FilesOf, PartialBatch
  <2>4. FilesOf(Sentinels) = {}
    BY SentinelsType DEF FilesOf, None
  <2>5. Queued' = Queued \cup batch
    BY <2>1, <2>2, <2>3, <2>4 DEF Queued
  <2>6. QED
    BY <2>1, <2>5
<1>3. ASSUME NEW w \in Workers, GetBatch(w)
      PROVE  Accounted(f)'
  <2>1. UNCHANGED <<seen_paths, batch, InTransit(f), result, failed, dropped>>
    BY <1>3 DEF GetBatch, InTransit, finderVars, mainVars, history
  <2>2. Queued = Head(file_queue) \cup Queued'
    BY <1>3, FilesOfTail DEF GetBatch, Queued, TypeOK
  <2>3. todo[w] = {}
    BY <1>3 DEF GetBatch, CanGet, IdleInv
  <2>4. InWorker(f)' <=> InWorker(f) \/ f \in Head(file_queue)
    BY <1>3, <2>3 DEF GetBatch, InWorker, TypeOK
  <2>5. QED
    BY <2>1, <2>2, <2>4
<1>4. ASSUME NEW w \in Workers, GetSentinel(w) \/ GetTimesOut(w)
      PROVE  Accounted(f)'
  <2>1. /\ StopWorker(w)
        /\ UNCHANGED <<seen_paths, batch, result, failed, dropped, out_pipe, todo>>
    BY <1>4 DEF GetSentinel, GetTimesOut, finderVars, mainVars, history
  <2>2. Queued' = Queued
    BY <1>4, FilesOfTail DEF GetSentinel, GetTimesOut, Queued, TypeOK, None
  <2>3. InWorker(f)' \/ InTransit(f)' <=> InWorker(f) \/ InTransit(f)
    BY <2>1, StopWorkerPlaces DEF InWorker
  <2>4. QED
    BY <2>1, <2>2, <2>3
<1>5. ASSUME NEW w \in Workers, NEW g \in Files, ProcessFile(w, g)
      PROVE  Accounted(f)'
  <2> DEFINE filled == batch_processed[w] \cup {g}
  <2>1. /\ UNCHANGED <<seen_paths, batch, Queued, result, failed, dropped, out_pipe>>
        /\ g \in todo[w]
        /\ \A v \in Workers : todo'[v] = IF v = w THEN todo[w] \ {g} ELSE todo[v]
    BY <1>5 DEF ProcessFile, CanHandle, Handled, Queued, finderVars, mainVars, history, TypeOK
  <2>2. CASE Cardinality(filled) >= BatchSize
    <3>1. /\ \A v \in Workers : batch_processed'[v] = IF v = w THEN {} ELSE batch_processed[v]
          /\ \A p \in Procs : out_buffer'[p] = IF p = Proc(w) THEN out_buffer[p] \cup {filled}
                                               ELSE out_buffer[p]
      BY <1>5, <2>2 DEF ProcessFile, TypeOK
    <3>2. InTransit(f)' <=> InTransit(f) \/ f \in filled
      BY <2>1, <3>1, ProcType DEF InTransit
    <3>3. InWorker(f)' \/ f \in filled <=> InWorker(f)
      BY <2>1, <3>1 DEF InWorker
    <3>4. QED
      BY <2>1, <3>2, <3>3
  <2>3. CASE ~(Cardinality(filled) >= BatchSize)
    <3>1. /\ \A v \in Workers : batch_processed'[v] = IF v = w THEN filled ELSE batch_processed[v]
          /\ out_buffer' = out_buffer
      BY <1>5, <2>3 DEF ProcessFile, TypeOK
    <3>2. UNCHANGED InTransit(f)
      BY <2>1, <3>1 DEF InTransit
    <3>3. InWorker(f)' <=> InWorker(f)
      BY <2>1, <3>1 DEF InWorker
    <3>4. QED
      BY <2>1, <3>2, <3>3
  <2>4. QED
    BY <2>2, <2>3
<1>6. ASSUME NEW w \in Workers, NEW g \in Files, FileFails(w, g)
      PROVE  Accounted(f)'
  <2>1. /\ UNCHANGED <<seen_paths, batch, Queued, result, dropped, InTransit(f), batch_processed>>
        /\ g \in todo[w] /\ failed' = failed \cup {g}
        /\ \A v \in Workers : todo'[v] = IF v = w THEN todo[w] \ {g} ELSE todo[v]
    BY <1>6 DEF FileFails, CanHandle, Handled, Queued, InTransit, finderVars, mainVars, TypeOK
  <2>2. InWorker(f)' \/ f = g <=> InWorker(f)
    BY <2>1 DEF InWorker
  <2>3. QED
    BY <2>1, <2>2
<1>7. ASSUME NEW w \in Workers, NEW g \in Files, WorkerAborts(w, g)
      PROVE  Accounted(f)'
  <2>1. /\ UNCHANGED <<seen_paths, batch, Queued, result, out_pipe>>
        /\ failed' = failed /\ dropped' = dropped \cup todo[w]
        /\ \A v \in Workers : todo'[v] = IF v = w THEN {} ELSE todo[v]
        /\ StopWorker(w)
    BY <1>7 DEF WorkerAborts, CanHandle, Queued, finderVars, mainVars, TypeOK
  <2>2. InWorker(f)' \/ InTransit(f)' \/ f \in todo[w] <=> InWorker(f) \/ InTransit(f)
    BY <2>1, StopWorkerPlaces DEF InWorker
  <2>3. QED
    BY <2>1, <2>2
<1>8. ASSUME NEW p \in Procs, Child(p)
      PROVE  Accounted(f)'
  <2>1. UNCHANGED <<seen_paths, batch, Queued, result, failed, dropped, InWorker(f)>>
    BY <1>8 DEF Child, FeedResult, FeedError, ProcessExits, Queued, InWorker, finderVars,
                mainVars, history
  <2>2. CASE FeedResult(p)
    <3>1. PICK b \in out_buffer[p] :
             /\ \A q \in Procs : out_buffer'[q] = IF q = p THEN out_buffer[p] \ {b} ELSE out_buffer[q]
             /\ out_pipe' = out_pipe \cup {b}
      BY <2>2 DEF FeedResult, TypeOK
    <3>2. InTransit(f)' <=> InTransit(f)
      BY <3>1 DEF InTransit
    <3>3. QED
      BY <2>1, <3>2
  <2>3. CASE FeedError(p) \/ ProcessExits(p)
    BY <2>1, <2>3 DEF FeedError, ProcessExits, InTransit
  <2>4. QED
    BY <1>8, <2>2, <2>3 DEF Child
<1>9. ASSUME NEW p \in Procs, Kill(p)
      PROVE  Accounted(f)'
  <2>1. /\ UNCHANGED <<seen_paths, batch, Queued, result, failed, out_pipe>>
        /\ dropped' = dropped \cup Held(p) \cup UNION out_buffer[p]
        /\ \A w \in Workers : /\ todo'[w] = IF Proc(w) = p THEN {} ELSE todo[w]
                              /\ batch_processed'[w] = IF Proc(w) = p THEN {} ELSE batch_processed[w]
        /\ \A q \in Procs : out_buffer'[q] = IF q = p THEN {} ELSE out_buffer[q]
    BY <1>9 DEF Kill, Queued, finderVars, mainVars, TypeOK
  <2>2. InTransit(f)' \/ f \in UNION out_buffer[p] <=> InTransit(f)
    BY <2>1 DEF InTransit
  <2>3. f \in Held(p) <=> \E w \in Workers : Proc(w) = p /\ (f \in todo[w] \/ f \in batch_processed[w])
    <3>1. \A t \in Threads : <<p, t>> \in Workers /\ Proc(<<p, t>>) = p
      BY DEF Workers, Proc
    <3>2. \A w \in Workers : Proc(w) = p => \E t \in Threads : w = <<p, t>>
      BY DEF Workers, Proc
    <3>3. QED
      BY <3>1, <3>2, Places
  <2>4. InWorker(f)' \/ f \in Held(p) <=> InWorker(f)
    BY <2>1, <2>3 DEF InWorker
  <2>5. QED
    BY <2>1, <2>2, <2>4
<1>10. CASE Caller
  <2>1. UNCHANGED <<seen_paths, batch, Queued, failed, dropped, InWorker(f), out_buffer>>
    BY <1>10 DEF Caller, Collect, EndCollection, Finish, Queued, InWorker, finderVars, childVars,
                 history
  <2>2. InTransit(f)' \/ f \in result' <=> InTransit(f) \/ f \in result
    BY <1>10, <2>1 DEF Caller, Collect, EndCollection, Finish, InTransit
  <2>3. QED
    BY <2>1, <2>2
<1>11. CASE Done \/ UNCHANGED vars
  BY <1>11 DEF Done, vars, Queued, InWorker, InTransit, finderVars, childVars, mainVars, history
<1>12. QED
  BY <1>1, <1>2, <1>3, <1>4, <1>5, <1>6, <1>7, <1>8, <1>9, <1>10, <1>11
  DEF Next, Finder, Worker

(* No discovered file disappears, whatever fails and whatever is killed.   *)
THEOREM NothingForgotten == Spec => []NoFileForgotten
<1> DEFINE Inv == \A f : Accounted(f)
<1>1. Init => Inv
  BY DEF Init, Accounted, Queued, FilesOf, InWorker, InTransit
<1>2. TypeOK /\ IdleInv /\ QueueInv /\ Inv /\ [Next]_vars => Inv'
  BY AccountedStep
<1>3. Inv => NoFileForgotten
  BY Places DEF Accounted, NoFileForgotten
<1>4. QED
  BY <1>1, <1>2, <1>3, TypeCorrect, IdleInvariant, QueueInvariant, PTL DEF Spec

-----------------------------------------------------------------------------
(* How a call ends.                                                        *)

(* A process that ended has flushed its buffers (or was killed).           *)
DeadInv ==
    /\ \A p \in Procs : ~alive[p] =>
          /\ out_buffer[p] = {} /\ err_buffer[p] = {}
          /\ \A t \in Threads : pc[<<p, t>>] = "done"
    /\ main # "collecting" => out_pipe = {} /\ \A p \in Procs : ~alive[p]

(* Without a kill, files are lost only with a worker that an error took    *)
(* down, and no other worker stops before the sentinels.                   *)
StopInv ==
    /\ killed = {} /\ aborted = {} =>
          dropped = {} /\ \A w \in Workers : pc[w] = "done" => all_paths_sent
    /\ aborted # {} => dropped # {}

(* Without a kill, the error records in flight are those of the failures.  *)
ErrorInv ==
    killed = {} => \A r \in Records :
        r \in failed \cup aborted
            <=> r \in err_pipe \/ r \in errors \/ \E p \in Procs : r \in err_buffer[p]

(* The caller decides on what it has read.                                 *)
VerdictInv ==
    /\ main \in {"collecting", "joining"} => errors = {}
    /\ main \in {"returned", "raised"} => finder # "discovering" /\ err_pipe = {}
    /\ main = "returned" => finder = "finished" /\ errors = {}
    /\ main = "raised" => finder = "failed" \/ errors # {}

EndInv == DeadInv /\ StopInv /\ ErrorInv /\ VerdictInv

LEMMA EndInvFinder ==
    ASSUME TypeOK, EndInv, Finder
    PROVE  EndInv'
<1>1. /\ UNCHANGED <<all_paths_sent, out_pipe, err_pipe, childVars, mainVars, history>>
      /\ finder = "discovering"
  BY DEF Finder, HandlePath, EndDiscovery, StopsDiscovering
<1>2. main \notin {"returned", "raised"}
  BY <1>1 DEF EndInv, VerdictInv
<1>3. VerdictInv'
  BY <1>1, <1>2 DEF EndInv, VerdictInv, mainVars
<1>4. DeadInv' /\ StopInv' /\ ErrorInv'
  BY <1>1 DEF EndInv, DeadInv, StopInv, ErrorInv, mainVars, childVars, history
<1>5. QED
  BY <1>3, <1>4 DEF EndInv

LEMMA EndInvWorker ==
    ASSUME TypeOK, EndInv, NEW w \in Workers, Worker(w)
    PROVE  EndInv'
<1> USE DEF TypeOK
<1>1. /\ UNCHANGED <<finderVars, out_pipe, err_pipe, alive, killed, mainVars>>
      /\ alive[Proc(w)]
      /\ \A p \in Procs : p # Proc(w) => out_buffer'[p] = out_buffer[p] /\ err_buffer'[p] = err_buffer[p]
      /\ \A v \in Workers : v # w => pc'[v] = pc[v]
  BY DEF Worker, GetBatch, GetSentinel, GetTimesOut, ProcessFile, FileFails, WorkerAborts,
         CanGet, CanHandle, StopWorker, Handled
<1>2. DeadInv'
  <2>1. \A p \in Procs, t \in Threads : p # Proc(w) => <<p, t>> \in Workers /\ <<p, t>> # w
    BY DEF Workers, Proc
  <2>2. QED
    BY <1>1, <2>1 DEF DeadInv, EndInv, mainVars
<1>3. VerdictInv'
  BY <1>1 DEF VerdictInv, EndInv, finderVars, mainVars
<1>4. CASE GetBatch(w)
  BY <1>1, <1>2, <1>3, <1>4 DEF EndInv, StopInv, ErrorInv, GetBatch, history, mainVars
<1>5. CASE GetSentinel(w)
  BY <1>1, <1>2, <1>3, <1>5 DEF EndInv, StopInv, ErrorInv, GetSentinel, StopWorker, history, mainVars
<1>6. CASE GetTimesOut(w)
  BY <1>1, <1>2, <1>3, <1>6 DEF EndInv, StopInv, ErrorInv, GetTimesOut, StopWorker, history, mainVars
<1>7. ASSUME NEW f \in Files, ProcessFile(w, f)
      PROVE  EndInv'
  <2>1. /\ UNCHANGED <<err_buffer, all_paths_sent, history>>
        /\ pc'[w] # "done"
    BY <1>7 DEF ProcessFile, Handled
  <2>2. StopInv' /\ ErrorInv'
    BY <1>1, <2>1 DEF EndInv, StopInv, ErrorInv, history, mainVars
  <2>3. QED
    BY <1>2, <1>3, <2>2 DEF EndInv
<1>8. ASSUME NEW f \in Files, FileFails(w, f)
      PROVE  EndInv'
  <2>1. /\ failed' = failed \cup {f} /\ UNCHANGED <<aborted, dropped, all_paths_sent>>
        /\ \A p \in Procs : err_buffer'[p] = IF p = Proc(w) THEN err_buffer[p] \cup {f}
                                             ELSE err_buffer[p]
        /\ pc'[w] # "done"
    BY <1>8 DEF FileFails, Handled
  <2>2. StopInv'
    BY <1>1, <2>1 DEF EndInv, StopInv
  <2>3. ErrorInv'
    BY <1>1, <2>1, ProcType DEF EndInv, ErrorInv, mainVars
  <2>4. QED
    BY <1>2, <1>3, <2>2, <2>3 DEF EndInv
<1>9. ASSUME NEW f \in Files, WorkerAborts(w, f)
      PROVE  EndInv'
  <2>1. /\ aborted' = aborted \cup {w} /\ failed' = failed
        /\ f \in dropped'
        /\ \A p \in Procs : err_buffer'[p] = IF p = Proc(w) THEN err_buffer[p] \cup {w}
                                             ELSE err_buffer[p]
    BY <1>9 DEF WorkerAborts, CanHandle
  <2>2. StopInv'
    BY <2>1 DEF StopInv
  <2>3. ErrorInv'
    BY <1>1, <2>1, ProcType DEF EndInv, ErrorInv, mainVars
  <2>4. QED
    BY <1>2, <1>3, <2>2, <2>3 DEF EndInv
<1>10. QED
  BY <1>4, <1>5, <1>6, <1>7, <1>8, <1>9 DEF Worker

LEMMA EndInvChild ==
    ASSUME TypeOK, EndInv, NEW p \in Procs, Child(p) \/ Kill(p)
    PROVE  EndInv'
<1> USE DEF TypeOK
<1>1. UNCHANGED <<finderVars, mainVars, failed, aborted, all_paths_sent>>
  BY DEF Child, FeedResult, FeedError, ProcessExits, Kill, history
<1>2. alive[p]
  BY DEF Child, FeedResult, FeedError, ProcessExits, Kill
<1>3. main = "collecting"
  BY <1>2 DEF EndInv, DeadInv
<1>4. VerdictInv'
  BY <1>1, <1>3 DEF EndInv, VerdictInv, mainVars
<1>5. CASE FeedResult(p)
  <2>1. DeadInv'
    BY <1>2, <1>3, <1>5 DEF EndInv, DeadInv, FeedResult, mainVars
  <2>2. StopInv' /\ ErrorInv'
    BY <1>5 DEF EndInv, StopInv, ErrorInv, FeedResult, mainVars, history
  <2>3. QED
    BY <1>4, <2>1, <2>2 DEF EndInv
<1>6. CASE FeedError(p)
  <2>1. DeadInv'
    BY <1>2, <1>3, <1>6 DEF EndInv, DeadInv, FeedError, mainVars
  <2>2. StopInv' /\ ErrorInv'
    BY <1>6 DEF EndInv, StopInv, ErrorInv, FeedError, mainVars, history
  <2>3. QED
    BY <1>4, <2>1, <2>2 DEF EndInv
<1>7. CASE ProcessExits(p)
  <2>1. DeadInv'
    BY <1>3, <1>7 DEF EndInv, DeadInv, ProcessExits, mainVars
  <2>2. StopInv' /\ ErrorInv'
    BY <1>7 DEF EndInv, StopInv, ErrorInv, ProcessExits, mainVars, history
  <2>3. QED
    BY <1>4, <2>1, <2>2 DEF EndInv
<1>8. CASE Kill(p)
  <2>1. \A t \in Threads : pc'[<<p, t>>] = "done"
    BY <1>8 DEF Kill, Workers, Proc
  <2>2. \A q \in Procs, t \in Threads : q # p => pc'[<<q, t>>] = pc[<<q, t>>]
    BY <1>8 DEF Kill, Workers, Proc
  <2>3. DeadInv'
    <3>1. /\ \A q \in Procs : q # p => alive'[q] = alive[q]
          /\ out_buffer'[p] = {} /\ \A q \in Procs : q # p => out_buffer'[q] = out_buffer[q]
          /\ err_buffer'[p] = {} /\ \A q \in Procs : q # p => err_buffer'[q] = err_buffer[q]
      BY <1>8 DEF Kill
    <3>2. main' = "collecting"
      BY <1>1, <1>3 DEF mainVars
    <3>3. ASSUME NEW q \in Procs, ~alive'[q]
          PROVE  /\ out_buffer'[q] = {} /\ err_buffer'[q] = {}
                 /\ \A t \in Threads : pc'[<<q, t>>] = "done"
      <4>1. CASE q = p
        BY <2>1, <3>1, <4>1
      <4>2. CASE q # p
        BY <2>2, <3>1, <3>3, <4>2 DEF EndInv, DeadInv
      <4>3. QED
        BY <4>1, <4>2
    <3>4. QED
      BY <3>2, <3>3 DEF DeadInv
  <2>4. killed' # {} /\ dropped \subseteq dropped'
    BY <1>8 DEF Kill
  <2>5. StopInv' /\ ErrorInv'
    BY <1>1, <2>4 DEF EndInv, StopInv, ErrorInv
  <2>6. QED
    BY <1>4, <2>3, <2>5 DEF EndInv
<1>9. QED
  BY <1>5, <1>6, <1>7, <1>8 DEF Child

LEMMA EndInvCaller ==
    ASSUME TypeOK, EndInv, QueueInv, Caller
    PROVE  EndInv'
<1> USE DEF TypeOK
<1>1. UNCHANGED <<finderVars, all_paths_sent, childVars, history>>
  BY DEF Caller, Collect, EndCollection, Finish
<1>2. StopInv'
  BY <1>1 DEF EndInv, StopInv, childVars, history
<1>3. CASE Collect \/ EndCollection
  BY <1>1, <1>2, <1>3 DEF EndInv, DeadInv, ErrorInv, VerdictInv, Collect, EndCollection,
                          finderVars, childVars, history
<1>4. CASE Finish
  <2>1. DeadInv'
    BY <1>1, <1>4 DEF EndInv, DeadInv, Finish, childVars
  <2>2. ErrorInv'
    BY <1>1, <1>4 DEF EndInv, ErrorInv, VerdictInv, Finish, childVars, history
  <2>3. VerdictInv'
    BY <1>1, <1>4 DEF EndInv, VerdictInv, Finish, finderVars
  <2>4. QED
    BY <1>2, <2>1, <2>2, <2>3 DEF EndInv
<1>5. QED
  BY <1>3, <1>4 DEF Caller

(* EndInv is inductive.                                                    *)
THEOREM EndInvariant == Spec => []EndInv
<1>1. Init => EndInv
  BY DEF Init, EndInv, DeadInv, StopInv, ErrorInv, VerdictInv
<1>2. TypeOK /\ QueueInv /\ EndInv /\ [Next]_vars => EndInv'
  <2> SUFFICES ASSUME TypeOK, QueueInv, EndInv, [Next]_vars
               PROVE  EndInv'
    OBVIOUS
  <2>1. CASE Done \/ UNCHANGED vars
    BY <2>1 DEF Done, vars, EndInv, DeadInv, StopInv, ErrorInv, VerdictInv, finderVars,
                childVars, mainVars, history
  <2>2. QED
    BY <2>1, EndInvFinder, EndInvWorker, EndInvChild, EndInvCaller DEF Next
<1>3. QED
  BY <1>1, <1>2, TypeCorrect, QueueInvariant, PTL DEF Spec

(* A call that ends has read the record of every file that failed and of   *)
(* every worker that went down, and lost files only with such a worker.    *)
THEOREM FailuresReported == Spec => []RaiseReportsEveryFailure
<1>1. TypeOK /\ EndInv => RaiseReportsEveryFailure
  <2> SUFFICES ASSUME TypeOK, EndInv, main \in {"returned", "raised"}, killed = {}
               PROVE  /\ errors \cap Files = failed
                      /\ errors \cap Workers = aborted
                      /\ dropped # {} <=> aborted # {}
                      /\ main = "raised" => finder = "failed" \/ errors # {}
    BY DEF RaiseReportsEveryFailure
  <2>1. err_pipe = {} /\ \A p \in Procs : err_buffer[p] = {}
    BY DEF EndInv, DeadInv, VerdictInv
  <2>2. \A r \in Records : r \in failed \cup aborted <=> r \in errors
    BY <2>1 DEF EndInv, ErrorInv
  <2>3. errors \cap Files = failed /\ errors \cap Workers = aborted
    BY <2>2, RecordsAssumption DEF TypeOK, Records
  <2>4. dropped # {} <=> aborted # {}
    BY DEF EndInv, StopInv
  <2>5. QED
    BY <2>3, <2>4 DEF EndInv, VerdictInv
<1>2. QED
  BY <1>1, TypeCorrect, EndInvariant, PTL

(* A call that returns, with no child killed, returns every file of its    *)
(* input: the workers can only have stopped because the flag was set, so   *)
(* no batch is queued, and they and the feeders hold nothing.              *)
THEOREM ReturnsEverything == Spec => []ReturnIsComplete
<1>1. TypeOK /\ QueueInv /\ IdleInv /\ EndInv /\ NoFileForgotten => ReturnIsComplete
  <2> SUFFICES ASSUME TypeOK, QueueInv, IdleInv, EndInv, NoFileForgotten,
                      main = "returned", killed = {}
               PROVE  input = <<>> /\ result = seen_paths /\ failed = {} /\ aborted = {}
    BY DEF ReturnIsComplete
  <2>1. finder = "finished" /\ errors = {} /\ err_pipe = {}
    BY DEF EndInv, VerdictInv
  <2>2. /\ out_pipe = {}
        /\ \A p \in Procs : out_buffer[p] = {} /\ err_buffer[p] = {}
        /\ \A p \in Procs, t \in Threads : pc[<<p, t>>] = "done"
    BY DEF EndInv, DeadInv
  <2>3. failed = {} /\ aborted = {}
    BY <2>1, <2>2 DEF EndInv, ErrorInv, TypeOK, Records
  <2>4. \A w \in Workers : pc[w] = "done"
    BY <2>2 DEF Workers
  <2>5. dropped = {} /\ all_paths_sent
    <3>1. Workers # {}
      <4>1. PICK p \in Procs, t \in Threads : TRUE
        BY BatchRunnerAssumption
      <4>2. <<p, t>> \in Workers
        BY DEF Workers
      <4>3. QED
        BY <4>2
    <3>2. QED
      BY <2>3, <2>4, <3>1 DEF EndInv, StopInv
  <2>6. batch = {} /\ Queued = {} /\ input = <<>>
    BY <2>1, <2>5 DEF QueueInv, Queued, FilesOf, None
  <2>7. InHand = {}
    BY <2>4 DEF IdleInv, InHand
  <2>8. Published = {}
    BY <2>2 DEF Published
  <2>9. QED
    BY <2>3, <2>5, <2>6, <2>7, <2>8 DEF NoFileForgotten
<1>2. QED
  BY <1>1, TypeCorrect, QueueInvariant, IdleInvariant, EndInvariant, NothingForgotten, PTL

-----------------------------------------------------------------------------
(* No file is in two places.                                               *)

(* A file is in at most one element of a queue.                            *)
OnceIn(q, f) == \A i, j \in DOMAIN q : f \in q[i] /\ f \in q[j] => i = j

(* A file that has not reached a worker waits in one place,                *)
WaitInv(f) == (f \in batch => f \notin Queued) /\ OnceIn(file_queue, f)

(* one that has is in the hands of one worker, done or to be done,         *)
Holds(w, f) == f \in todo[w] \/ f \in batch_processed[w]

HandInv(f) ==
    /\ \A v, w \in Workers : Holds(v, f) /\ Holds(w, f) => v = w
    /\ \A w \in Workers : f \in todo[w] => f \notin batch_processed[w]

(* one that was published is in one batch, in one buffer or in the pipe,   *)
TransitInv(f) ==
    /\ \A p, q \in Procs : \A b \in out_buffer[p], c \in out_buffer[q] :
          f \in b /\ f \in c => p = q /\ b = c
    /\ \A p \in Procs : \A b \in out_buffer[p], c \in out_pipe : f \in b => f \notin c
    /\ \A b, c \in out_pipe : f \in b /\ f \in c => b = c

(* and these three and the end of its way exclude each other.              *)
Ended(f) == f \in result \/ f \in failed \/ f \in dropped

ApartInv(f) ==
    /\ f \in batch \/ f \in Queued => ~InWorker(f) /\ ~InTransit(f) /\ ~Ended(f)
    /\ InWorker(f) => ~InTransit(f) /\ ~Ended(f)
    /\ InTransit(f) => ~Ended(f)
    /\ f \in result => f \notin failed /\ f \notin dropped

OnePlace(f) == WaitInv(f) /\ HandInv(f) /\ TransitInv(f) /\ ApartInv(f)

LEMMA OnceInTail ==
    ASSUME NEW q \in Seq(SUBSET Files), q # <<>>, NEW f, OnceIn(q, f)
    PROVE  OnceIn(Tail(q), f) /\ ~(f \in Head(q) /\ f \in FilesOf(Tail(q)))
<1> DEFINE r == Tail(q)
<1>1. /\ Len(q) \in Nat \ {0} /\ DOMAIN q = 1..Len(q) /\ Head(q) = q[1]
      /\ DOMAIN r = 1..(Len(q) - 1)
      /\ \A i \in 1..(Len(q) - 1) : r[i] = q[i + 1] /\ i + 1 \in DOMAIN q
  OBVIOUS
<1> HIDE DEF r
<1>2. OnceIn(r, f)
  BY <1>1 DEF OnceIn
<1>3. \A i \in DOMAIN r : f \in r[i] => f \notin q[1]
  BY <1>1 DEF OnceIn
<1>4. QED
  BY <1>1, <1>2, <1>3 DEF FilesOf, r

LEMMA OnceInConcat ==
    ASSUME NEW q \in Seq(SUBSET Files), NEW r \in Seq(SUBSET Files), NEW f,
           OnceIn(q, f), OnceIn(r, f), ~(f \in FilesOf(q) /\ f \in FilesOf(r))
    PROVE  OnceIn(q \o r, f)
<1> DEFINE s == q \o r
<1>1. /\ DOMAIN s \subseteq Int
      /\ \A i \in 1..Len(q) : s[i] = q[i]
      /\ \A i \in DOMAIN s : \/ i \in 1..Len(q)
                             \/ i - Len(q) \in 1..Len(r) /\ s[i] = r[i - Len(q)]
  BY ConcatElements
<1>2. /\ Len(q) \in Nat /\ DOMAIN q = 1..Len(q)
      /\ Len(r) \in Nat /\ DOMAIN r = 1..Len(r)
  OBVIOUS
<1> HIDE DEF s
<1>3. \A i \in DOMAIN s : f \in s[i] =>
         \/ i \in DOMAIN q /\ f \in q[i] /\ f \in FilesOf(q)
         \/ i - Len(q) \in DOMAIN r /\ f \in r[i - Len(q)] /\ f \in FilesOf(r)
  BY <1>1, <1>2 DEF FilesOf
<1>4. ASSUME NEW i \in DOMAIN s, NEW j \in DOMAIN s, f \in s[i], f \in s[j]
      PROVE  i = j
  <2>1. CASE f \in FilesOf(q)
    BY <1>3, <1>4, <2>1 DEF OnceIn
  <2>2. CASE f \notin FilesOf(q)
    <3>1. i - Len(q) = j - Len(q)
      BY <1>3, <1>4, <2>2 DEF OnceIn
    <3>2. QED
      BY <1>1, <1>2, <3>1
  <2>3. QED
    BY <2>1, <2>2
<1>5. QED
  BY <1>4 DEF OnceIn, s

(* A queue of one element.                                                 *)
LEMMA OnceInSingle ==
    ASSUME NEW b \in SUBSET Files, NEW f
    PROVE  <<b>> \in Seq(SUBSET Files) /\ OnceIn(<<b>>, f) /\ FilesOf(<<b>>) = b
BY DEF OnceIn, FilesOf

(* The finder puts a new file into one place, and moves the batch.         *)
LEMMA OnePlaceFinder ==
    ASSUME TypeOK, NEW f, Accounted(f), OnePlace(f), Finder
    PROVE  OnePlace(f)'
<1>1. /\ UNCHANGED <<childVars, out_pipe, mainVars, history>>
      /\ InWorker(f)' = InWorker(f) /\ InTransit(f)' = InTransit(f) /\ Ended(f)' = Ended(f)
  BY DEF Finder, HandlePath, EndDiscovery, StopsDiscovering, InWorker, InTransit, Ended,
         childVars, mainVars, history
<1>2. HandInv(f)' /\ TransitInv(f)'
  BY <1>1 DEF OnePlace, HandInv, TransitInv, Holds, childVars
<1>3. result' = result /\ failed' = failed /\ dropped' = dropped
  BY <1>1 DEF mainVars, history
<1>4. CASE HandlePath
  <2>1. CASE Head(input) \in seen_paths
    <3>1. UNCHANGED <<batch, file_queue>>
      BY <1>4, <2>1 DEF HandlePath
    <3>2. QED
      BY <1>1, <1>2, <1>3, <3>1 DEF OnePlace, WaitInv, ApartInv, OnceIn, Queued
  <2>2. CASE Head(input) \notin seen_paths
    <3> DEFINE g == Head(input)
               b == batch \cup {g}
    <3>1. \/ file_queue' = Append(file_queue, b) /\ batch' = {}
          \/ file_queue' = file_queue /\ batch' = b
      BY <1>4, <2>2 DEF HandlePath
    <3>2. b \in SUBSET Files /\ file_queue \in Seq(SUBSET Files)
      BY <1>4 DEF HandlePath, TypeOK
    <3>3. f = g => f \notin batch /\ f \notin Queued /\ ~InWorker(f) /\ ~InTransit(f) /\ ~Ended(f)
      BY <2>2 DEF Accounted, Ended
    <3>4. f \in batch' \/ f \in Queued' <=> f \in b \/ f \in Queued
      BY <3>1, <3>2, FilesOfAppend DEF Queued
    <3>5. f \in b => f \notin Queued
      BY <3>3 DEF OnePlace, WaitInv
    <3> HIDE DEF g, b
    <3>6. Append(file_queue, b) = file_queue \o <<b>>
      BY <3>2, AppendIsConcat
    <3>7. OnceIn(file_queue, f)
      BY DEF OnePlace, WaitInv
    <3>8. OnceIn(file_queue \o <<b>>, f)
      BY <3>2, <3>5, <3>7, OnceInSingle, OnceInConcat DEF Queued
    <3>9. WaitInv(f)'
      BY <3>1, <3>5, <3>6, <3>7, <3>8 DEF WaitInv, Queued
    <3>10. ApartInv(f)'
      BY <1>1, <1>3, <3>3, <3>4 DEF OnePlace, ApartInv, g, b
    <3>11. QED
      BY <1>2, <3>9, <3>10 DEF OnePlace
  <2>3. QED
    BY <2>1, <2>2
<1>5. CASE EndDiscovery
  <2>1. batch' = {} /\ file_queue' = file_queue \o PartialBatch \o Sentinels
    BY <1>5 DEF EndDiscovery, StopsDiscovering
  <2>2. /\ file_queue \in Seq(SUBSET Files) /\ PartialBatch \in Seq(SUBSET Files)
        /\ file_queue \o PartialBatch \in Seq(SUBSET Files) /\ Sentinels \in Seq(SUBSET Files)
    BY FlushType, SentinelsType DEF TypeOK
  <2>3. FilesOf(PartialBatch) = batch /\ OnceIn(PartialBatch, f)
    BY DEF FilesOf, PartialBatch, OnceIn
  <2>4. FilesOf(Sentinels) = {} /\ OnceIn(Sentinels, f)
    BY SentinelsType DEF FilesOf, None, OnceIn
  <2>5. OnceIn(file_queue \o PartialBatch, f)
    BY <2>2, <2>3, OnceInConcat DEF OnePlace, WaitInv, Queued
  <2>6. OnceIn(file_queue', f)
    BY <2>1, <2>2, <2>4, <2>5, OnceInConcat
  <2>7. Queued' = Queued \cup batch
    <3>1. FilesOf(file_queue \o PartialBatch \o Sentinels)
            = FilesOf(file_queue) \cup FilesOf(PartialBatch) \cup FilesOf(Sentinels)
      BY <2>2, FilesOfConcat
    <3>2. QED
      BY <2>1, <2>3, <2>4, <3>1 DEF Queued
  <2>8. QED
    BY <1>1, <1>2, <1>3, <2>1, <2>6, <2>7 DEF OnePlace, WaitInv, ApartInv
<1>6. QED
  BY <1>4, <1>5 DEF Finder

(* A batch that is published was in nobody else's hands.                   *)
LEMMA PublishedOnce ==
    ASSUME NEW f, TransitInv(f), NEW p \in Procs, NEW b, f \in b => ~InTransit(f),
           UNCHANGED out_pipe,
           \A q \in Procs : out_buffer'[q] = IF q = p THEN out_buffer[q] \cup {b} ELSE out_buffer[q]
    PROVE  TransitInv(f)'
<1>1. \A q \in Procs : \A c \in out_buffer'[q] :
         f \in c => \/ c \in out_buffer[q] /\ f \notin b
                    \/ q = p /\ c = b /\ ~InTransit(f)
  BY DEF InTransit
<1>2. \A c \in out_pipe : f \in c => InTransit(f)
  BY DEF InTransit
<1>3. \A p1, q1 \in Procs : \A c \in out_buffer'[p1], d \in out_buffer'[q1] :
         f \in c /\ f \in d => p1 = q1 /\ c = d
  BY <1>1 DEF TransitInv
<1>4. \A p1 \in Procs : \A c \in out_buffer'[p1], d \in out_pipe' : f \in c => f \notin d
  BY <1>1, <1>2 DEF TransitInv
<1>5. \A c, d \in out_pipe' : f \in c /\ f \in d => c = d
  BY DEF TransitInv
<1>6. QED
  BY <1>3, <1>4, <1>5 DEF TransitInv

LEMMA StopWorkerOnce ==
    ASSUME TypeOK, NEW f, OnePlace(f), NEW w \in Workers, StopWorker(w), UNCHANGED out_pipe
    PROVE  TransitInv(f)'
<1>1. Proc(w) \in Procs
  BY ProcType
<1>2. CASE batch_processed[w] = {}
  BY <1>2 DEF StopWorker, OnePlace, TransitInv
<1>3. CASE batch_processed[w] # {}
  <2>1. \A p \in Procs : out_buffer'[p] = IF p = Proc(w) THEN out_buffer[p] \cup {batch_processed[w]}
                                          ELSE out_buffer[p]
    BY <1>3 DEF StopWorker, TypeOK
  <2>2. f \in batch_processed[w] => ~InTransit(f)
    BY DEF OnePlace, ApartInv, InWorker
  <2>3. QED
    BY <1>1, <2>1, <2>2, PublishedOnce DEF OnePlace
<1>4. QED
  BY <1>2, <1>3

(* A worker takes files from the queue to the feeders, one place at a time.*)
LEMMA OnePlaceWorker ==
    ASSUME TypeOK, IdleInv, NEW f, OnePlace(f), NEW w \in Workers, Worker(w)
    PROVE  OnePlace(f)'
<1>1. /\ UNCHANGED <<finderVars, out_pipe, mainVars>>
      /\ batch' = batch /\ result' = result
  BY DEF Worker, GetBatch, GetSentinel, GetTimesOut, ProcessFile, FileFails, WorkerAborts,
         finderVars, mainVars
<1>2. /\ file_queue \in Seq(SUBSET Files)
      /\ WaitInv(f) /\ HandInv(f) /\ TransitInv(f) /\ ApartInv(f)
  BY DEF OnePlace, TypeOK
<1>3. InWorker(f) <=> \E v \in Workers : Holds(v, f)
  BY DEF InWorker, Holds
<1>4. InWorker(f)' <=> \E v \in Workers : Holds(v, f)'
  BY DEF InWorker, Holds
<1>5. CASE GetBatch(w)
  <2>1. /\ file_queue' = Tail(file_queue) /\ file_queue # <<>> /\ todo[w] = {}
        /\ \A v \in Workers : todo'[v] = IF v = w THEN Head(file_queue) ELSE todo[v]
        /\ batch_processed' = batch_processed /\ out_buffer' = out_buffer
        /\ failed' = failed /\ dropped' = dropped
    BY <1>5 DEF GetBatch, CanGet, IdleInv, history, TypeOK
  <2>2. UNCHANGED <<InTransit(f), Ended(f)>>
    BY <1>1, <2>1 DEF InTransit, Ended
  <2>3. Queued = Head(file_queue) \cup Queued'
    BY <1>2, <2>1, FilesOfTail DEF Queued
  <2>4. OnceIn(file_queue', f) /\ ~(f \in Head(file_queue) /\ f \in Queued')
    BY <1>2, <2>1, OnceInTail DEF WaitInv, Queued
  <2>5. WaitInv(f)'
    BY <1>1, <1>2, <2>3, <2>4 DEF WaitInv
  <2>6. ASSUME NEW v \in Workers
        PROVE  Holds(v, f)' <=> Holds(v, f) \/ (v = w /\ f \in Head(file_queue))
    <3>1. CASE v = w
      BY <2>1, <3>1 DEF Holds
    <3>2. CASE v # w
      BY <2>1, <3>2 DEF Holds
    <3>3. QED
      BY <3>1, <3>2
  <2>7. f \in Head(file_queue) => ~InWorker(f) /\ ~InTransit(f) /\ ~Ended(f) /\ f \notin batch
    BY <1>2, <2>3 DEF ApartInv, WaitInv
  <2>8. HandInv(f)'
    <3>1. \A v, u \in Workers : Holds(v, f)' /\ Holds(u, f)' => v = u
      BY <1>2, <1>3, <2>6, <2>7 DEF HandInv
    <3>2. \A v \in Workers : f \in todo'[v] => f \notin batch_processed'[v]
      BY <1>2, <1>3, <2>1, <2>7 DEF HandInv, Holds
    <3>3. QED
      BY <3>1, <3>2 DEF HandInv
  <2>9. TransitInv(f)'
    BY <1>1, <1>2, <2>1 DEF TransitInv
  <2>10. InWorker(f)' => InWorker(f) \/ f \in Head(file_queue)
    BY <1>3, <1>4, <2>6
  <2>11. ApartInv(f)'
    BY <1>1, <1>2, <2>1, <2>2, <2>3, <2>4, <2>7, <2>10 DEF ApartInv
  <2>12. QED
    BY <2>5, <2>8, <2>9, <2>11 DEF OnePlace
<1>6. CASE GetSentinel(w) \/ GetTimesOut(w)
  <2>1. StopWorker(w) /\ todo' = todo /\ failed' = failed /\ dropped' = dropped
    BY <1>6 DEF GetSentinel, GetTimesOut, history
  <2>2. /\ InTransit(f)' <=> InTransit(f) \/ f \in batch_processed[w]
        /\ \A v \in Workers : f \in batch_processed'[v] <=> v # w /\ f \in batch_processed[v]
    BY <1>1, <2>1, StopWorkerPlaces
  <2>3. Queued' = Queued
    BY <1>6, FilesOfTail DEF GetSentinel, GetTimesOut, Queued, TypeOK, None
  <2>4. OnceIn(file_queue', f)
    BY <1>2, <1>6, OnceInTail DEF GetSentinel, GetTimesOut, WaitInv, OnceIn
  <2>5. WaitInv(f)'
    BY <1>1, <1>2, <2>3, <2>4 DEF WaitInv
  <2>6. \A v \in Workers : Holds(v, f)' => Holds(v, f) /\ ~(v = w /\ f \in batch_processed[w])
    BY <1>2, <2>1, <2>2 DEF Holds, HandInv
  <2>7. HandInv(f)'
    BY <1>2, <2>1, <2>2, <2>6 DEF HandInv
  <2>8. TransitInv(f)'
    BY <1>1, <2>1, StopWorkerOnce
  <2>9. f \in batch_processed[w] => InWorker(f) /\ ~InWorker(f)'
    BY <1>2, <1>3, <1>4, <2>6 DEF HandInv, Holds
  <2>10. InWorker(f)' => InWorker(f)
    BY <1>3, <1>4, <2>6
  <2>11. Ended(f)' = Ended(f)
    BY <1>1, <2>1 DEF Ended
  <2>12. ApartInv(f)'
    BY <1>1, <1>2, <2>1, <2>2, <2>3, <2>9, <2>10, <2>11 DEF ApartInv
  <2>13. QED
    BY <2>5, <2>7, <2>8, <2>12 DEF OnePlace
<1>7. ASSUME NEW g \in Files, ProcessFile(w, g)
      PROVE  OnePlace(f)'
  <2> DEFINE filled == batch_processed[w] \cup {g}
  <2>1. /\ file_queue' = file_queue /\ failed' = failed /\ dropped' = dropped
        /\ g \in todo[w]
        /\ \A v \in Workers : todo'[v] = IF v = w THEN todo[w] \ {g} ELSE todo[v]
    BY <1>7 DEF ProcessFile, CanHandle, Handled, history, TypeOK
  <2>2. WaitInv(f)' /\ Queued' = Queued
    BY <1>1, <1>2, <2>1 DEF WaitInv, Queued, OnceIn
  <2>3. Ended(f)' = Ended(f)
    BY <1>1, <2>1 DEF Ended
  <2>4. f \in filled => Holds(w, f) /\ InWorker(f)
    BY <1>3, <2>1 DEF Holds
  <2>5. CASE Cardinality(filled) >= BatchSize
    <3>1. /\ \A v \in Workers : batch_processed'[v] = IF v = w THEN {} ELSE batch_processed[v]
          /\ \A p \in Procs : out_buffer'[p] = IF p = Proc(w) THEN out_buffer[p] \cup {filled}
                                               ELSE out_buffer[p]
      BY <1>7, <2>5 DEF ProcessFile, TypeOK
    <3>2. f \in filled => ~InTransit(f)
      BY <1>2, <2>4 DEF ApartInv
    <3>3. TransitInv(f)' /\ (InTransit(f)' <=> InTransit(f) \/ f \in filled)
      <4> HIDE DEF filled
      <4>1. Proc(w) \in Procs
        BY ProcType
      <4>2. QED
        BY <1>1, <1>2, <3>1, <3>2, <4>1, PublishedOnce DEF InTransit
    <3>4. \A v \in Workers : Holds(v, f)' => Holds(v, f) /\ ~(v = w /\ f \in filled)
      BY <1>2, <2>1, <3>1 DEF Holds, HandInv
    <3>5. HandInv(f)'
      BY <1>2, <2>1, <3>1, <3>4 DEF HandInv
    <3>6. f \in filled => ~InWorker(f)'
      BY <1>2, <1>4, <2>4, <3>4 DEF HandInv
    <3>7. InWorker(f)' => InWorker(f)
      BY <1>3, <1>4, <3>4
    <3>8. ApartInv(f)'
      BY <1>1, <1>2, <2>1, <2>2, <2>3, <2>4, <3>3, <3>6, <3>7 DEF ApartInv
    <3>9. QED
      BY <2>2, <3>3, <3>5, <3>8 DEF OnePlace
  <2>6. CASE ~(Cardinality(filled) >= BatchSize)
    <3>1. /\ \A v \in Workers : batch_processed'[v] = IF v = w THEN filled ELSE batch_processed[v]
          /\ out_buffer' = out_buffer
      BY <1>7, <2>6 DEF ProcessFile, TypeOK
    <3>2. TransitInv(f)' /\ InTransit(f)' = InTransit(f)
      BY <1>1, <1>2, <3>1 DEF TransitInv, InTransit
    <3>3. \A v \in Workers : Holds(v, f)' => Holds(v, f)
      BY <2>1, <3>1 DEF Holds
    <3>4. HandInv(f)'
      BY <1>2, <2>1, <3>1, <3>3 DEF HandInv
    <3>5. InWorker(f)' => InWorker(f)
      BY <1>3, <1>4, <3>3
    <3>6. ApartInv(f)'
      BY <1>1, <1>2, <2>1, <2>2, <2>3, <3>2, <3>5 DEF ApartInv
    <3>7. QED
      BY <2>2, <3>2, <3>4, <3>6 DEF OnePlace
  <2>7. QED
    BY <2>5, <2>6
<1>8. ASSUME NEW g \in Files, FileFails(w, g)
      PROVE  OnePlace(f)'
  <2>1. /\ file_queue' = file_queue /\ failed' = failed \cup {g} /\ dropped' = dropped
        /\ g \in todo[w] /\ batch_processed' = batch_processed /\ out_buffer' = out_buffer
        /\ \A v \in Workers : todo'[v] = IF v = w THEN todo[w] \ {g} ELSE todo[v]
    BY <1>8 DEF FileFails, CanHandle, Handled, TypeOK
  <2>2. WaitInv(f)' /\ Queued' = Queued
    BY <1>1, <1>2, <2>1 DEF WaitInv, Queued, OnceIn
  <2>3. TransitInv(f)' /\ InTransit(f)' = InTransit(f)
    BY <1>1, <1>2, <2>1 DEF TransitInv, InTransit
  <2>4. \A v \in Workers : Holds(v, f)' => Holds(v, f) /\ ~(v = w /\ f = g)
    BY <1>2, <2>1 DEF Holds, HandInv
  <2>5. HandInv(f)'
    BY <1>2, <2>1, <2>4 DEF HandInv
  <2>6. f = g => InWorker(f) /\ ~InWorker(f)'
    BY <1>2, <1>3, <1>4, <2>1, <2>4 DEF HandInv, Holds
  <2>7. InWorker(f)' => InWorker(f)
    BY <1>3, <1>4, <2>4
  <2>8. Ended(f)' <=> Ended(f) \/ f = g
    BY <1>1, <2>1 DEF Ended
  <2>9. ApartInv(f)'
    <3>1. CASE f = g
      BY <1>1, <1>2, <2>2, <2>3, <2>6, <3>1 DEF ApartInv, Ended
    <3>2. CASE f # g
      BY <1>1, <1>2, <2>1, <2>2, <2>3, <2>7, <2>8, <3>2 DEF ApartInv
    <3>3. QED
      BY <3>1, <3>2
  <2>10. QED
    BY <2>2, <2>3, <2>5, <2>9 DEF OnePlace
<1>9. ASSUME NEW g \in Files, WorkerAborts(w, g)
      PROVE  OnePlace(f)'
  <2>1. /\ file_queue' = file_queue /\ StopWorker(w)
        /\ failed' = failed /\ dropped' = dropped \cup todo[w]
        /\ \A v \in Workers : todo'[v] = IF v = w THEN {} ELSE todo[v]
    BY <1>9 DEF WorkerAborts, CanHandle, TypeOK
  <2>2. WaitInv(f)' /\ Queued' = Queued
    BY <1>1, <1>2, <2>1 DEF WaitInv, Queued, OnceIn
  <2>3. TransitInv(f)'
    BY <1>1, <2>1, StopWorkerOnce
  <2>4. /\ InTransit(f)' <=> InTransit(f) \/ f \in batch_processed[w]
        /\ \A v \in Workers : f \in batch_processed'[v] <=> v # w /\ f \in batch_processed[v]
    BY <1>1, <2>1, StopWorkerPlaces
  <2>5. \A v \in Workers : Holds(v, f)' => Holds(v, f) /\ v # w
    BY <2>1, <2>4 DEF Holds
  <2>6. HandInv(f)'
    BY <1>2, <2>1, <2>4, <2>5 DEF HandInv
  <2>7. Holds(w, f) => InWorker(f) /\ ~InWorker(f)'
    BY <1>2, <1>3, <1>4, <2>5 DEF HandInv
  <2>8. InWorker(f)' => InWorker(f)
    BY <1>3, <1>4, <2>5
  <2>9. ApartInv(f)'
    <3>1. CASE f \in todo[w]
      <4>1. f \notin batch_processed[w] /\ InWorker(f) /\ ~InWorker(f)'
        BY <1>2, <2>7, <3>1 DEF HandInv, Holds
      <4>2. QED
        BY <1>1, <1>2, <2>2, <2>4, <4>1 DEF ApartInv, Ended
    <3>2. CASE f \notin todo[w]
      <4>1. Ended(f)' = Ended(f) /\ failed' \cap {f} = failed \cap {f} /\ dropped' \cap {f} = dropped \cap {f}
        BY <1>1, <2>1, <3>2 DEF Ended
      <4>2. f \in batch_processed[w] => InWorker(f) /\ ~InWorker(f)'
        BY <2>7 DEF Holds
      <4>3. QED
        BY <1>1, <1>2, <2>2, <2>4, <2>8, <4>1, <4>2 DEF ApartInv
    <3>3. QED
      BY <3>1, <3>2
  <2>10. QED
    BY <2>2, <2>3, <2>6, <2>9 DEF OnePlace
<1>10. QED
  BY <1>5, <1>6, <1>7, <1>8, <1>9 DEF Worker

(* A feeder moves a batch, a kill drops all that its process holds.        *)
LEMMA OnePlaceChild ==
    ASSUME TypeOK, NEW f, OnePlace(f), NEW p \in Procs, Child(p) \/ Kill(p)
    PROVE  OnePlace(f)'
<1>1. /\ UNCHANGED <<finderVars, file_queue, mainVars, failed>>
      /\ batch' = batch /\ result' = result
  BY DEF Child, FeedResult, FeedError, ProcessExits, Kill, finderVars, mainVars, history
<1>2. WaitInv(f) /\ HandInv(f) /\ TransitInv(f) /\ ApartInv(f)
  BY DEF OnePlace
<1>3. WaitInv(f)' /\ Queued' = Queued
  BY <1>1, <1>2 DEF WaitInv, Queued, OnceIn
<1>4. CASE Child(p)
  <2>1. UNCHANGED <<todo, batch_processed, dropped>>
    BY <1>4 DEF Child, FeedResult, FeedError, ProcessExits, history
  <2>2. HandInv(f)' /\ InWorker(f)' = InWorker(f) /\ Ended(f)' = Ended(f)
    BY <1>1, <1>2, <2>1 DEF HandInv, Holds, InWorker, Ended
  <2>3. TransitInv(f)' /\ (InTransit(f)' => InTransit(f))
    <3>1. CASE FeedResult(p)
      <4>1. PICK b \in out_buffer[p] :
               /\ \A q \in Procs : out_buffer'[q] = IF q = p THEN out_buffer[q] \ {b} ELSE out_buffer[q]
               /\ out_pipe' = out_pipe \cup {b}
        BY <3>1 DEF FeedResult, TypeOK
      <4>2. \A q \in Procs : \A c \in out_buffer'[q] :
               /\ c \in out_buffer[q]
               /\ f \in c => f \notin b
        BY <1>2, <4>1 DEF TransitInv
      <4>3. /\ \A q \in Procs : \A c \in out_buffer'[q], d \in out_pipe' : f \in c => f \notin d
            /\ \A c, d \in out_pipe' : f \in c /\ f \in d => c = d
        BY <1>2, <4>1, <4>2 DEF TransitInv
      <4>4. \A r, q \in Procs : \A c \in out_buffer'[r], d \in out_buffer'[q] :
               f \in c /\ f \in d => r = q /\ c = d
        BY <1>2, <4>2 DEF TransitInv
      <4>5. InTransit(f)' => InTransit(f)
        BY <4>1, <4>2 DEF InTransit
      <4>6. QED
        BY <4>3, <4>4, <4>5 DEF TransitInv
    <3>2. CASE FeedError(p) \/ ProcessExits(p)
      BY <1>2, <3>2 DEF FeedError, ProcessExits, TransitInv, InTransit
    <3>3. QED
      BY <1>4, <3>1, <3>2 DEF Child
  <2>4. ApartInv(f)'
    BY <1>1, <1>2, <1>3, <2>1, <2>2, <2>3 DEF ApartInv
  <2>5. QED
    BY <1>3, <2>2, <2>3, <2>4 DEF OnePlace
<1>5. CASE Kill(p)
  <2>1. /\ out_pipe' = out_pipe
        /\ dropped' = dropped \cup Held(p) \cup UNION out_buffer[p]
        /\ \A w \in Workers : /\ todo'[w] = IF Proc(w) = p THEN {} ELSE todo[w]
                              /\ batch_processed'[w] = IF Proc(w) = p THEN {} ELSE batch_processed[w]
        /\ \A q \in Procs : out_buffer'[q] = IF q = p THEN {} ELSE out_buffer[q]
    BY <1>5 DEF Kill, TypeOK
  <2>2. \A w \in Workers : Holds(w, f)' => Holds(w, f) /\ Proc(w) # p
    BY <2>1 DEF Holds
  <2>3. HandInv(f)'
    BY <1>2, <2>1, <2>2 DEF HandInv
  <2>4. TransitInv(f)'
    <3>1. \A q \in Procs : \A c \in out_buffer'[q] : c \in out_buffer[q]
      BY <2>1
    <3>2. QED
      BY <1>2, <2>1, <3>1 DEF TransitInv
  <2>5. f \in Held(p) => \E w \in Workers : Proc(w) = p /\ Holds(w, f)
    <3>1. \A t \in Threads : <<p, t>> \in Workers /\ Proc(<<p, t>>) = p
      BY DEF Workers, Proc
    <3>2. QED
      BY <3>1, Places DEF Holds
  <2>6. f \in Held(p) => InWorker(f) /\ ~InWorker(f)'
    <3>1. f \in Held(p) => \A w \in Workers : ~Holds(w, f)'
      BY <1>2, <2>2, <2>5 DEF HandInv
    <3>2. QED
      BY <2>5, <3>1 DEF InWorker, Holds
  <2>7. f \in UNION out_buffer[p] => InTransit(f) /\ ~InTransit(f)'
    <3>1. ASSUME NEW b \in out_buffer[p], f \in b
          PROVE  InTransit(f) /\ ~InTransit(f)'
      BY <1>2, <2>1, <3>1 DEF TransitInv, InTransit
    <3>2. QED
      BY <3>1
  <2>8. (InWorker(f)' => InWorker(f)) /\ (InTransit(f)' => InTransit(f))
    BY <2>1, <2>2 DEF InWorker, InTransit, Holds
  <2>9. ApartInv(f)'
    <3>1. CASE f \in Held(p) \/ f \in UNION out_buffer[p]
      BY <1>1, <1>2, <1>3, <2>6, <2>7, <2>8, <3>1 DEF ApartInv, Ended
    <3>2. CASE f \notin Held(p) /\ f \notin UNION out_buffer[p]
      <4>1. f \in dropped' <=> f \in dropped
        BY <2>1, <3>2
      <4>2. Ended(f)' <=> Ended(f)
        BY <1>1, <4>1 DEF Ended
      <4>3. QED
        BY <1>1, <1>2, <1>3, <2>8, <4>1, <4>2 DEF ApartInv
    <3>3. QED
      BY <3>1, <3>2
  <2>10. QED
    BY <1>3, <2>3, <2>4, <2>9 DEF OnePlace
<1>6. QED
  BY <1>4, <1>5

(* The collector takes batches out of the pipe.                            *)
LEMMA OnePlaceCaller ==
    ASSUME TypeOK, NEW f, OnePlace(f), Caller
    PROVE  OnePlace(f)'
<1>1. /\ UNCHANGED <<finderVars, file_queue, childVars, history>>
      /\ batch' = batch /\ todo' = todo /\ batch_processed' = batch_processed
      /\ out_buffer' = out_buffer /\ failed' = failed /\ dropped' = dropped
  BY DEF Caller, Collect, EndCollection, Finish, finderVars, childVars, history
<1>2. WaitInv(f) /\ HandInv(f) /\ TransitInv(f) /\ ApartInv(f)
  BY DEF OnePlace
<1>3. WaitInv(f)' /\ Queued' = Queued /\ HandInv(f)' /\ InWorker(f)' = InWorker(f)
  BY <1>1, <1>2 DEF WaitInv, Queued, OnceIn, HandInv, Holds, InWorker
<1>4. out_pipe' \subseteq out_pipe
  BY DEF Caller, Collect, EndCollection, Finish
<1>5. TransitInv(f)'
  BY <1>1, <1>2, <1>4 DEF TransitInv
<1>6. InTransit(f)' => InTransit(f)
  BY <1>1, <1>4 DEF InTransit
<1>7. \/ f \in result' <=> f \in result
      \/ f \in result' /\ InTransit(f) /\ ~InTransit(f)'
  <2>1. CASE Collect
    <3>1. PICK b \in out_pipe : result' = result \cup b /\ out_pipe' = out_pipe \ {b}
      BY <2>1 DEF Collect
    <3>2. f \in b => InTransit(f) /\ ~InTransit(f)'
      BY <1>1, <1>2, <3>1 DEF TransitInv, InTransit
    <3>3. QED
      BY <3>1, <3>2
  <2>2. CASE EndCollection
    <3>1. result' = result \cup UNION out_pipe /\ out_pipe' = {}
      BY <2>2 DEF EndCollection
    <3>2. ASSUME NEW b \in out_pipe, f \in b
          PROVE  InTransit(f) /\ ~InTransit(f)'
      BY <1>1, <1>2, <3>1, <3>2 DEF TransitInv, InTransit
    <3>3. QED
      BY <3>1, <3>2
  <2>3. CASE Finish
    BY <2>3 DEF Finish
  <2>4. QED
    BY <2>1, <2>2, <2>3 DEF Caller
<1>8. ApartInv(f)'
  <2>1. CASE f \in result' <=> f \in result
    <3>1. Ended(f)' <=> Ended(f)
      BY <1>1, <2>1 DEF Ended
    <3>2. QED
      BY <1>1, <1>2, <1>3, <1>6, <2>1, <3>1 DEF ApartInv
  <2>2. CASE f \in result' /\ InTransit(f) /\ ~InTransit(f)'
    BY <1>1, <1>2, <1>3, <2>2 DEF ApartInv, Ended
  <2>3. QED
    BY <1>7, <2>1, <2>2
<1>9. QED
  BY <1>3, <1>5, <1>8 DEF OnePlace

(* Every file is in one place, which is one it was discovered for.         *)
PlaceInv == \A f : Accounted(f) /\ OnePlace(f)

(* A discovered file is never lost and never duplicated between finder,   *)
(* workers, pipe and result.                                               *)
THEOREM PlaceInvariant == Spec => []PlaceInv
<1>1. Init => PlaceInv
  BY DEF Init, PlaceInv, Accounted, OnePlace, WaitInv, OnceIn, HandInv, Holds, TransitInv, ApartInv,
         Ended, Queued, FilesOf, InWorker, InTransit
<1>2. TypeOK /\ IdleInv /\ QueueInv /\ PlaceInv /\ [Next]_vars => PlaceInv'
  <2> SUFFICES ASSUME TypeOK, IdleInv, QueueInv, PlaceInv, [Next]_vars, NEW f
               PROVE  Accounted(f)' /\ OnePlace(f)'
    BY DEF PlaceInv
  <2>1. Accounted(f) /\ OnePlace(f)
    BY DEF PlaceInv
  <2>2. Accounted(f)'
    BY <2>1, AccountedStep
  <2>3. CASE Done \/ UNCHANGED vars
    <3>1. /\ batch' = batch /\ file_queue' = file_queue /\ todo' = todo
          /\ batch_processed' = batch_processed /\ out_buffer' = out_buffer /\ out_pipe' = out_pipe
          /\ result' = result /\ failed' = failed /\ dropped' = dropped
      BY <2>3 DEF Done, vars, finderVars, childVars, mainVars, history
    <3>2. WaitInv(f)' /\ HandInv(f)' /\ TransitInv(f)'
      BY <2>1, <3>1 DEF OnePlace, WaitInv, OnceIn, Queued, HandInv, Holds, TransitInv
    <3>3. ApartInv(f)'
      BY <2>1, <3>1 DEF OnePlace, ApartInv, Ended, Queued, InWorker, InTransit
    <3>4. QED
      BY <2>2, <3>2, <3>3 DEF OnePlace
  <2>4. CASE Finder
    BY <2>1, <2>2, <2>4, OnePlaceFinder
  <2>5. ASSUME NEW w \in Workers, Worker(w) PROVE OnePlace(f)'
    BY <2>1, <2>5, OnePlaceWorker
  <2>6. ASSUME NEW p \in Procs, Child(p) \/ Kill(p) PROVE OnePlace(f)'
    BY <2>1, <2>6, OnePlaceChild
  <2>7. CASE Caller
    BY <2>1, <2>2, <2>7, OnePlaceCaller
  <2>8. QED
    BY <2>2, <2>3, <2>4, <2>5, <2>6, <2>7 DEF Next
<1>3. QED
  BY <1>1, <1>2, TypeCorrect, IdleInvariant, QueueInvariant, PTL DEF Spec

(* No file is preprocessed twice, although it may be listed several times, *)
(* whatever fails and whatever is killed.                                  *)
THEOREM NothingTwice == Spec => []NoFileTwice
<1>1. PlaceInv => NoFileTwice
  <2> SUFFICES ASSUME PlaceInv
               PROVE  NoFileTwice
    OBVIOUS
  <2>1. \A f : HandInv(f) /\ ApartInv(f)
    BY DEF PlaceInv, OnePlace
  <2>2. \A v, w \in Workers :
           v # w => (todo[v] \cup batch_processed[v]) \cap (todo[w] \cup batch_processed[w]) = {}
    BY <2>1 DEF HandInv, Holds
  <2>3. ASSUME NEW f
        PROVE  /\ f \in InHand => /\ f \notin batch /\ f \notin Queued /\ f \notin Published
                                  /\ f \notin result /\ f \notin failed /\ f \notin dropped
               /\ f \in batch \/ f \in Queued => /\ f \notin Published /\ f \notin result
                                                 /\ f \notin failed /\ f \notin dropped
    BY <2>1, Places DEF ApartInv, Ended
  <2>4. QED
    BY <2>2, <2>3 DEF NoFileTwice
<1>2. QED
  BY <1>1, PlaceInvariant, PTL

(* The result holds only files that were discovered and neither failed nor *)
(* were lost: what a worker or a process loses was never published.        *)
THEOREM ResultsAreSound == Spec => []ResultIsSound
<1>1. PlaceInv => ResultIsSound
  <2> SUFFICES ASSUME PlaceInv, NEW f \in result
               PROVE  f \in seen_paths \ (failed \cup dropped)
    BY DEF ResultIsSound
  <2>1. Accounted(f) /\ ApartInv(f)
    BY DEF PlaceInv, OnePlace
  <2>2. QED
    BY <2>1 DEF Accounted, ApartInv
<1>2. QED
  BY <1>1, PlaceInvariant, PTL

-----------------------------------------------------------------------------
(* A call in which no child is killed implements Preprocessing.            *)

(* What the steps of the call need to know of its states.                  *)
CallInv == /\ TypeOK /\ EndInv /\ PlaceInv /\ ReturnIsComplete
           /\ killed = {}

LEMMA NoKills ==
    ASSUME MaxKills = 0
    PROVE  Spec => [](killed = {})
<1>1. Init => killed = {}
  BY DEF Init
<1>2. killed = {} /\ [Next]_vars => (killed = {})'
  <2> SUFFICES ASSUME killed = {}, [Next]_vars
               PROVE  (killed = {})'
    OBVIOUS
  <2>1. ~(Cardinality(killed) < MaxKills)
    BY FS_EmptySet
  <2>2. \A p \in Procs : ~Kill(p)
    BY <2>1 DEF Kill
  <2>3. QED
    BY <2>2 DEF Next, Finder, HandlePath, EndDiscovery, StopsDiscovering, Worker, GetBatch,
       GetSentinel, GetTimesOut, ProcessFile, FileFails, WorkerAborts, Child, FeedResult, FeedError,
       ProcessExits, Caller, Collect, EndCollection, Finish, Done, vars, childVars
<1>3. QED
  BY <1>1, <1>2, PTL DEF Spec

(* The variables of Preprocessing.                                         *)
LEMMA PromiseFrame ==
    ASSUME UNCHANGED <<seen_paths, result, failed, dropped, finder, main>>
    PROVE  UNCHANGED Promise!vars
BY DEF Promise!vars

(* While a child is alive or the finder is at work the call is running.    *)
LEMMA Running ==
    ASSUME CallInv
    PROVE  /\ finder = "discovering" => main \in {"collecting", "joining"}
           /\ \A p \in Procs : alive[p] => main = "collecting"
BY DEF CallInv, EndInv, DeadInv, VerdictInv, TypeOK

(* What is in a worker's hands or on its way is outstanding.               *)
LEMMA OutstandingFiles ==
    ASSUME CallInv, NEW f, InWorker(f) \/ InTransit(f)
    PROVE  f \in Promise!Outstanding
<1>1. Accounted(f) /\ ApartInv(f)
  BY DEF CallInv, PlaceInv, OnePlace
<1>2. f \in seen_paths /\ ~Ended(f)
  BY <1>1 DEF Accounted, ApartInv
<1>3. QED
  BY <1>2 DEF Ended, Promise!Outstanding

LEMMA FinderStep == CallInv /\ Finder => [Promise!Next]_(Promise!vars)
<1> SUFFICES ASSUME CallInv, Finder PROVE [Promise!Next]_(Promise!vars)
  OBVIOUS
<1>1. /\ UNCHANGED <<result, failed, dropped, main>>
      /\ finder = "discovering" /\ main \in {"collecting", "joining"}
  BY Running DEF Finder, HandlePath, EndDiscovery, StopsDiscovering, mainVars, history
<1>2. CASE HandlePath
  <2>1. finder' = finder /\ Head(input) \in Files
    BY <1>2 DEF HandlePath, CallInv, TypeOK
  <2>2. CASE Head(input) \in seen_paths
    BY <1>1, <1>2, <2>1, <2>2, PromiseFrame DEF HandlePath
  <2>3. CASE Head(input) \notin seen_paths
    <3>1. seen_paths' = seen_paths \cup {Head(input)}
      BY <1>2, <2>3 DEF HandlePath
    <3>2. Promise!Discover(Head(input))
      BY <1>1, <2>1, <3>1 DEF Promise!Discover
    <3>3. QED
      BY <2>1, <3>2 DEF Promise!Next
  <2>4. QED
    BY <2>2, <2>3
<1>3. CASE EndDiscovery
  <2>1. seen_paths' = seen_paths /\ finder' \in {"finished", "failed"}
    BY <1>3 DEF EndDiscovery, StopsDiscovering
  <2>2. CASE finder' = "finished"
    BY <1>1, <2>1, <2>2 DEF Promise!vars
  <2>3. CASE finder' = "failed"
    <3>1. Promise!FailDiscovery
      BY <1>1, <2>1, <2>3 DEF Promise!FailDiscovery
    <3>2. QED
      BY <3>1 DEF Promise!Next
  <2>4. QED
    BY <2>1, <2>2, <2>3
<1>4. QED
  BY <1>2, <1>3 DEF Finder

LEMMA WorkerStep ==
    ASSUME CallInv, NEW w \in Workers, Worker(w)
    PROVE  [Promise!Next]_(Promise!vars)
<1>1. /\ UNCHANGED <<seen_paths, finder, result, main>>
      /\ alive[Proc(w)]
  BY DEF Worker, GetBatch, GetSentinel, GetTimesOut, ProcessFile, FileFails, WorkerAborts,
         CanGet, CanHandle, finderVars, mainVars
<1>2. main = "collecting"
  BY <1>1, Running, ProcType
<1>3. CASE GetBatch(w) \/ GetSentinel(w) \/ GetTimesOut(w)
  <2>1. UNCHANGED <<failed, dropped>>
    BY <1>3 DEF GetBatch, GetSentinel, GetTimesOut, history
  <2>2. QED
    BY <1>1, <2>1, PromiseFrame
<1>4. ASSUME NEW g \in Files, ProcessFile(w, g)
      PROVE  [Promise!Next]_(Promise!vars)
  <2>1. UNCHANGED <<failed, dropped>>
    BY <1>4 DEF ProcessFile, history
  <2>2. QED
    BY <1>1, <2>1, PromiseFrame
<1>5. ASSUME NEW S \in SUBSET todo[w], (failed \cup dropped)' = (failed \cup dropped) \cup S
      PROVE  [Promise!Next]_(Promise!vars)
  <2>1. S \in SUBSET Files
    BY DEF CallInv, TypeOK
  <2>2. S \subseteq Promise!Outstanding
    <3>1. \A f \in S : InWorker(f)
      BY DEF InWorker
    <3>2. QED
      BY <3>1, OutstandingFiles
  <2>3. Promise!Fail(S)
    BY <1>1, <1>2, <1>5, <2>2 DEF Promise!Fail
  <2>4. QED
    BY <2>1, <2>3 DEF Promise!Next
<1>6. ASSUME NEW g \in Files, FileFails(w, g)
      PROVE  [Promise!Next]_(Promise!vars)
  <2>1. {g} \in SUBSET todo[w] /\ (failed \cup dropped)' = (failed \cup dropped) \cup {g}
    BY <1>6 DEF FileFails, CanHandle
  <2>2. QED
    BY <1>5, <2>1
<1>7. ASSUME NEW g \in Files, WorkerAborts(w, g)
      PROVE  [Promise!Next]_(Promise!vars)
  <2>1. todo[w] \in SUBSET todo[w] /\ (failed \cup dropped)' = (failed \cup dropped) \cup todo[w]
    BY <1>7 DEF WorkerAborts, CanHandle
  <2>2. QED
    BY <1>5, <2>1
<1>8. QED
  BY <1>3, <1>4, <1>6, <1>7 DEF Worker

LEMMA CallerStep ==
    ASSUME CallInv, CallInv', Caller
    PROVE  [Promise!Next]_(Promise!vars)
<1>1. UNCHANGED <<seen_paths, finder, failed, aborted, dropped>>
  BY DEF Caller, Collect, EndCollection, Finish, finderVars, history
<1>2. ASSUME NEW S, \A f \in S : InTransit(f), main \in {"collecting", "joining"},
             main' \in {"collecting", "joining"}, result' = result \cup S
      PROVE  [Promise!Next]_(Promise!vars)
  <2>1. S \subseteq Promise!Outstanding
    BY <1>2, OutstandingFiles
  <2>2. S \in SUBSET Files
    BY <2>1 DEF Promise!Outstanding, CallInv, TypeOK
  <2>3. Promise!Collect(S)
    BY <1>1, <1>2, <2>1 DEF Promise!Collect
  <2>4. QED
    BY <2>2, <2>3 DEF Promise!Next
<1>3. CASE Collect
  <2>1. PICK b \in out_pipe : result' = result \cup b
    BY <1>3 DEF Collect
  <2>2. main = "collecting" /\ main' = "collecting"
    BY <1>3 DEF Collect
  <2>3. \A f \in b : InTransit(f)
    BY DEF InTransit
  <2>4. QED
    BY <1>2, <2>1, <2>2, <2>3
<1>4. CASE EndCollection
  <2>1. main = "collecting" /\ main' = "joining" /\ result' = result \cup UNION out_pipe
    BY <1>4 DEF EndCollection
  <2>2. \A f \in UNION out_pipe : InTransit(f)
    BY DEF InTransit
  <2>3. QED
    BY <1>2, <2>1, <2>2
<1>5. CASE Finish
  <2>1. /\ main = "joining" /\ result' = result
        /\ main' = IF finder = "failed" \/ err_pipe # {} THEN "raised" ELSE "returned"
    BY <1>5 DEF Finish
  <2>2. CASE main' = "raised"
    <3>1. finder = "failed" \/ failed # {} \/ dropped # {}
      BY <2>1, <2>2 DEF CallInv, EndInv, StopInv, ErrorInv, TypeOK
    <3>2. Promise!Raise
      BY <1>1, <2>1, <2>2, <3>1 DEF Promise!Raise
    <3>3. QED
      BY <3>2 DEF Promise!Next
  <2>3. CASE main' = "returned"
    <3>1. failed = {} /\ aborted = {} /\ result = seen_paths
      BY <1>1, <2>1, <2>3 DEF CallInv, ReturnIsComplete
    <3>2. dropped = {} /\ finder # "failed"
      BY <2>1, <2>3, <3>1 DEF CallInv, EndInv, StopInv
    <3>3. Promise!Return
      BY <1>1, <2>1, <2>3, <3>1, <3>2 DEF Promise!Return
    <3>4. QED
      BY <3>3 DEF Promise!Next
  <2>4. QED
    BY <2>1, <2>2, <2>3
<1>6. QED
  BY <1>3, <1>4, <1>5 DEF Caller

(* A call in which no child is killed keeps what Preprocessing promises:   *)
(* its steps discover, collect or fail files that are outstanding, return  *)
(* a complete result, raise for a reason, or are hidden from the caller.   *)
THEOREM KeepsPromise == ASSUME MaxKills = 0 PROVE Spec => ImplementsPreprocessing
<1>1. Init => Promise!Init
  BY DEF Init, Promise!Init
<1>2. CallInv /\ CallInv' /\ [Next]_vars => [Promise!Next]_(Promise!vars)
  <2> SUFFICES ASSUME CallInv, CallInv', [Next]_vars
               PROVE  [Promise!Next]_(Promise!vars)
    OBVIOUS
  <2>1. CASE Finder
    BY <2>1, FinderStep
  <2>2. ASSUME NEW w \in Workers, Worker(w) PROVE [Promise!Next]_(Promise!vars)
    BY <2>2, WorkerStep
  <2>3. ASSUME NEW p \in Procs, Child(p) PROVE [Promise!Next]_(Promise!vars)
    BY <2>3, PromiseFrame DEF Child, FeedResult, FeedError, ProcessExits, finderVars, mainVars, history
  <2>4. ASSUME NEW p \in Procs, Kill(p) PROVE FALSE
    BY <2>4, FS_EmptySet DEF CallInv, Kill
  <2>5. CASE Caller
    BY <2>5, CallerStep
  <2>6. CASE Done \/ UNCHANGED vars
    BY <2>6, PromiseFrame DEF Done, vars, finderVars, mainVars, history
  <2>7. QED
    BY <2>1, <2>2, <2>3, <2>4, <2>5, <2>6 DEF Next
<1>3. Spec => []CallInv
  BY TypeCorrect, EndInvariant, PlaceInvariant, ReturnsEverything, NoKills, PTL DEF CallInv
<1>4. QED
  BY <1>1, <1>2, <1>3, PTL DEF Spec, ImplementsPreprocessing, Promise!Spec
=============================================================================
