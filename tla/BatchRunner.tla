----------------------------- MODULE BatchRunner -----------------------------
(***************************************************************************)
(* The parallel Franca preprocessor (preprocessor/batch_runner.py).        *)
(*                                                                         *)
(* One parent process runs two threads: the finder walks the input paths   *)
(* and queues batches of files, and the caller of batch_run collects what  *)
(* comes back.  Each child process runs a pool of worker threads.  Three   *)
(* multiprocessing queues connect them: files to the workers, processed    *)
(* batches and error records back to the parent.                           *)
(*                                                                         *)
(* A multiprocessing.Queue is an unbounded buffer in each writing process, *)
(* a feeder thread, and a bounded OS pipe.  A process ends only when its   *)
(* feeder threads have emptied its buffers into the pipes.  The queue of   *)
(* files has one writer and is kept as one FIFO sequence; a get on it may  *)
(* report Empty at any time, because the feeder lags behind the writer and *)
(* because the read lock is contended.  Results and errors are written by  *)
(* several processes and read as sets, since the parent keys results by    *)
(* path and only lists the errors.                                         *)
(*                                                                         *)
(* What preprocess() does to a file is not modelled here: a file is        *)
(* processed, fails, or (when resolving its path raises) takes its worker  *)
(* down.  The record of a failed file names it; the record of a worker that*)
(* went down has no file ("File: <unknown>") and is identified by its      *)
(* process and thread.                                                     *)
(***************************************************************************)
EXTENDS Naturals, Sequences, FiniteSets

CONSTANTS
    Files,      \* resolved paths of supported, existing input files
    Missing,    \* an explicitly listed path that does not exist
    Procs,      \* child processes
    Threads,    \* worker threads of each child process
    Inputs,     \* the path sequences a call may be given
    BatchSize,  \* files per queued batch and per published result
    ErrorPipe,  \* error records that fit in the pipe of the error queue
    MaxKills    \* child processes that may be killed from outside

ASSUME BatchRunnerAssumption ==
    /\ IsFiniteSet(Files) /\ IsFiniteSet(Procs) /\ IsFiniteSet(Threads)
    /\ Procs # {} /\ Threads # {}
    /\ Missing \notin Files
    /\ Inputs \subseteq Seq(Files \cup {Missing})
    /\ BatchSize \in Nat \ {0}
    /\ ErrorPipe \in Nat
    /\ MaxKills \in Nat

Workers == Procs \X Threads

(* Error records, by what they name.                                       *)
Records == Files \cup Workers
ASSUME RecordsAssumption == Files \cap Workers = {}

(* The sentinel that tells a worker to stop.  A queued batch is never      *)
(* empty, so the empty set can stand for it.                               *)
None == {}

VARIABLES
    \* the finder thread
    input,           \* paths it has not looked at yet
    seen_paths,      \* files it has discovered
    batch,           \* files of the batch being filled
    finder,          \* "discovering", "finished" or "failed"
    \* shared by all processes
    file_queue,      \* batches and sentinels, oldest first
    all_paths_sent,  \* some worker has read a sentinel
    out_pipe,        \* published batches the collector can read
    err_pipe,        \* error records the parent can read
    rlock_lost,      \* a killed process held the read lock of file_queue
    \* the child processes and their worker threads
    alive,           \* process has not ended
    killed,          \* processes killed from outside
    out_buffer,      \* published batches not yet fed to out_pipe
    err_buffer,      \* error records not yet fed to err_pipe
    pc,              \* "get", "work" or "done", per worker
    todo,            \* files of its batch a worker has not handled yet
    batch_processed, \* processed files a worker has not published yet
    \* the caller of batch_run
    main,            \* "collecting", "joining", "returned" or "raised"
    result,          \* files whose text is in the result
    errors,          \* the error records read at the end
    \* history
    failed,          \* files whose processing raised
    aborted,         \* workers that an error took down
    dropped          \* files lost with the worker or process holding them

finderVars == <<input, seen_paths, batch, finder>>
childVars  == <<alive, killed, out_buffer, err_buffer, pc, todo, batch_processed, rlock_lost>>
mainVars   == <<main, result, errors>>
history    == <<failed, aborted, dropped>>
vars == <<finderVars, file_queue, all_paths_sent, out_pipe, err_pipe, childVars,
          mainVars, history>>

TypeOK ==
    /\ input \in Seq(Files \cup {Missing})
    /\ seen_paths \in SUBSET Files
    /\ batch \in SUBSET Files
    /\ finder \in {"discovering", "finished", "failed"}
    /\ file_queue \in Seq(SUBSET Files)
    /\ all_paths_sent \in BOOLEAN
    /\ out_pipe \in SUBSET SUBSET Files
    /\ err_pipe \in SUBSET Records
    /\ rlock_lost \in BOOLEAN
    /\ alive \in [Procs -> BOOLEAN]
    /\ killed \in SUBSET Procs
    /\ out_buffer \in [Procs -> SUBSET SUBSET Files]
    /\ err_buffer \in [Procs -> SUBSET Records]
    /\ pc \in [Workers -> {"get", "work", "done"}]
    /\ todo \in [Workers -> SUBSET Files]
    /\ batch_processed \in [Workers -> SUBSET Files]
    /\ main \in {"collecting", "joining", "returned", "raised"}
    /\ result \in SUBSET Files
    /\ errors \in SUBSET Records
    /\ failed \in SUBSET Files
    /\ aborted \in SUBSET Workers
    /\ dropped \in SUBSET Files

Init ==
    /\ input \in Inputs
    /\ seen_paths = {} /\ batch = {} /\ finder = "discovering"
    /\ file_queue = <<>> /\ all_paths_sent = FALSE
    /\ out_pipe = {} /\ err_pipe = {} /\ rlock_lost = FALSE
    /\ alive = [p \in Procs |-> TRUE] /\ killed = {}
    /\ out_buffer = [p \in Procs |-> {}]
    /\ err_buffer = [p \in Procs |-> {}]
    /\ pc = [w \in Workers |-> "get"]
    /\ todo = [w \in Workers |-> {}]
    /\ batch_processed = [w \in Workers |-> {}]
    /\ main = "collecting" /\ result = {} /\ errors = {}
    /\ failed = {} /\ aborted = {} /\ dropped = {}

-----------------------------------------------------------------------------
(* The finder thread: get_file_paths.                                      *)

(* Mutant: the check against seen_paths is missing.                        *)
HandlePathWithoutSeenPaths ==
    /\ finder = "discovering"
    /\ input # <<>>
    /\ Head(input) # Missing
    /\ input' = Tail(input)
    /\ seen_paths' = seen_paths \cup {Head(input)}
    /\ LET filled == batch \cup {Head(input)}
       IN  IF Cardinality(filled) >= BatchSize
           THEN file_queue' = Append(file_queue, filled) /\ batch' = {}
           ELSE batch' = filled /\ UNCHANGED file_queue
    /\ UNCHANGED <<finder, all_paths_sent, out_pipe, err_pipe, childVars, mainVars, history>>

(* handle_path: a path seen before is skipped; a full batch is queued.     *)
HandlePath ==
    /\ finder = "discovering"
    /\ input # <<>>
    /\ Head(input) # Missing
    /\ input' = Tail(input)
    /\ LET f == Head(input)
           filled == batch \cup {f}
       IN  \/ /\ f \in seen_paths
              /\ UNCHANGED <<seen_paths, batch, file_queue>>
           \/ /\ f \notin seen_paths
              /\ seen_paths' = seen_paths \cup {f}
              /\ IF Cardinality(filled) >= BatchSize
                 THEN /\ file_queue' = Append(file_queue, filled)
                      /\ batch' = {}
                 ELSE /\ batch' = filled
                      /\ UNCHANGED file_queue
    /\ UNCHANGED <<finder, all_paths_sent, out_pipe, err_pipe, childVars, mainVars, history>>

(* One sentinel for every worker thread of every process.                  *)
Sentinels == [i \in 1..(Cardinality(Procs) * Cardinality(Threads)) |-> None]

StopsDiscovering ==
    /\ finder = "discovering"
    /\ \/ input = <<>> /\ finder' = "finished"
       \/ input # <<>> /\ Head(input) = Missing /\ finder' = "failed"
    /\ batch' = {}
    /\ UNCHANGED <<input, seen_paths, all_paths_sent, out_pipe, err_pipe, childVars,
                   mainVars, history>>

PartialBatch == IF batch = {} THEN <<>> ELSE <<batch>>

(* Mutants: the sentinels go out first; they are sent only when discovery  *)
(* ended normally.                                                         *)
EndDiscoverySentinelsFirst ==
    StopsDiscovering /\ file_queue' = file_queue \o Sentinels \o PartialBatch

EndDiscoveryWithoutFinally ==
    /\ StopsDiscovering
    /\ file_queue' = IF finder' = "failed" THEN file_queue
                     ELSE file_queue \o PartialBatch \o Sentinels

(* The finally clause: the partial batch, then the sentinels, are queued   *)
(* whether discovery ended normally or with a FileNotFoundError.           *)
EndDiscovery ==
    StopsDiscovering /\ file_queue' = file_queue \o PartialBatch \o Sentinels

-----------------------------------------------------------------------------
(* The worker threads: PreProcessorWorker.run.                             *)

Proc(w) == w[1]

(* Mutant: a worker that stops forgets its unpublished files.              *)
StopWorkerWithoutPublishing(w) ==
    /\ pc' = [pc EXCEPT ![w] = "done"]
    /\ batch_processed' = [batch_processed EXCEPT ![w] = {}]
    /\ UNCHANGED out_buffer

(* A worker publishes what it has processed, if anything, and stops.       *)
StopWorker(w) ==
    /\ pc' = [pc EXCEPT ![w] = "done"]
    /\ out_buffer' = IF batch_processed[w] = {} THEN out_buffer
                     ELSE [out_buffer EXCEPT ![Proc(w)] = @ \cup {batch_processed[w]}]
    /\ batch_processed' = [batch_processed EXCEPT ![w] = {}]

CanGet(w) == alive[Proc(w)] /\ pc[w] = "get"

GetBatch(w) ==
    /\ CanGet(w) /\ ~rlock_lost
    /\ file_queue # <<>> /\ Head(file_queue) # None
    /\ todo' = [todo EXCEPT ![w] = Head(file_queue)]
    /\ pc' = [pc EXCEPT ![w] = "work"]
    /\ file_queue' = Tail(file_queue)
    /\ UNCHANGED <<finderVars, all_paths_sent, out_pipe, err_pipe, alive, killed, out_buffer,
                   err_buffer, batch_processed, rlock_lost, mainVars, history>>

GetSentinel(w) ==
    /\ CanGet(w) /\ ~rlock_lost
    /\ file_queue # <<>> /\ Head(file_queue) = None
    /\ file_queue' = Tail(file_queue)
    /\ all_paths_sent' = TRUE
    /\ StopWorker(w)
    /\ UNCHANGED <<finderVars, out_pipe, err_pipe, alive, killed, err_buffer, todo,
                   rlock_lost, mainVars, history>>

(* The get timed out.  Without the flag the worker just tries again.       *)
GetTimesOut(w) ==
    /\ CanGet(w)
    /\ all_paths_sent
    /\ StopWorker(w)
    /\ UNCHANGED <<finderVars, file_queue, all_paths_sent, out_pipe, err_pipe, alive, killed,
                   err_buffer, todo, rlock_lost, mainVars, history>>

(* The file leaves the batch; after the last one the worker gets again.    *)
Handled(w, f) ==
    /\ todo' = [todo EXCEPT ![w] = @ \ {f}]
    /\ pc' = [pc EXCEPT ![w] = IF todo[w] = {f} THEN "get" ELSE "work"]

CanHandle(w, f) == alive[Proc(w)] /\ pc[w] = "work" /\ f \in todo[w]

ProcessFile(w, f) ==
    /\ CanHandle(w, f)
    /\ LET filled == batch_processed[w] \cup {f}
       IN  IF Cardinality(filled) >= BatchSize
           THEN /\ out_buffer' = [out_buffer EXCEPT ![Proc(w)] = @ \cup {filled}]
                /\ batch_processed' = [batch_processed EXCEPT ![w] = {}]
           ELSE /\ batch_processed' = [batch_processed EXCEPT ![w] = filled]
                /\ UNCHANGED out_buffer
    /\ Handled(w, f)
    /\ UNCHANGED <<finderVars, file_queue, all_paths_sent, out_pipe, err_pipe, alive, killed,
                   err_buffer, rlock_lost, mainVars, history>>

(* Mutant: the continue after the recorded error is missing.               *)
FileFailsAndIsKept(w, f) ==
    /\ CanHandle(w, f)
    /\ err_buffer' = [err_buffer EXCEPT ![Proc(w)] = @ \cup {f}]
    /\ failed' = failed \cup {f}
    /\ batch_processed' = [batch_processed EXCEPT ![w] = @ \cup {f}]
    /\ Handled(w, f)
    /\ UNCHANGED <<finderVars, file_queue, all_paths_sent, out_pipe, err_pipe, alive, killed,
                   out_buffer, rlock_lost, mainVars, aborted, dropped>>

(* Reading or preprocessing raised: the error is recorded and the worker   *)
(* goes on with the next file.                                             *)
FileFails(w, f) ==
    /\ CanHandle(w, f)
    /\ err_buffer' = [err_buffer EXCEPT ![Proc(w)] = @ \cup {f}]
    /\ failed' = failed \cup {f}
    /\ Handled(w, f)
    /\ UNCHANGED <<finderVars, file_queue, all_paths_sent, out_pipe, err_pipe, alive, killed,
                   out_buffer, batch_processed, rlock_lost, mainVars, aborted, dropped>>

(* Resolving the path raised, outside the per-file handler: the worker     *)
(* publishes what it has, records the error, without a file, and ends; the *)
(* file and the rest of its batch are lost.                                *)
WorkerAborts(w, f) ==
    /\ CanHandle(w, f)
    /\ StopWorker(w)
    /\ err_buffer' = [err_buffer EXCEPT ![Proc(w)] = @ \cup {w}]
    /\ aborted' = aborted \cup {w}
    /\ dropped' = dropped \cup todo[w]
    /\ todo' = [todo EXCEPT ![w] = {}]
    /\ UNCHANGED <<finderVars, file_queue, all_paths_sent, out_pipe, err_pipe, alive, killed,
                   rlock_lost, mainVars, failed>>

-----------------------------------------------------------------------------
(* The child processes.                                                    *)

FeedResult(p) ==
    /\ alive[p]
    /\ \E b \in out_buffer[p] :
          /\ out_buffer' = [out_buffer EXCEPT ![p] = @ \ {b}]
          /\ out_pipe' = out_pipe \cup {b}
    /\ UNCHANGED <<finderVars, file_queue, all_paths_sent, err_pipe, alive, killed, err_buffer,
                   pc, todo, batch_processed, rlock_lost, mainVars, history>>

(* The feeder of the error queue blocks while its pipe is full.            *)
FeedError(p) ==
    /\ alive[p]
    /\ Cardinality(err_pipe) < ErrorPipe
    /\ \E r \in err_buffer[p] :
          /\ err_buffer' = [err_buffer EXCEPT ![p] = @ \ {r}]
          /\ err_pipe' = err_pipe \cup {r}
    /\ UNCHANGED <<finderVars, file_queue, all_paths_sent, out_pipe, alive, killed, out_buffer,
                   pc, todo, batch_processed, rlock_lost, mainVars, history>>

(* Mutant: the process does not wait for the feeder of the error queue.    *)
ProcessExitsUnflushed(p) ==
    /\ alive[p]
    /\ \A t \in Threads : pc[<<p, t>>] = "done"
    /\ out_buffer[p] = {}
    /\ alive' = [alive EXCEPT ![p] = FALSE]
    /\ UNCHANGED <<finderVars, file_queue, all_paths_sent, out_pipe, err_pipe, killed,
                   out_buffer, err_buffer, pc, todo, batch_processed, rlock_lost, mainVars,
                   history>>

(* PreProcessorRunner.run joins its threads; then the interpreter joins    *)
(* the feeder threads, so the process ends with empty buffers.             *)
ProcessExits(p) ==
    /\ alive[p]
    /\ \A t \in Threads : pc[<<p, t>>] = "done"
    /\ out_buffer[p] = {} /\ err_buffer[p] = {}
    /\ alive' = [alive EXCEPT ![p] = FALSE]
    /\ UNCHANGED <<finderVars, file_queue, all_paths_sent, out_pipe, err_pipe, killed,
                   out_buffer, err_buffer, pc, todo, batch_processed, rlock_lost, mainVars,
                   history>>

(* The environment kills a child (out of memory, a signal).  All that the  *)
(* process holds is gone, and so is the read lock of the file queue if one *)
(* of its threads was waiting in get with it.                              *)
Held(p) == UNION {todo[<<p, t>>] \cup batch_processed[<<p, t>>] : t \in Threads}

Kill(p) ==
    /\ alive[p]
    /\ Cardinality(killed) < MaxKills
    /\ alive' = [alive EXCEPT ![p] = FALSE]
    /\ killed' = killed \cup {p}
    /\ dropped' = dropped \cup Held(p) \cup UNION out_buffer[p]
    /\ out_buffer' = [out_buffer EXCEPT ![p] = {}]
    /\ err_buffer' = [err_buffer EXCEPT ![p] = {}]
    /\ pc' = [w \in Workers |-> IF Proc(w) = p THEN "done" ELSE pc[w]]
    /\ todo' = [w \in Workers |-> IF Proc(w) = p THEN {} ELSE todo[w]]
    /\ batch_processed' = [w \in Workers |-> IF Proc(w) = p THEN {} ELSE batch_processed[w]]
    /\ \/ UNCHANGED rlock_lost
       \/ (\E t \in Threads : pc[<<p, t>>] = "get") /\ rlock_lost' = TRUE
    /\ UNCHANGED <<finderVars, file_queue, all_paths_sent, out_pipe, err_pipe, mainVars,
                   failed, aborted>>

-----------------------------------------------------------------------------
(* The caller: batch_run.                                                  *)

(* Mutant: a batch becomes one entry instead of one entry per file.        *)
CollectAsOneEntry ==
    /\ main = "collecting"
    /\ \E b \in out_pipe :
          /\ result' = result \cup {b}
          /\ out_pipe' = out_pipe \ {b}
    /\ UNCHANGED <<finderVars, file_queue, all_paths_sent, err_pipe, childVars, main, errors,
                   history>>

Collect ==
    /\ main = "collecting"
    /\ \E b \in out_pipe :
          /\ result' = result \cup b
          /\ out_pipe' = out_pipe \ {b}
    /\ UNCHANGED <<finderVars, file_queue, all_paths_sent, err_pipe, childVars, main, errors,
                   history>>

(* Mutant: the queue is not drained after the last child died.             *)
EndCollectionWithoutDrain ==
    /\ main = "collecting"
    /\ \A p \in Procs : ~alive[p]
    /\ main' = "joining"
    /\ UNCHANGED <<finderVars, file_queue, all_paths_sent, out_pipe, err_pipe, childVars,
                   result, errors, history>>

(* A get timed out and then every child was found dead.  Batches that      *)
(* arrived between the two are drained.                                    *)
EndCollection ==
    /\ main = "collecting"
    /\ \A p \in Procs : ~alive[p]
    /\ result' = result \cup UNION out_pipe
    /\ out_pipe' = {}
    /\ main' = "joining"
    /\ UNCHANGED <<finderVars, file_queue, all_paths_sent, err_pipe, childVars, errors,
                   history>>

(* Mutant: the finder's error is dropped.                                  *)
FinishIgnoringFinder ==
    /\ main = "joining"
    /\ finder # "discovering"
    /\ errors' = err_pipe
    /\ err_pipe' = {}
    /\ main' = IF err_pipe # {} THEN "raised" ELSE "returned"
    /\ UNCHANGED <<finderVars, file_queue, all_paths_sent, out_pipe, childVars, result,
                   history>>

(* The finder is joined, the error queue is drained, and the call raises   *)
(* the finder's error, else the workers' errors, else returns the result.  *)
Finish ==
    /\ main = "joining"
    /\ finder # "discovering"
    /\ errors' = err_pipe
    /\ err_pipe' = {}
    /\ main' = IF finder = "failed" \/ err_pipe # {} THEN "raised" ELSE "returned"
    /\ UNCHANGED <<finderVars, file_queue, all_paths_sent, out_pipe, childVars, result,
                   history>>

Done ==
    /\ main \in {"returned", "raised"}
    /\ UNCHANGED vars

-----------------------------------------------------------------------------

Finder == HandlePath \/ EndDiscovery

Worker(w) ==
    \/ GetBatch(w) \/ GetSentinel(w) \/ GetTimesOut(w)
    \/ \E f \in Files : ProcessFile(w, f) \/ FileFails(w, f) \/ WorkerAborts(w, f)

Child(p) == FeedResult(p) \/ FeedError(p) \/ ProcessExits(p)

Caller == Collect \/ EndCollection \/ Finish

Next ==
    \/ Finder
    \/ \E w \in Workers : Worker(w)
    \/ \E p \in Procs : Child(p) \/ Kill(p)
    \/ Caller
    \/ Done

Spec == Init /\ [][Next]_vars

(* Every thread and feeder that can take a step is scheduled again; a kill *)
(* is never owed.  The feeders are threads of their own.                   *)
Fairness ==
    /\ WF_vars(Finder)
    /\ \A w \in Workers : WF_vars(Worker(w))
    /\ \A p \in Procs : WF_vars(FeedResult(p)) /\ WF_vars(FeedError(p)) /\ WF_vars(ProcessExits(p))
    /\ WF_vars(Caller)

FairSpec == Spec /\ Fairness

-----------------------------------------------------------------------------
(* Where a discovered file can be.                                         *)

FilesOf(q) == UNION {q[i] : i \in DOMAIN q}

Queued == FilesOf(file_queue)
Published == (UNION out_pipe) \cup (UNION {UNION out_buffer[p] : p \in Procs})
InHand == UNION {todo[w] \cup batch_processed[w] : w \in Workers}

(* The flag lets workers leave on a timeout.  It is safe only because of   *)
(* the order of the queue: once any sentinel has been read, no batch is    *)
(* queued and none ever will be.                                           *)
FlagMeansNoBatchLeft ==
    all_paths_sent => /\ finder # "discovering"
                      /\ \A i \in DOMAIN file_queue : file_queue[i] = None

(* No discovered file is forgotten on its way through finder, queue,       *)
(* worker, feeder and collector: it is always somewhere, or it failed, or  *)
(* it went down with the worker or process that held it.                   *)
NoFileForgotten ==
    seen_paths = batch \cup Queued \cup InHand \cup Published \cup result
                 \cup failed \cup dropped

(* Every file is in the hands of at most one worker, and a file being      *)
(* worked on has been neither published, collected nor reported: no file   *)
(* is preprocessed twice, although it may be listed several times.         *)
NoFileTwice ==
    /\ \A v, w \in Workers :
          v # w => (todo[v] \cup batch_processed[v]) \cap (todo[w] \cup batch_processed[w]) = {}
    /\ InHand \cap (batch \cup Queued \cup Published \cup result \cup failed \cup dropped) = {}
    /\ (batch \cup Queued) \cap (Published \cup result \cup failed \cup dropped) = {}

(* A normal return has the text of every file of the input, as long as no  *)
(* child was killed.  (A kill makes the result incomplete silently: the    *)
(* exit codes of the children are not looked at.)                          *)
ReturnIsComplete ==
    main = "returned" /\ killed = {} =>
        /\ input = <<>>
        /\ result = seen_paths
        /\ failed = {} /\ aborted = {}

(* When the call ends, it has read the record of every failure, because    *)
(* the processes have flushed their buffers before they end: every file    *)
(* that failed is named, and every worker that went down is reported.      *)
(* Files that went down with a worker are named by no record, but files are*)
(* lost only where a worker is reported.                                   *)
RaiseReportsEveryFailure ==
    main \in {"returned", "raised"} /\ killed = {} =>
        /\ errors \cap Files = failed
        /\ errors \cap Workers = aborted
        /\ dropped # {} <=> aborted # {}
        /\ main = "raised" => finder = "failed" \/ errors # {}

(* The result only ever holds files that were discovered and processed     *)
(* without error, kills or not.                                            *)
ResultIsSound == result \subseteq seen_paths \ (failed \cup dropped)

(* A call without kills is an execution of Preprocessing.                  *)
Promise == INSTANCE Preprocessing WITH
    discovered <- seen_paths,
    collected <- result,
    failed <- failed \cup dropped,
    discovery_failed <- finder = "failed",
    status <- IF main \in {"collecting", "joining"} THEN "running" ELSE main

ImplementsPreprocessing == Promise!Spec

(* "Run preprocessing workers and collect results or raise reported        *)
(* failures" (batch_run): the call ends.                                   *)
Termination == <>(main \in {"returned", "raised"})
=============================================================================
