------------------------------ MODULE FileWatcher ------------------------------
(***************************************************************************)
(* The watcher (src/watcher/): the raw directory, chokidar's notices about *)
(* it, the classifier that drops saves that change nothing, the debounce   *)
(* batcher, the set of processed paths, and the periodic reconciliation    *)
(* that is the backstop for all of them.  Its batches go to the ingestion  *)
(* queue; module IngestionPipeline says what becomes of them.              *)
(*                                                                         *)
(* The bytes of a file are a version number: a save writes bytes the path  *)
(* has never held.  Debounce windows are not measured: a batch may be      *)
(* flushed at any moment after an event.  Notices of one path are merged,  *)
(* as chokidar's awaitWriteFinish and atomic options merge them.  The      *)
(* retry branch of emitBatch (watcher/index.ts:224) is left out, because   *)
(* IngestionQueue.enqueue never rejects.                                   *)
(***************************************************************************)
EXTENDS Integers, Sequences, FiniteSets, Functions

CONSTANTS
    Files,         \* paths in the raw directory
    MaxBatchSize,  \* watcher.max_batch_size
    MaxSaves,      \* bound: saves, of all paths together
    MaxQueue,      \* bound: batches waiting, the running one included
    Faults         \* what may go wrong; here only "missed": see Miss

ASSUME WatcherAssumption ==
    /\ IsFiniteSet(Files)
    /\ MaxBatchSize \in Nat \ {0}
    /\ MaxSaves \in Nat
    /\ MaxQueue \in Nat \ {0}

VARIABLES
    present,    \* the paths that exist
    version,    \* per path: the bytes it holds, or held last
    unreported, \* paths changed since chokidar last looked at them
    tracked,    \* paths chokidar has announced and watches for unlink
    hashes,     \* the classifier: the version last seen, 0 for none
    pending,    \* the batcher: added or changed paths, and deleted ones
    processed,  \* processedPaths
    queue,      \* batches handed to onBatch and not answered, oldest first
    unsettled,  \* history: paths whose last change was never put to the agent,
                \* because it was not announced or its batch was retained
    dropped     \* history: deletions that went down with their batch or with the
                \* daemon, or that chokidar had no reason to announce

rawVars == <<present, version>>
watcherVars == <<unreported, tracked, hashes, pending, processed>>
watchVars == <<rawVars, watcherVars, queue, unsettled, dropped>>
-----------------------------------------------------------------------------
NoPaths == [adds |-> {}, deletes |-> {}]
Contents(f) == IF f \in present THEN version[f] ELSE 0

\* Mutant of PushedDelete: a pending add hides the deletion.
PushedDelete_AddWins(b, f) ==
    IF f \in b.adds THEN b ELSE [b EXCEPT !.deletes = @ \cup {f}]

\* push(): an add supersedes a delete of the same window, and the reverse.
Pushed(b, f) == [adds |-> b.adds \cup {f}, deletes |-> b.deletes \ {f}]
PushedDelete(b, f) == [adds |-> b.adds \ {f}, deletes |-> b.deletes \cup {f}]

Size(b) == Cardinality(b.adds) + Cardinality(b.deletes)

\* registerEvent(): a batch that has reached its cap is flushed at once, any
\* other waits for the timer.  s: the batcher and the batches flushed so far.
Registered(s) ==
    IF Size(s.pending) < MaxBatchSize
    THEN s
    ELSE [pending |-> NoPaths, queue |-> Append(s.queue, s.pending)]

Adopted(s) == pending' = s.pending /\ queue' = s.queue

\* Room for n more batches.
Room(n) == Len(queue) + n <= MaxQueue
-----------------------------------------------------------------------------
\* The user saves a file: new bytes at an old or a new path.
Save(f) ==
    /\ SumFunction(version) < MaxSaves
    /\ version' = [version EXCEPT ![f] = @ + 1]
    /\ present' = present \cup {f}
    /\ unreported' = unreported \cup {f}
    /\ dropped' = dropped \ {f}
    /\ UNCHANGED <<tracked, hashes, pending, processed, queue, unsettled>>

\* The user saves a file without changing it: a touch, or "save" pressed twice.
Touch(f) ==
    /\ f \in present \ unreported
    /\ unreported' = unreported \cup {f}
    /\ UNCHANGED <<rawVars, tracked, hashes, pending, processed, queue, unsettled, dropped>>

Remove(f) ==
    /\ f \in present
    /\ present' = present \ {f}
    /\ unreported' = unreported \cup {f}
    /\ unsettled' = unsettled \ {f}
    /\ UNCHANGED <<version, tracked, hashes, pending, processed, queue, dropped>>
-----------------------------------------------------------------------------
\* Mutant of IsNews: only a path never seen before is news.
IsNews_NewOnly(f) == hashes[f] = 0

\* classifyAddOrChange(): "new" or "update", anything else is a "noop".
IsNews(f) == hashes[f] # version[f]

\* handleAddOrChange(): the file is read and hashed when chokidar reports it.
HandleAddOrChange(f) ==
    /\ f \in unreported \cap present
    /\ Room(1)
    /\ unreported' = unreported \ {f}
    /\ tracked' = tracked \cup {f}
    /\ hashes' = [hashes EXCEPT ![f] = version[f]]
    /\ IF IsNews(f)
       THEN /\ Adopted(Registered([pending |-> Pushed(pending, f), queue |-> queue]))
            /\ unsettled' = unsettled \ {f}
       ELSE UNCHANGED <<pending, queue, unsettled>>
    /\ UNCHANGED <<rawVars, processed, dropped>>

\* handleUnlink(), for a path chokidar had announced.
HandleUnlink(f) ==
    /\ f \in (unreported \cap tracked) \ present
    /\ Room(1)
    /\ unreported' = unreported \ {f}
    /\ tracked' = tracked \ {f}
    /\ hashes' = [hashes EXCEPT ![f] = 0]
    /\ Adopted(Registered([pending |-> PushedDelete(pending, f), queue |-> queue]))
    /\ dropped' = dropped \ {f}
    /\ UNCHANGED <<rawVars, processed, unsettled>>

\* A path that comes and goes before chokidar announces it: no event.
ForgetUnannounced(f) ==
    /\ f \in unreported \ (tracked \cup present)
    /\ unreported' = unreported \ {f}
    /\ dropped' = dropped \cup {f}
    /\ UNCHANGED <<rawVars, tracked, hashes, pending, processed, queue, unsettled>>

\* The event is lost (chokidar errors and is "degraded"), or the read in
\* handleAddOrChange() throws and the handler returns.
Miss(f) ==
    /\ "missed" \in Faults
    /\ f \in unreported \cap present
    /\ unreported' = unreported \ {f}
    /\ tracked' = tracked \cup {f}
    /\ unsettled' = IF IsNews(f) THEN unsettled \cup {f} ELSE unsettled
    /\ UNCHANGED <<rawVars, hashes, pending, processed, queue, dropped>>

\* The debounce timer fires: flushNow() and the synchronous part of emitBatch().
Flush ==
    /\ pending # NoPaths
    /\ Room(1)
    /\ queue' = Append(queue, pending)
    /\ pending' = NoPaths
    /\ UNCHANGED <<rawVars, unreported, tracked, hashes, processed, unsettled, dropped>>

\* Mutant of Unprocessed: a path the classifier has seen is taken as handled.
Unprocessed_Unseen == {f \in present \ processed : hashes[f] = 0}

Unprocessed == present \ processed

\* One tick of startReconciliation(): every file not processed is pushed, also
\* one whose batch is waiting or being ingested right now, in the order of the
\* directory, which is taken as arbitrary.  turn[f] says which batch takes f:
\* the pending one is the first, and the first n reach the cap and are flushed.
Reconcile ==
    /\ Unprocessed # {}
    /\ Room(Cardinality(Unprocessed))
    /\ \E n \in 0 .. Cardinality(Unprocessed) : \E turn \in [Unprocessed -> 1 .. n + 1] :
          LET taken(i) == {f \in Unprocessed : turn[f] = i}
              batch(i) == IF i = 1
                          THEN [adds |-> pending.adds \cup taken(1),
                                deletes |-> pending.deletes \ taken(1)]
                          ELSE [adds |-> taken(i), deletes |-> {}]
          IN  /\ \A i \in 1 .. n : Size(batch(i)) = MaxBatchSize
              /\ Size(batch(n + 1)) < MaxBatchSize
              /\ queue' = queue \o [i \in 1 .. n |-> batch(i)]
              /\ pending' = batch(n + 1)
    /\ UNCHANGED <<rawVars, unreported, tracked, hashes, processed, unsettled, dropped>>

\* What is left of the watcher when its process has died and a new one has
\* begun its initial scan: every file is announced anew, no deletion is.
WatcherRestarted ==
    /\ unreported' = present
    /\ tracked' = {}
    /\ hashes' = [f \in Files |-> 0]
    /\ pending' = NoPaths
    /\ processed' = {}
    /\ queue' = <<>>
    /\ unsettled' = {}
    /\ dropped' = dropped \cup (Files \ present)
    /\ UNCHANGED rawVars
=============================================================================
