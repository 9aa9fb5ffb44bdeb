--------------------------- MODULE IngestionPipeline ---------------------------
(***************************************************************************)
(* From a file dropped in raw/ to a page of the wiki and a provenance      *)
(* record, and from a deleted file to an archived page: the watcher of     *)
(* module FileWatcher, the ingestion queue (src/ingestion/queue.ts) that   *)
(* works off its batches one at a time, and the handler in                 *)
(* src/daemon/entry.ts that tells the watcher which batches to retain.     *)
(*                                                                         *)
(* The agent is external: it answers a batch with one page per source it   *)
(* was shown, with nothing usable, or with an error.  The wiki is reduced  *)
(* to the source page of each path: the version it was written from, and   *)
(* its status.  The chain is reduced to which sources its records name for *)
(* which pages, all that the archiver asks of it (ProvenanceChain models   *)
(* the chain itself).  Money is counted in the cost of one call.  Left     *)
(* out: index.md, the search index, git, facts, staging, and the           *)
(* dead-letter ledger, which the daemon writes and never reads back.       *)
(***************************************************************************)
EXTENDS FileWatcher

CONSTANTS
    DailyCap,      \* cost.max_daily_usd, in calls to the agent
    IngestCap,     \* cost.max_per_ingest_usd, in calls: 0 lets none through
    MaxRestarts    \* bound: how often the daemon dies and is restarted

\* "agent": the call fails.  "empty": no usable page in the reply.  "throw":
\* some later step throws.  "record": append() rejects.  "wording": the text
\* of an error matches /budget|cap|exceeds/i although no budget is involved.
FaultKinds == {"missed", "agent", "empty", "throw", "record", "wording"}

ASSUME PipelineAssumption ==
    /\ Faults \subseteq FaultKinds
    /\ DailyCap \in Nat
    /\ IngestCap \in Nat
    /\ MaxRestarts \in Nat

VARIABLES
    job,        \* the running batch: its stage, what the prompt showed of
                \* each path (0: nothing), and the pages still to be written
    page,       \* per path: its source page
    attributed, \* <<f, g>>: a record names f as source and g's page as written
    spent,      \* spentToday()
    restarts,
    answered    \* history: what the agent was last shown of a path in a batch
                \* that was not retained

wikiVars == <<page, attributed>>
ingestVars == <<job, wikiVars, spent, restarts, answered>>
vars == <<watchVars, ingestVars>>
-----------------------------------------------------------------------------
Nothing == [f \in Files |-> 0]
Idle == [stage |-> "idle", seen |-> Nothing, left |-> {}]
NoPage == [from |-> 0, status |-> "none"]
Stages == {"idle", "invoke", "write", "commit", "archive", "note"}

Batch == Head(queue)
Pages == {f \in Files : page[f] # NoPage}

TypeOK ==
    /\ present \subseteq Files /\ unreported \subseteq Files
    /\ tracked \subseteq Files /\ processed \subseteq Files
    /\ unsettled \subseteq Files /\ dropped \subseteq Files
    /\ version \in [Files -> 0 .. MaxSaves]
    /\ hashes \in [Files -> 0 .. MaxSaves]
    /\ answered \in [Files -> 0 .. MaxSaves]
    /\ pending \in [adds : SUBSET Files, deletes : SUBSET Files]
    /\ queue \in Seq([adds : SUBSET Files, deletes : SUBSET Files])
    /\ job \in [stage : Stages, seen : [Files -> 0 .. MaxSaves], left : SUBSET Files]
    /\ page \in [Files -> [from : 0 .. MaxSaves, status : {"none", "active", "orphaned"}]]
    /\ attributed \subseteq Files \X Files
    /\ spent \in 0 .. DailyCap
    /\ restarts \in 0 .. MaxRestarts

Init ==
    /\ present = {} /\ unreported = {} /\ tracked = {} /\ processed = {}
    /\ version = Nothing /\ hashes = Nothing /\ answered = Nothing
    /\ pending = NoPaths /\ queue = <<>> /\ job = Idle
    /\ page = [f \in Files |-> NoPage] /\ attributed = {}
    /\ spent = 0 /\ restarts = 0
    /\ unsettled = {} /\ dropped = {}
-----------------------------------------------------------------------------
\* process() has resolved; onBatch in entry.ts looks at the outcome, and
\* emitBatch() marks the paths of the batch, or leaves them for the next
\* reconciliation.  All this runs before any timer or other event.
Answer(retain) ==
    /\ queue' = Tail(queue) /\ job' = Idle
    /\ IF retain
       THEN unsettled' = unsettled \cup Batch.adds /\ UNCHANGED <<processed, answered>>
       ELSE /\ processed' = processed \cup Batch.adds
            /\ answered' = [f \in Files |-> IF f \in Batch.adds THEN job.seen[f] ELSE answered[f]]
            /\ UNCHANGED unsettled

\* An outcome that carries the text of an error, which entry.ts searches for
\* the words of a budget skip.
AnswerError ==
    \E retain \in BOOLEAN : (retain => "wording" \in Faults) /\ Answer(retain)

\* The preflight check, CLI mode aside: may a call cost that much, and does one more
\* fit today?
WithinBudget == 1 <= IngestCap /\ spent + 1 <= DailyCap

\* A batch with no adds goes straight to the archive path.
StartDeletes ==
    /\ job.stage = "idle" /\ queue # <<>> /\ Batch.adds = {}
    /\ job' = [job EXCEPT !.stage = "archive"]
    /\ UNCHANGED <<watchVars, wikiVars, spent, restarts, answered>>

\* The prompt is built from the files as they are now; one that cannot be
\* read is left out.
StartAdds ==
    /\ job.stage = "idle" /\ queue # <<>> /\ Batch.adds # {}
    /\ WithinBudget
    /\ job' = [job EXCEPT !.stage = "invoke",
                          !.seen = [f \in Files |-> IF f \in Batch.adds THEN Contents(f) ELSE 0]]
    /\ unsettled' = unsettled \ Batch.adds
    /\ UNCHANGED <<rawVars, watcherVars, queue, dropped, wikiVars, spent, restarts,
                   answered>>

\* The same under an exhausted budget: process() returns before the call, and
\* before the deletions of the batch.
SkipForBudget ==
    /\ job.stage = "idle" /\ queue # <<>> /\ Batch.adds # {}
    /\ ~WithinBudget
    /\ Answer(TRUE)
    /\ dropped' = dropped \cup Batch.deletes
    /\ UNCHANGED <<rawVars, unreported, tracked, hashes, pending, wikiVars,
                   spent, restarts>>

\* The call to the agent fails: dead letter, no archiving.
AgentFails ==
    /\ "agent" \in Faults
    /\ job.stage = "invoke"
    /\ AnswerError
    /\ dropped' = dropped \cup Batch.deletes
    /\ UNCHANGED <<rawVars, unreported, tracked, hashes, pending, wikiVars,
                   spent, restarts>>

\* The reply holds no page ("agent produced no wiki pages"): paid, not archived.
ReplyEmpty ==
    /\ job.stage = "invoke"
    /\ "empty" \in Faults \/ job.seen = Nothing
    /\ spent' = spent + 1
    /\ Answer(FALSE)
    /\ dropped' = dropped \cup Batch.deletes
    /\ UNCHANGED <<rawVars, unreported, tracked, hashes, pending, wikiVars,
                   restarts>>

\* newPages: the pages the reply was reconciled to.
Written == {f \in Files : job.seen[f] # 0}

\* The reply names a page for every path the agent was shown.
Reply ==
    /\ job.stage = "invoke" /\ job.seen # Nothing
    /\ job' = [job EXCEPT !.stage = "write", !.left = Written]
    /\ UNCHANGED <<watchVars, wikiVars, spent, restarts, answered>>

\* One edit of the reply is written, over whatever page was there.
WritePage(f) ==
    /\ job.stage = "write" /\ f \in job.left
    /\ page' = [page EXCEPT ![f] = [from |-> job.seen[f], status |-> "active"]]
    /\ job' = [job EXCEPT !.left = @ \ {f}]
    /\ UNCHANGED <<watchVars, attributed, spent, restarts, answered>>

\* Links are repaired, which rewrites some further pages; the cost is logged,
\* and a record is appended that names every path of the batch as source of
\* every page written or rewritten.  A failing append is logged and ignored.
Record ==
    /\ job.stage = "write" /\ job.left = {}
    /\ job' = [job EXCEPT !.stage = "commit"]
    /\ spent' = spent + 1
    /\ \/ \E relinked \in SUBSET (Pages \ Written) :
            attributed' = attributed \cup (Batch.adds \X (Written \cup relinked))
       \/ "record" \in Faults /\ UNCHANGED attributed
    /\ UNCHANGED <<watchVars, page, restarts, answered>>

\* The commit is done.  Deletions of the same batch come after it.
Commit ==
    /\ job.stage = "commit"
    /\ IF Batch.deletes = {}
       THEN Answer(FALSE)
       ELSE /\ job' = [job EXCEPT !.stage = "archive"]
            /\ UNCHANGED <<processed, queue, unsettled, answered>>
    /\ UNCHANGED <<rawVars, unreported, tracked, hashes, pending, wikiVars,
                   spent, restarts, dropped>>

\* The pages that records name for the deleted paths.
Affected == {g \in Pages : \E f \in Batch.deletes : <<f, g>> \in attributed}

\* archiveDeletedSources(): look the pages up in the chain and rewrite them.
Archive ==
    /\ job.stage = "archive"
    /\ page' = [g \in Files |->
                  IF g \in Affected THEN [page[g] EXCEPT !.status = "orphaned"] ELSE page[g]]
    /\ job' = [job EXCEPT !.stage = "note", !.left = Affected]
    /\ UNCHANGED <<watchVars, attributed, spent, restarts, answered>>

\* The archive record, which names the deleted paths and the rewritten pages.
NoteArchive ==
    /\ job.stage = "note"
    /\ \/ attributed' = attributed \cup (Batch.deletes \X job.left)
       \/ "record" \in Faults /\ UNCHANGED attributed
    /\ Answer(FALSE)
    /\ UNCHANGED <<rawVars, unreported, tracked, hashes, pending, page, spent,
                   restarts, dropped>>

\* Anything else that throws: processWithCatch() turns it into an outcome.
ProcessThrows ==
    /\ "throw" \in Faults
    /\ job.stage \in {"write", "commit", "archive"}
    /\ AnswerError
    /\ dropped' = dropped \cup Batch.deletes
    /\ UNCHANGED <<rawVars, unreported, tracked, hashes, pending, wikiVars,
                   spent, restarts>>
-----------------------------------------------------------------------------
\* The daemon stops, drained or not, or is killed, and is started again: all
\* that survives is on disk.
Restart ==
    /\ restarts < MaxRestarts
    /\ restarts' = restarts + 1
    /\ WatcherRestarted
    /\ job' = Idle
    /\ answered' = Nothing
    /\ UNCHANGED <<wikiVars, spent>>

\* UTC midnight: spentToday() starts from nothing.
NewDay ==
    /\ spent # 0
    /\ spent' = 0
    /\ UNCHANGED <<watchVars, job, wikiVars, restarts, answered>>

Notice(f) == HandleAddOrChange(f) \/ HandleUnlink(f) \/ ForgetUnannounced(f)

ProcessStep ==
    \/ StartDeletes \/ StartAdds \/ SkipForBudget
    \/ AgentFails \/ ReplyEmpty \/ Reply
    \/ (\E f \in Files : WritePage(f)) \/ Record \/ Commit
    \/ Archive \/ NoteArchive \/ ProcessThrows

Next ==
    \/ /\ UNCHANGED ingestVars
       /\ \/ \E f \in Files : Save(f) \/ Touch(f) \/ Remove(f)
          \/ \E f \in Files : Notice(f) \/ Miss(f)
          \/ Flush
          \/ Reconcile
    \/ ProcessStep
    \/ Restart
    \/ NewDay

\* Events are delivered, timers fire and promises settle as long as the daemon
\* runs; days pass.  Nobody is obliged to save, touch or remove anything, nor
\* the daemon to die.
Fairness ==
    /\ \A f \in Files : WF_vars(Notice(f) /\ UNCHANGED ingestVars)
    /\ WF_vars(Flush /\ UNCHANGED ingestVars)
    /\ WF_vars(Reconcile /\ UNCHANGED ingestVars)
    /\ WF_vars(ProcessStep)
    /\ WF_vars(NewDay)

Spec == Init /\ [][Next]_vars
FairSpec == Spec /\ Fairness
-----------------------------------------------------------------------------
\* Nothing is under way between the raw directory and the wiki.
Quiet == unreported = {} /\ pending = NoPaths /\ queue = <<>>

\* Once all is quiet, the last thing the agent was shown of a file that counts
\* as processed is what the file holds: no edit slips in between the event,
\* the debounce window, the queue and the read, whatever fails or restarts.
\* Excepted are the changes counted in `unsettled`.
NothingLeftBehind ==
    Quiet => \A f \in (present \cap processed) \ unsettled : answered[f] = version[f]

\* Once all is quiet, a page whose only source is gone and which the chain
\* attributes to that source is orphaned, except when the deletion was lost in
\* one of the ways `dropped` counts: the debouncer, the order of the queue and
\* the order of adds and deletes within a batch lose none.
DeletionsOrphanTheirPages ==
    Quiet => \A f \in Pages \ present :
                 <<f, f>> \in attributed /\ page[f].status = "active" => f \in dropped

\* A file that was never processed is taken up in the end, whatever was
\* retained, unless it goes away (watcher/index.ts:244, the reconciliation).
EveryFileIsTakenUp ==
    \A f \in Files : f \in present \ processed ~> f \in processed \/ f \notin present
=============================================================================
