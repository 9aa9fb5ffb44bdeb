# Watcher on the Wall: models, checks and proofs

Watcher on the Wall (`wotw`) is a daemon that watches a directory of raw
files, has a language model turn them into the pages of a wiki, and keeps a
tamper-evident log of everything it did. This directory models its core in
TLA+: TLC checks small instances, TLAPS proves the theorems named below for
every instance. Paths are relative to the root of the repository;
`PROJECT.json` maps each definition to the lines it stands for.

    tlc -workers 2 -config MCProvenanceChain.cfg MCProvenanceChain
    tlapm ProvenanceChainProofs.tla

## The system

One daemon per wiki, a single Node process; beside it short-lived `wotw`
commands that work on the same files. Within the daemon everything between two
awaits is atomic, and what is interleaved are callbacks, timers and promises;
between processes everything may be interleaved.

| Component | State | Operations | Hard behaviour | What makes it correct |
|---|---|---|---|---|
| Provenance chain, `src/provenance/chain.ts` | the JSONL file; per object the head (`nextSeq`, `lastId`, `lastChainHash`) and a promise-chain mutex | `init`, `append`, `verify`, `readAll` | callers race for the mutex; writes fail, stop short, are cut by a crash; other processes append through objects of their own | one unbroken chain on disk; acknowledged records stay; a restart is never refused; every caller is answered |
| File watcher, `src/watcher/` | hashes of the classifier, debounce windows, `processedPaths` | events, `flushNow`, `emitBatch`, reconciliation | files change between event, window, queue and read; events are lost; batches are retained | what is marked processed was seen by the agent as it is; deletions reach their pages; everything is taken up |
| Ingestion queue, `src/ingestion/queue.ts` | the FIFO of batches, the wiki, the chain, the cost log | `process`, `archiveDeletedSources` | early returns in the middle, steps that fail one by one, restarts | see the watcher; budget kept |
| Workspace keys, `src/keys/` | `keys.db`: state and wrapping of each key; KEK and DEK cache of the daemon; two secrets of the deployment | `provision`, `active`, `rotate`, `archive`, `revoke`, `rotateKek` | daemon and commands work on one store; an operator follows a runbook of many steps | one active key; one KEK; no key lost; a running daemon can still verify |
| Tenant scheduler, `src/ingestion/tenant-scheduler.ts` | FIFOs per tenant, the round, counters, kill switches | `enqueue`, `setPaused`, `processTick`, `executeJob`, `drain` | wake-ups are microtasks; tenants leave the round while an index points into it | limits, fairness, no lost wake-up, a drain that ends |
| Redaction outbox, `src/provenance/redaction-*.ts` | rows with status and attempts | `enqueue`, `tick`, `post` | the answer to a POST is late or lost; rows arrive meanwhile; poison events | what is marked sent was delivered; nothing waits forever |
| Compounding, `src/compounding/` | synthesis pages | `synthesize` | rewrites pages while ingestion does | indexes, links, record and commit as for ingestion |
| Wiki store, `src/wiki/store.ts`, `index-manager.ts`, `cross-reference.ts`, `search.ts` | pages, `index.md`, the search in memory | read, atomic write, link repair, rebuild | read-modify-write over the whole wiki by several passes | links symmetric, index agrees with the pages |
| Cost tracker, `src/ingestion/cost-tracker.ts` | the cost log, and per tracker a cache of today's sum | `record`, `spentToday`, checks | check and entry are seconds apart; several trackers on one log; torn lines; midnight | the log is complete, the cache agrees, nothing is admitted beyond the cap that the tracker knows of |
| Daemon lifecycle, `src/daemon/`, `src/cli/commands/{start,stop}.ts` | start lock, PID file, subsystems | `run`, `shutdown`, signals, `wotw start`, `wotw stop` | signals during startup; locks that go stale; commands that remove files | one daemon, which can be found; what was started is stopped |
| Lint and heal, `src/daemon/lint-scheduler.ts`, `src/wiki/health.ts`, `heal-handlers.ts`, `src/cli/commands/lint.ts` | the findings of a pass, a quota, the backoff of failed repairs | checks, repairs | passes overlap; findings come back; a quota | failures are spaced, everything is repaired in the end |
| Approval, `src/cli/commands/{approve,reject}.ts` | staging | moves | write pages and chain beside ingestion | as for wiki and chain |
| Facts, `src/facts/` | the table, an index in memory, records in the chain | extract, supersede, insert, rebuild, reindex | three copies, written by two processes | facts of one extraction; the index and the chain follow |
| Progressive retrieval, `src/server/progressive-*.ts` | a cache of continuations | `query_progressive`, `query_expand` | expiry, eviction, lost answers, restarts | a promised continuation is there |
| Downloads, `src/server/index.ts`, `safe-fetch.ts` | files in `raw/` | `POST /internal/ingest` | two downloads of one name, failures half-way | an accepted file is whole and stays |
| Access, `src/multi-user/`, `src/server/middleware.ts` | `tokens.json`, buckets per address | `wotw user add`, `revoke`, requests | commands overwrite each other; a corrupt file | one token per user, no flood |
| Model calls, `src/ingestion/cli-invoker.ts`, `execution-mode.ts`, `dead-letter.ts`, `src/llm/` | processes of the CLI, the ledger of failures | choice of the runtime, calls, records of failures | children that outlive their caller, torn lines | every child is waited for, every failure on record |
| Rest: provenance sink of the cloud, telemetry, configuration, commands that print, utilities | | | sequential, or pure I/O | |

How they interact: the watcher awaits `onBatch` (`daemon/entry.ts:281`), which
is `IngestionQueue.enqueue`; its outcome decides whether the watcher marks the
paths. The queue, in hosted mode, hands its work to the tenant scheduler. The
queue, the query engine, compounding and the heal handlers await
`ProvenanceChain.append`, which signs through the key store. The prompt
builder writes redaction rows that the worker drains. `wotw keys`,
`wotw workspace`, `wotw lint` and `wotw approve` share the files, not the
memory, of the daemon.

## Modules

    HashChain        <-- implemented by --  ProvenanceChain
    FileWatcher      <-- extended by --     IngestionPipeline
    Uploads, AccessTokens, FactTable            <-- extended by --      Service
    ProgressiveRetrieval, ModelCalls            <-- instantiated by --  Service
    WorkspaceKeys  TenantScheduler  RedactionOutbox  WikiWriters
    DaemonLifecycle  Spending  LintPasses

Each specification has an `MC` module that gives constants their values. The
proofs about module `M` are in `MProofs`, those about the keys, the outbox and
the scheduler in `HostedProofs`. `MCService` puts five parts that share
no state into one run.
The definitions named `X_Something` with the comment "Mutant of X" are wrong
versions of X: put in its place, each breaks the property `PROJECT.json` names
for it. They show that the properties notice the mistake.

### HashChain and ProvenanceChain

`HashChain` is the promise: a log that only grows by records that continue its
last one, and a set of acknowledged ids that only takes ids of the log.
`ProvenanceChain` is `chain.ts`: `Construct` and `Adopt` are the two halves of
the constructor and `init()` around its await, `VerifyOnStartup` the check of
`entry.ts:157`; `Call`, `Compute`, `Write`, `Sync` and `Commit` are `append()`
between its awaits, with `queue` for the promise chain of `acquireLock()`.
`WriteRejected`, `WriteShort`, `WriteCut` and `SyncFailed` are what a file
system may do instead, chosen by the constant `Faults` (all of them in the run);
`Exit` is the end of a process at any point. A SHA-256 is a fresh number. A dead
process does not take unsynced bytes with it: power failures are left out.

`docs/architecture.md:246` has one writer of the chain; nothing in the code
sees to it, and nothing notices a part of a line. So the properties assume
neither. Any number of objects may be open on the file at once, and every fault
may strike. Three history variables say what went wrong, and the properties what
it may cost:

- `adrift`, the objects whose head in memory the file has moved on without
  (another object has appended, a write of their own failed after the line was in
  the file, a line was cut short), and `drifted`, the records such objects have
  written. `VerifyPasses`: only these break the chain, and an object opened
  later goes on properly. `StartNeverRefused`: only with one of them in the
  file, with another object appending meanwhile, or with no record that
  can be read is a start turned away; an incomplete last line alone is no reason.
- `torn`, how many writes left only a part of a line. `AckedDurable`: records that were
  acknowledged and cannot be read back are at most two for each of these, the
  one cut short (a short write is acknowledged) and the one written behind it. Crashes
  at other places, failed syncs and second writers cost none.

`ImplementsHashChain` is the refinement, up to the first step that one of these
spoils: until an object that was left behind writes, or a write is cut short, each
step is one of `HashChain` or none.

### FileWatcher and IngestionPipeline

`FileWatcher` has the raw directory with its user (`Save`, `Touch`, `Remove`),
chokidar's notices (`HandleAddOrChange`, `HandleUnlink`, `Miss`,
`ForgetUnannounced`), the batcher (`Flush`, `Registered`) and `Reconcile`, which
meets the files in whatever order the directory has them.
`IngestionPipeline` adds `process()`: one action for each piece between two
awaits, one for each early return (`SkipForBudget`, `AgentFails`,
`ReplyEmpty`, `ProcessThrows`), the archive path (`Archive`, `NoteArchive`),
and in `Answer` the decision of `entry.ts` and the bookkeeping of
`emitBatch()`. `Restart` loses all memory and starts with the initial scan.

`unsettled` and `dropped` are history: they count the changes and deletions
lost in the ways a reader of the code sees (a missed event, a retained batch,
a batch given up together with its deletions, a daemon that was down). The
properties say that there are no others: not the windows, not the order of the
queue, not the time between an event and the read.

Left out: the dead-letter ledger (the daemon never reads it back; `ModelCalls`
has it); the retry
branch of `emitBatch()` (`enqueue` never rejects); saves that restore bytes a
path held before; replies that cover part of a batch, and single edits that
fail and are skipped; facts (`FactTable`); what `WikiWriters` models (staging, `index.md`,
search, git). Link repair is
an arbitrary set of further pages in the record.

### WorkspaceKeys

Each operation of `keys/store.ts` is one SQLite transaction and one action.
`Start`, `Provision`, `InitChain`, `Sign` and `Down` are the daemon between
its awaits; `Rotate`, `RotateKek`, `Archive` and `Revoke` are commands, the
sweep, or both; `Stage` and `Swap` are the operator of
`docs/policies/kek-rotation.md`, `Redeployed` what setting a secret does.
Assumed: `verify_on_startup` is on; the operator does not take "0 rows" for a
success (on an empty store `rotate-kek` reports just that, and the next start
provisions under the old KEK); an active key is not revoked (`RevokeFrom`):
nothing in the code calls `revoke()` yet.

### TenantScheduler

A microtask runs to its end, so each handler and each tick is one action. The
jobs of one tenant are interchangeable, and its FIFO a length. `Tick` is
`processTick()` with `cleanupEmptyTenants()` and `checkDrained()`; `Finish` is
the end of `executeJob()`; `Stop` and `DrainTimeout` are `IngestionQueue.stop()`.

`NobodyStarves` is what the comment at `tenant-scheduler.ts:177` says, and it does
not hold: when idle tenants leave the round, `rrIndex` is reduced modulo a smaller
number, and may fall back each time before it has come to the last one. Four
tenants that keep running out of work and getting new one suffice, with two jobs at
a time (`tenants_starved`; `BusySpec` in `MCTenantScheduler` leaves out pauses and the stop).
`NoStarvation` says that there is no other way: unless tenants
leave the round for ever, each one that waits is served.

### RedactionOutbox

`Post`, `Accepted` and `Failed` are the two halves of `tick()` around its
await, the second in its two outcomes; `Handle` is the cloud, which may handle a
request after the worker has given it up, and whose answer may get lost. The
endpoint is modelled from how `redaction-sink.ts` uses it: a batch is taken
whole or refused whole, an event id is stored once. Two rows of one
millisecond keep their order of creation.

### WikiWriters

`job[w]` is the pass that writer `w` has under way: its `kind` (ingestion,
archiving, compounding, a repair of one page, a merge, a repair of backlinks,
`wotw approve`, `wotw reject`) and its `stage`. Each action is one stage, and
serves all kinds that have it; what differs is decided by `kind`:

| Actions | Code |
|---|---|
| `Ask`, `Reply`, `NoReply`, `Edit` | the call to the model and the edits it asks for: `queue.ts:283`, `engine.ts:345`, `invokeHeal()` |
| `Reconcile` | `reconcileWrittenPages()`, with the move to `candidates/` under staging |
| `ReconcileFails` | its two `catch` branches: the page is skipped (`wiki-writer.ts:108`), or its `unlinkSync()` fails after the candidate was written (`:101`) |
| `RepairLinks`, `Load`, `Relink` | `loadAllPages()`, `repairBidirectionalLinks()` and the writes that follow |
| `Index` | `index.md` and the search of the daemon, from `finalPages` |
| `Archive`, `Mark` | `archiveDeletedSources()` |
| `Decide`, `Place`, `Drop` | `approveOne()`, `runReject()` |
| `Hash`, `Record`, `RecordFails` | the record in the chain, and which pages it names |
| `Commit`, `CommitFails` | `commitWikiChanges()` |
| `End`, `Abort`, `Restart` | the end of a pass, an exception or the death of its process, `IngestionQueue.start()` |

Nothing in the code keeps two of these passes apart, the daemon's queue aside,
and so nothing here does. While two overlap, each can write back pages as it
read them before the other wrote: no property forbids it, because the code does
nothing against it. The properties say what can be relied on nevertheless. A pass that has
the wiki for itself from its first step to its last leaves all links
symmetric, both indexes current, and what it changed in the chain and in
git, whatever a pass before it left half-done. Changed is every page that is not as
it was when the pass began, those it removed included. Three kinds of
changes are left out by the code, and are named by `LeftOut` and in
`ChangesAreOnRecord`:

- pages the reconciler could not write: they stay in `wiki/` as the agent left
  them, in no record and no commit (unless the repair of links rewrites them);
- approved pages that an ingestion under staging takes out of `wiki/` when the
  agent rewrites them: the new text is a candidate, the old one gone, and neither
  record nor commit says so;
- in the record only, the pages whose links compounding repaired.

`ReviewComesFirst` holds only without overlap and death, and but for the texts in
`astray`. Under staging the agent writes into `wiki/` and the page is moved out
afterwards. A pass that loads it in between, for the repair of links, writes it back
after it was moved; a process that dies in between leaves it there; and so does
the reconciler when the candidate cannot be written or the page not be unlinked,
both of which it passes over (`astray`).

Assumed: the agent leaves syntheses to compounding, and a repair writes no new
pages, as its prompt demands. `wotw approve` puts a candidate where its title and
category belong, which may be any page that is no synthesis.
In hosted mode two batches may be ingested at a
time; the run has one, as the `PQueue` of the default mode.

### DaemonLifecycle

`Launch`, `Check`, `Begin` and `StartDone` are `wotw start`, `entry.ts` and
`Daemon.run()` up to the last subsystem; `Term`, `StopDone`, `StopRejects`,
`ReleaseLock` and `Exit` are `shutdown()`, which a signal, a failed start
(`StartFails`) or a lost lock (`Notice`) begins; `StopReads`, `StopRemoves`,
`StopForces` and `StopGivesUp` are `wotw stop`. `Kill`, `Freeze`, `Thaw` and
`GoStale` are the world: a process may die or be suspended anywhere, and a lock
that nobody renews for ten seconds is anybody's. The subsystems are numbers in
the order `entry.ts` attaches them; two are told apart, the queue and the
watcher that feeds it.

The PID file is written when the lock is held but before any subsystem has
started, although `process-manager.ts:48` reads it as "up": a `wotw start` may
report success for a daemon whose start then fails. The exceptions the
properties make (`exposed`, `freezes`, `late`, `failed`) are all reachable:
`wotw stop` removes the PID file whoever it names by then, and a subsystem
whose `start()` was under way when the signal came runs on until `exit`.

### Spending

Everything that pays for a call is an operation; each has the tracker of its
process. `Hydrate`, `WouldExceedDaily` and `LogUsage` are `cost-tracker.ts`; the
`Begin...` actions are the checks before an operation, the `...Answered`
actions what the call costs; `Settled`, `SettledEmpty` and `SettlingThrows` are the
entry after the answer was put to use, in ingestion and compounding. A log that
cannot be read makes the check throw (`cost-tracker.ts:36`) and nothing is let through:
no step of the model. The history variables `lost`, `unlogged` and `twice`
count what is missing from the log, and what is in it twice, in the ways
the code shows: a failing or torn append, a pass that dies before its entry,
and the expansion of a query, which `query-expansion.ts:76` enters and
`query-engine.ts:209` adds to the answer's cost again.

`AdmittedWithinCap` is weaker than the "hard daily budget (all operations
combined)" of `docs/configuration.md:62`, as the code is: fact extraction is
entered but never checked, operations check before they enter, so that those
under way at the same time all pass, and a lint pass or a reindexing spends
through a tracker of its own, which the daemon's, having read the log once,
does not see until midnight.

### LintPasses

`Startup`, `Tick` and `Command` begin a pass: a report of the whole wiki
(`Report`, with the checks of `health.ts` by what they find), then one finding
after the other (`Skip`, `Ask`, `Heal`, `HealPoorly`, `Fail`, `HealLinks`)
until the quota is used up. `failed` is `healAttempts`.

Seen in the model, and excluded by no property because the code does nothing
about it: a merged page stays in the search index, and the detection does not
skip it, so that its survivor is found to be a duplicate in every pass, merged
again, counted as fixed and charged to the quota, with no backoff, which only
failures get. `healMissingBacklinks` repairs all links at once, and the next such finding of
the same report fails for "no mutations needed". A repair that throws ends the
pass and is not noted.

A repair need not help. `healStale` and `healBrokenLinks` report a fix whenever the
reply has an edit (`heal-handlers.ts:78-97`, `:209-228`), so that a page that is
stale, or has a dead link, may be repaired in every pass, and each time takes
its part of the quota (`HealPoorly`, as often as it likes). Such findings come before missing
links, and where they fill the quota no link is ever repaired.
`LinksGetRepaired` names this case (`InVain`) and says that it is the only one: merges
that come back repair all links on their way, a failure does not count towards the
quota, throws and restarts only delay. Changes from outside are bounded (`MaxTroubles`):
pages must not grow stale faster than the quota allows.
With the default interval of a day, longer than the backoff of six hours,
the backoff never bites.

### FactTable

Each SQL statement is a step. `AskModel` to `Record` are `runFactExtraction()`
for a page, in the passes of the daemon; `Reindex` and `Reinsert` are
`wotw facts reindex`, with the table but without the daemon's index and
record. `Restart` rebuilds the index. The comment at `queue.ts:688` says the
statements are one transaction; they are not. The index is never told of
superseded facts, so a search may find them until the daemon starts again
(`retired`), and `store.ts:16` calls single-writer a table that the reindexing
process writes as well (`mixed`). `SupersedeFails` is an UPDATE that throws: no
`catch` is near, and the pass or the reindexing is over. Left out: pages in staging, whose facts are
stored under `candidates/...`, and pages rewritten by a repair or by the
archive, which keep the facts they had.

### Service and its five parts

`Service` runs five parts beside each other, which share nothing: each step is one of
one part, and a behaviour is about one. The properties are those of the parts.

- `ProgressiveRetrieval` is `query_progressive` (`Ask`, `Answer`) and
  `query_expand` (`Expand`, `ExpandRefused`) with their cache; a text is its
  length, and what a tier ships is computed as the code does. Tokens are
  numbered in the order they are made, which is that of the cache. An entry is
  made even if there is nothing more to ship, `has_more` looks at
  the tier and not at the hits, so that with five hits or fewer tier 3 ships
  the top five again (the branch `progressive-query.ts:375` says "should not
  happen"), and the last tier may go one token beyond the total that
  `docs/mcp-tools.md:243` calls a hard cap.
- `Uploads` is `POST /internal/ingest`: `Post`, `TurnDown`, `Open`, `Write`,
  `Accept`, `Break`, `CleanUp`, with two requests for one name free to run at
  once. `CleanUpFails` is the `unlink` whose failure `safe-fetch.ts:239` passes over:
  the part of the file stays, until a download of that name ends well (`torn`).
  `GetStuck` is the wait for `drain` that an error of the stream does
  not end. A slow download may be picked up by the watcher half-way;
  `IngestionPipeline` has this as a save that is followed by another.
- `AccessTokens` is `tokens.json` between `Load` and `Saved` of commands that run
  beside each other, the copy of the daemon, and the bucket of an address.
- `ModelCalls` is the choice between the CLI and the API and what becomes of a
  call: `Overdue` sends SIGTERM and stops waiting only when the process is gone,
  `DaemonEnds` leaves it running. The exit status of the CLI is dropped on
  the way (`runtime-aware.ts`); a failure other than a missing login looks like
  a reply that does not parse, which ends in the ledger or in nothing at all.
- `FactTable`, see above.

## Runs

| Run | What it checks | Instance and why it is enough | States |
|---|---|---|---|
| `chain` | `VerifyPasses`, `AckedDurable`, `StartNeverRefused`, `ImplementsHashChain`, `LossIsDetected`, `CompleteLinesKept`, `AppendSettles` | two objects, open at once or in turn, three callers, every fault, two appends: a fault or a second writer, and a successor | 603 k |
| `pipeline` | `NothingLeftBehind`, `DeletionsOrphanTheirPages` | two files, two saves, every fault, one restart: mixed batches, a file queued while it is ingested | 2.85 M |
| `pipeline_progress` | `EveryFileIsTakenUp` | a budget of one call a day, and an agent that may always fail | 145 k |
| `keys` | `OneActive`, `OneKek`, `NoDekLost`, `RunningDaemonVerifies` | four keys, three KEKs: three rotations, two KEK rotations; keys and KEKs are symmetric | 16 k |
| `tenants` | `DrainedIsIdle`, `NoStarvation`, `DrainEnds` | three tenants, two jobs at a time, two waiting each: a round may end before it has come to everybody | 109 k |
| `tenants_starved` | `NobodyStarves`, which is violated | five tenants, two jobs at a time, one waiting each, no pause and no stop: the fewest for which we found a round that keeps falling back | |
| `wiki` | `LinksGoBothWays`, `IndexesAreCurrent`, `ChangesAreOnRecord`, `ChangesAreCommitted`, `ReviewComesFirst` | three pages, two of one name and interchangeable, two replies of the agent, which link to all pages or none; once a pass begins beside another or dies, and once an append, a commit, a write of the reconciler or its unlink fails: enough for a half-done pass and an undisturbed one after it | 1.96 M |
| `outbox` | `SentIsDelivered`, `EventuallySettled` | three events, one refused by the cloud, in batches of two: with and without the refused one | 12 k |
| `daemon` | `OneDaemon`, `Findable`, `ShutdownIsComplete`, `StopsWhenTold` | two daemons and a `wotw stop`, two subsystems (the queue and the watcher), a suspension, a `start()` or `stop()` that rejects, kills anywhere: a second start in every stage of the first | 367 k |
| `spending` | `LedgerIsComplete`, `CacheAgrees`, `AdmittedWithinCap` | two operations of the daemon and a lint pass, a cap of one, three calls a day, a midnight and a fault: two trackers and an overrun | 1.97 M |
| `lint` | `FailuresAreSpaced`, `LinksGetRepaired` | two pages, found to be duplicates for ever, a quota of one, two passes of the interval, that of the start and a command, one change from outside, any number of repairs in vain: findings of all five kinds in front of the link, in a quota that does not do for all | 224 k |
| `service` | `PromiseIsKept`, `AcceptedStays`, `TokensHold`, `CallsAreAccountedFor`, `OneExtraction`, `IndexFollows`, `FactsAreOnRecord` | two clients and three questions on a cache of two; three downloads of one name in two parts; two commands on two users; two slots, four batches; two passes and a reindexing on one page, three extractions of two facts: each part has what two actors can do to each other, and a third that comes after | 1.69 M |

Bounds: `MaxAppends` (ids computed), `MaxSaves`, `MaxQueue` (batches waiting; an
event waits until there is room), `MaxRestarts`, `MaxDepth` (jobs waiting per
tenant), `MaxCrashes`, `MaxReplies`, `MaxDisturbances`, `MaxLaunches`,
`MaxFreezes`, `MaxRejects`, `MaxCost`, `MaxCalls`, `MaxDays`, `MaxTroubles`,
`MaxEntries` (of the cache: a constant of the code), `MaxTokens`, `MaxIssued`,
`MaxDamages`, `MaxBatches`, `MaxExtractions`, and `MaxFaults`,
`MaxUploadFaults`, `MaxCallFaults`. But for `MaxEntries` they are guards of actions and
types and say nothing about the code. `IngestCap` and `DailyCap` of the pipeline are
the caps of the configuration, in calls.
`CHECK_DEADLOCK FALSE` stands where users, callers or operators may stop for
good, and then nothing is left to do.

Each module has a type invariant (`TypeOK`, or `UploadsTypeOK` and so on where
modules are put together). They hold in the instances above; they are not
among the properties of the runs.

### Fairness

- chain: a file operation that was started settles, and so does the code after
  it, per caller. Nobody is obliged to open, call or exit.
- pipeline: events are delivered, timers fire (the debounce window, the
  reconciliation every five minutes), `process()` goes on, and days pass. The
  agent may fail every time, and the user may do nothing.
  `EveryFileIsTakenUp` leaves out one fault, "wording": `entry.ts:291` takes an
  error for a budget skip if its text contains "budget", "cap" or "exceeds",
  and an agent that always fails with such a text is retried without end.
- tenants: a scheduled microtask runs, and each job ends, because the calls to
  the model time out. New jobs, pauses and unpauses are free.
- daemon: a signal is delivered, an awaited `stop()` ends, the timer of
  `wotw start` fires and a suspended process goes on. Each `stop()` has a
  timeout of its own, or waits for requests in flight. Nobody is obliged to
  start or stop a daemon.
- lint: the timers fire, each pass goes on (every call of the model ends, if
  only by its timeout), and the backoff of each finding ends. The model may fail every time, or
  repair in vain every time; the latter is named in the property.
- wiki, keys, spending, service: none, their properties are about single
  states and steps.
- outbox: ticks follow each other, a POST ends within its ten seconds, and the
  supervisor restarts the daemon. Nothing is assumed of the cloud.

## Proofs

Every invariant and every action property of the runs is a theorem, for every
value of the constants that the assumptions of the modules allow; so is the
refinement of `HashChain`. The assumptions say what kind of value a
constant is, that sets are finite and that sorts of things are told apart; where a
theorem needs more, it is said below. Each argument is an inductive invariant,
stated at the head of its section of the module.

| Module | About | Theorems |
|---|---|---|
| `ProvenanceChainProofs` | `ProvenanceChain` | `TypeCorrect`, `LockExcludes`, `ChainVerifies`, `AckedNeverLost`, `StartsSucceed`, `Refinement`, `LinesAreKept`, `LossesAreDetected` |
| `IngestionPipelineProofs` | `IngestionPipeline` with `FileWatcher` | `NothingIsLeftBehind`, `DeletionsArrive` |
| `WikiWritersProofs` | `WikiWriters` | `LinksAreRepaired`, `IndexesAreRebuilt`, `RecordsAreComplete`, `CommitsAreComplete`, `ReviewIsKept` |
| `DaemonLifecycleProofs` | `DaemonLifecycle` | `LifecycleTyped`, `NeverTwoDaemons`, `ServingIsFindable`, `ShutdownLeavesNothing` |
| `SpendingProofs` | `Spending` | `CachesAgree`, `BudgetAdmits`, `LedgerStaysComplete` |
| `LintPassesProofs` | `LintPasses` | `SpacedFailures` |
| `HostedProofs` | `WorkspaceKeys`, `RedactionOutbox`, `TenantScheduler` | `KeysTyped`, `OneActiveKey`, `DaemonKeepsVerifying`, `OneKekAtATime`, `NoDekIsLost`, `SentMeansDelivered`, `DrainedStaysIdle`, `LimitsAreKept`, `NoLostWakeUp`, `SchedulerTyped` |
| `ServiceProofs` | `Service` and its five parts | `AcceptedFilesStay`, `FloodsAreBounded`, `TokensAreHeld`, `FactsTyped`, `OneExtractionPerPage`, `IndexFollowsTable`, `FactsGoOnRecord`, `CallsStayAccountedFor`, `PromisesAreKept`, `PartsKeepTheirPromises` |

**Provenance chain.** All hold for any number of objects open at once and
under every fault. `LossesAreDetected` needs only that what `append()` returns, or is
about to write, is a record (`RealRecords`). The others are not inductive: that every
record continues the one before it says nothing of the next append.
`ChainInv` adds what the code relies on, for objects that were not left behind: at
most one caller of an object is past the lock and it is the head of its queue
(`LockExcludes`); the head in memory, and what `init()` has read but not yet
adopted, is the last record of the file; the draft of a caller continues the head until it
is written, and is the last record afterwards. From it follow `ChainVerifies`
and `StartsSucceed`. `AckedNeverLost` counts (`LossBound`): acknowledged records,
and those written and about to be, that the file does not hold, against writes cut
short and the unterminated line that may still swallow one. `Refinement` from both,
and from `WholeInv`: until a write is cut short no line is lost.

**Pipeline.** Both properties speak of quiet states; the invariant says what may
be under way in all others. `ShownInv`: what a file holds is on its way to
the agent (in an event, in the window, in a batch not yet begun), or is what the
agent was last shown. `DeletionInv`: a deletion that has not reached its page is
on its way too, and behind every batch that adds the same path.
Lemmas about `Registered` and `Reconcile` say what becomes of the window and of
the queue when batches reach their cap.

**Wiki.** `AloneInv` follows a pass that has the wiki for itself: what it
loaded is still what is there, what differs from the wiki it began with
is among the pages it wrote, relinked or skipped, or was staged (`Covered`),
and at each stage one more thing
is done (`Sure`). Nothing is said of other passes, which is why whatever
they leave behind does not matter. `ReviewInv` says that a text that is to be
reviewed is in the wiki only where the pass that wrote it has yet to come, or
failed to move it.

**Daemon.** `NeverTwoDaemons` from `LockInv`: until a process was
suspended, whoever serves or shuts down holds the lock, and a stale lock is
that of a dead process. `ServingIsFindable` from `FileInv`: the PID file names
who serves, and so does every `wotw stop` that is waiting to remove it.
`ShutdownLeavesNothing` from `OrderInv`: the subsystems start upwards and stop
downwards, so that what is up above the one being stopped is late or has
failed. For any number of processes, commands and subsystems (at least two).

**Spending.** `CachesAgree` and `BudgetAdmits` from `BudgetInv`: what went
through a tracker and was not lost is in the log, so that a cache filled
from the log at any time starts out right; no cache is of a day to come.
`LedgerStaysComplete` is about sums over all trackers and operations. The
equations are inductive as they stand; what had to be shown first is how the
sum of the library, a recursion over subsets, behaves: that it is defined,
that any element may be taken out of it, that it splits. That is induction over
finite sets, for which the induction theorems of the library cannot be used
(they take an operator); each lemma looks instead at a smallest set of which it does not
hold, which exists because strict inclusion is well-founded on the subsets of a
finite set (`SmallestSubset`). Then each step changes
what is owed by what the one operation is due (`SettlementStep`).

**Lint.** `SpacedFailures` from `BackoffInv`: who asks about a finding found it
out of backoff, and at most one other pass has failed since, because only the pass of
the start can run beside one of the interval (`AloneInv`).

**Hosted mode.** `OneActiveKey` is nearly inductive.
`DaemonKeepsVerifying` needs that a daemon past its start has the DEK of
every key it signed with; `OneKekAtATime` and `NoDekIsLost` need each other, and
that after a successful `rotate-kek` every row is wrapped under the staged
KEK. These two assume that there is no rollback and no revocation of an active
key. `SentMeansDelivered` from the invariant that an accepted batch is in the
cloud. `DrainedStaysIdle` and `LimitsAreKept` need that `globalActive` is the sum of what
the tenants have running (`CountInv`, by the cardinality of a set of jobs), and
that nobody drains who has not stopped. `NoLostWakeUp` and `SchedulerTyped`
say beyond this that no wake-up gets lost: an order that has every tenant with jobs
(`SeenInv`), an index that is in it, and so a round that starts a job wherever
it may when none is running (`LaunchedFacts`). They rest on what the filter of
`cleanupEmptyTenants()` keeps (`LeftKeeps`); it is written as a recursive function, and the
lemma is proved by a smallest length at which it fails.

**Service.** Each part keeps its promise by itself, and each behaviour of `Service`
is one of each part (`EachPartBehaves`), so the promises hold of what the run
checks (`PartsKeepTheirPromises`).
`AcceptedFilesStay` from `UploadsInv`: a request that no other
has come in the way of is alone with its name from `Open` on, its name stands
for the file it writes, and this file holds what it has written so far; a file
whose downloads are over is whole, or its name is in `torn`.
`TokensAreHeld` from `FileInv`: what holds of the file holds
of every copy a command has loaded, save for the users it has missed.
`FloodsAreBounded` (`FloodIsBounded`: however an address spreads its requests,
those let through never exceed a full bucket beyond what was refilled) holds
for any capacity and rate; no run checks it beside the proof.
`OneExtractionPerPage` from `ExtractionInv`: outside
`mixed`, a writer that has found nothing to supersede has an empty page
before it, and one that inserts sees only its own facts;
`IndexFollowsTable` and `FactsGoOnRecord` from the same statements about every
moment, with what a pass has on its way to the chain.
`CallsStayAccountedFor` from `CallInv`: a process runs for a slot that waits for it
unless it was orphaned, and no process runs when the API is used.
`PromisesAreKept` from `PromiseInv`: the age of an entry is the time its token was
not used, no two clients were told of one token, and a token whose last answer
arrived has an entry with a tier and tokens left, or has been passed over in one of the
ways the property names.

Only model-checked is liveness: `AppendSettles`, `EveryFileIsTakenUp`,
`NoStarvation`, `DrainEnds`, `EventuallySettled`, `StopsWhenTold` and
`LinksGetRepaired` rest on fairness, which is about `ENABLED`, and that the provers
at hand do not treat. For the scheduler, `NoLostWakeUp` is the part that needs none.

## What the code does not promise

Where the model shows that a sentence of the documentation or a comment does
not hold, the properties above are stated so that they say what does. The differences:

- "Git, the wiki store, and the provenance chain are all serialized through a
  single writer path" (`docs/architecture.md:246`). The scheduled lint pass,
  `wotw lint` and `wotw approve` append through chain objects of their own
  (`cli/commands/lint.ts:178`). An object that another has overtaken gives
  its next record a sequence number that is taken, and with `verify_on_startup` the next
  start is refused: this is what `drifted` counts.
- "Crash-safe. Every write is atomic" (`docs/architecture.md:252`). `chain.ts:350`
  appends in place. A process killed in the write leaves part of a line, the next
  record is glued to it, and is not readable although it was acknowledged: this is what
  `torn` counts. A file whose only line is incomplete keeps the daemon
  from starting (`chain.ts:186`).
- "no tenant is systematically starved" (`tenant-scheduler.ts:177`): see
  TenantScheduler, and the run `tenants_starved`.
- "On any failure the (partial) target file is removed" (`safe-fetch.ts:112`), unless
  removing it fails, too, which is passed over (`:239`). `AcceptedStays` counts it in `torn`.
- Under staging nothing is in the wiki before it was approved, unless the reconciler
  cannot write the candidate or unlink the page, which it passes over
  (`wiki-writer.ts:101-111`): `astray`. And what a staged ingestion takes out of `wiki/` is in
  no record and no commit.
- A stale page or a dead link that is repaired in vain counts as fixed, is found
  again in the next pass, has no backoff and takes its part of the quota
  (`heal-handlers.ts:78-97`, `:209-228`, `lint.ts:219-231`): `InVain`.
- The watcher "re-tries those paths on the next reconciliation pass"
  (`watcher/index.ts:48-52`). Reconciliation looks only at paths never processed
  (`:257`): an update of a file processed before, retained for lack of
  budget, is not tried again until the file changes or the daemon
  starts anew. `NothingLeftBehind` counts it in `unsettled`.
- The rollback of a KEK rotation (`docs/policies/kek-rotation.md:164`) runs
  `rotate-kek` once more with the old KEK as the new one. With `Rollback = TRUE`,
  TLC finds an order of the runbook's steps after which no KEK at hand opens
  the rows: `NoDekLost` fails.
- Hazards noticed and covered by no property, because nothing in the code
  speaks to them: a chain that signs with the fallback while a rotation has
  left no active key (`chain.ts:308`); revoked rows, which keep the old KEK on
  purpose (`keys/store.ts:344`); source hashes taken after the prompt was made
  (`queue.ts:313`); records that name every source for every page of a batch
  (`queue.ts:777`); the promise of a job dropped after `stop()`, which never
  settles (`queue.ts:214`); a batch of additions and deletions that comes to
  nothing and takes its deletions with it (`queue.ts:328`).
- Smaller ones, outside the models: a compounding pass started by the
  `synthesize` tool is not covered by the guard against two at once;
  `vocabulary-enricher.ts` is called by nothing, whatever
  `lint-scheduler.ts:134` says; in API mode the prompts of `healStale` and
  `healBrokenLinks` ask for the whole page anew without containing it;
  `RateLimiter.sweep` is never called, so that buckets are kept for ever;
  `/internal/rebuild-index` may overwrite an index that is newer; a write to the
  standard input of a CLI that is gone is an error nobody handles, and shuts
  the daemon down.

## Not modelled

The language model and its providers, whose adapters translate a request and
keep nothing; search ranking and BM25 (floating point); narrow queries, a
stateless rendering of hits; the parsing and formatting of pages; the
detection of contradictions (the code has none); how compounding finds its
clusters; the retries of git on `index.lock`; the sink that copies records to
the cloud and that nothing waits for; configuration, telemetry, the init wizard
and the commands that only print or hand a request to the server. These are
sequential or pure I/O, and unit tests reach them. They also make up most of
the implementation that `PROJECT.json` does not map.

A wider instance would say more in two places: the `wiki` run has one disturbance
(with two, what an earlier pass left half-done could be disturbed again), and
`pipeline` two files; both are at what TLC finishes in minutes.
