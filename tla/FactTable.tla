-------------------------------- MODULE FactTable --------------------------------
(***************************************************************************)
(* The facts of the wiki: the table facts.db (src/facts/store.ts), the     *)
(* index of it that the daemon searches (src/facts/index-manager.ts) and   *)
(* the records of the chain that say which facts came and went.            *)
(*                                                                         *)
(* An ingestion pass of the daemon asks the model for the facts of each    *)
(* page it has written and then, without giving up the event loop,         *)
(* supersedes the old facts of that page, inserts the new ones and adds    *)
(* them to the index (src/ingestion/queue.ts, runFactExtraction).  `wotw   *)
(* facts reindex` does the same to the table from a process of its own,    *)
(* with an index of its own and no record (src/cli/commands/facts.ts).     *)
(* Every SQL statement is a step: better-sqlite3 commits each by itself.   *)
(*                                                                         *)
(* A fact is <<page, extraction, number>>.  Texts, questions and ranking   *)
(* are left out; a fact whose questions cannot be inserted stays in the    *)
(* table and is not put into the index.                                    *)
(***************************************************************************)
EXTENDS Integers, FiniteSets

CONSTANTS
    Pages,
    Passes,         \* ingestion passes of the daemon at the same time
    Reindexers,     \* `wotw facts reindex` commands
    PerPage,        \* facts in one extraction
    MaxExtractions, \* bound: extractions
    MaxFaults       \* bound: failed statements, records and rebuilds, deaths

FactAssumption ==
    /\ Passes \cap Reindexers = {}
    /\ PerPage \in Nat \ {0}
    /\ MaxExtractions \in Nat
    /\ MaxFaults \in Nat

Writers == Passes \cup Reindexers

VARIABLES
    active,         \* the facts in the table that are not superseded
    superseded,     \* and those that are
    index,          \* what the FactIndex of the daemon holds
    attested,       \* the facts that a record on the chain says were added
    retracted,      \* ... that were superseded
    writer,         \* how far each extraction is
    extractions,    \* how many there have been
    mixed,          \* pages two processes have written at once (history)
    unindexed,      \* active facts the index may lack (history)
    unattested,     \* facts no record may name (history)
    retired,        \* superseded since the daemon started (history)
    faults          \* faults so far

factVars == <<active, superseded, index, attested, retracted, writer, extractions,
              mixed, unindexed, unattested, retired, faults>>
chain == <<attested, retracted>>
-----------------------------------------------------------------------------
Facts == Pages \X (1 .. MaxExtractions) \X (1 .. PerPage)
Of(S, p) == {f \in S : f[1] = p}

\* next is the number of the fact to insert; news and gone are added and
\* superseded of runFactExtraction.
Idle == [does |-> "idle"]
Extracting == [does : {"asking", "selected", "writing", "recording"}, page : Pages,
               number : 1 .. MaxExtractions, next : 1 .. PerPage + 1,
               news : SUBSET Facts, gone : SUBSET Facts]

FactTypeOK ==
    /\ active \subseteq Facts
    /\ superseded \subseteq Facts
    /\ index \subseteq Facts
    /\ attested \subseteq Facts
    /\ retracted \subseteq Facts
    /\ writer \in [Writers -> Extracting \cup {Idle}]
    /\ extractions \in 0 .. MaxExtractions
    /\ mixed \subseteq Pages
    /\ unindexed \subseteq Facts
    /\ unattested \subseteq Facts
    /\ retired \subseteq Facts
    /\ faults \in 0 .. MaxFaults

FactInit ==
    /\ active = {}
    /\ superseded = {}
    /\ index = {}
    /\ attested = {}
    /\ retracted = {}
    /\ writer = [w \in Writers |-> Idle]
    /\ extractions = 0
    /\ mixed = {}
    /\ unindexed = {}
    /\ unattested = {}
    /\ retired = {}
    /\ faults = 0

At(w, stage) == writer[w].does = stage
InTable(w) == writer[w].does \in {"selected", "writing"}

\* The event loop is not inside some pass's statements.
LoopIsFree == \A w \in Passes : ~InTable(w)
MayStep(w) == w \in Passes => \A v \in Passes \ {w} : ~InTable(v)

Fault == faults < MaxFaults /\ faults' = faults + 1

\* Somebody else is in the middle of the facts of w's page.
Overlap(w) == \E v \in Writers \ {w} : InTable(v) /\ writer[v].page = writer[w].page
-----------------------------------------------------------------------------
\* extractFactsFromPage(): the model is asked.
AskModel(w, p) ==
    /\ At(w, "idle")
    /\ extractions < MaxExtractions
    /\ extractions' = extractions + 1
    /\ writer' = [writer EXCEPT ![w] =
           [does |-> "asking", page |-> p, number |-> extractions + 1, next |-> 1,
            news |-> {}, gone |-> {}]]
    /\ UNCHANGED <<active, superseded, index, chain, mixed, unindexed, unattested, retired, faults>>

\* A page of the batch has been written, or its turn has come.
Extract(w, p) == w \in Passes /\ LoopIsFree /\ AskModel(w, p)

\* The next page of a reindexing, in a process that has opened the table itself.
Reindex(w, p) == w \in Reindexers /\ AskModel(w, p)

\* An error, or no facts, or a SELECT that throws: the old ones stay.
ExtractNothing(w) ==
    /\ MayStep(w)
    /\ At(w, "asking")
    /\ writer' = [writer EXCEPT ![w] = Idle]
    /\ UNCHANGED <<active, superseded, index, chain, extractions, mixed, unindexed, unattested,
                   retired, faults>>

\* supersedeByWikiPage(): the SELECT, whose hashes go on the record ...
SelectActive(w) ==
    /\ MayStep(w)
    /\ At(w, "asking")
    /\ writer' = [writer EXCEPT ![w].does = "selected", ![w].gone = Of(active, writer[w].page)]
    /\ UNCHANGED <<active, superseded, index, chain, extractions, mixed, unindexed, unattested,
                   retired, faults>>

\* Mutant of Superseded: the UPDATE matches no row.
Superseded_None(w) == {}

Superseded(w) == Of(active, writer[w].page)

\* ... and the UPDATE, left out if the SELECT found nothing.
Supersede(w) ==
    /\ At(w, "selected")
    /\ LET old == IF writer[w].gone = {} THEN {} ELSE Superseded(w)
           p == writer[w].page
       IN  /\ active' = active \ old
           /\ superseded' = superseded \cup old
           /\ retired' = retired \cup old
           /\ unattested' = unattested \cup
                  IF w \in Passes THEN old \ writer[w].gone ELSE old
           /\ mixed' = CASE Overlap(w) -> mixed \cup {p}
                        [] ~Overlap(w) /\ writer[w].gone # {} -> mixed \ {p}
                        [] OTHER -> mixed
    /\ writer' = [writer EXCEPT ![w].does = "writing"]
    /\ UNCHANGED <<index, chain, extractions, unindexed, faults>>

\* The UPDATE throws, the table being busy, say.  Nothing catches that here: the
\* pass or the reindexing is over.
SupersedeFails(w) ==
    /\ At(w, "selected")
    /\ Fault
    /\ writer' = [writer EXCEPT ![w] = Idle]
    /\ UNCHANGED <<active, superseded, index, chain, extractions, mixed, unindexed, unattested,
                   retired>>

NextFact(w) == <<writer[w].page, writer[w].number, writer[w].next>>
Writing(w) == At(w, "writing") /\ writer[w].next <= PerPage
MixedBy(w) == IF Overlap(w) THEN mixed \cup {writer[w].page} ELSE mixed

\* insertFact() and insertQuestions() of the next fact.
InsertRow(w) ==
    /\ Writing(w)
    /\ active' = active \cup {NextFact(w)}
    /\ writer' = [writer EXCEPT ![w].next = @ + 1, ![w].news = @ \cup {NextFact(w)}]
    /\ mixed' = MixedBy(w)
    /\ UNCHANGED <<superseded, chain, extractions, retired, faults>>

\* add(), of the index.
Indexed(f) == index \cup {f}

Insert(w) ==
    /\ w \in Passes
    /\ InsertRow(w)
    /\ index' = Indexed(NextFact(w))
    /\ UNCHANGED <<unindexed, unattested>>

\* The reindexing adds it to an index of its own, which it then drops.
Reinsert(w) ==
    /\ w \in Reindexers
    /\ InsertRow(w)
    /\ unindexed' = unindexed \cup {NextFact(w)}
    /\ unattested' = unattested \cup {NextFact(w)}
    /\ UNCHANGED index

\* A statement throws: without the fact, or with it but not its questions.
InsertFails(w) ==
    /\ Writing(w)
    /\ Fault
    /\ \E half \in SUBSET {NextFact(w)} :
           /\ active' = active \cup half
           /\ unindexed' = unindexed \cup half
           /\ unattested' = unattested \cup half
    /\ mixed' = MixedBy(w)
    /\ writer' = [writer EXCEPT ![w].next = @ + 1]
    /\ UNCHANGED <<superseded, index, chain, extractions, retired>>

\* Mutant of Notable: a page that only lost facts is not worth a record.
Notable_News(w) == writer[w].news # {}

Notable(w) == writer[w].news # {} \/ writer[w].gone # {}

\* The page is done; a pass appends a record, which is awaited.
Inserted(w) ==
    /\ At(w, "writing")
    /\ writer[w].next > PerPage
    /\ writer' = [writer EXCEPT ![w] =
           IF w \in Passes /\ Notable(w) THEN [@ EXCEPT !.does = "recording"] ELSE Idle]
    /\ UNCHANGED <<active, superseded, index, chain, extractions, mixed, unindexed, unattested,
                   retired, faults>>

Record(w) ==
    /\ LoopIsFree
    /\ At(w, "recording")
    /\ attested' = attested \cup writer[w].news
    /\ retracted' = retracted \cup writer[w].gone
    /\ writer' = [writer EXCEPT ![w] = Idle]
    /\ UNCHANGED <<active, superseded, index, extractions, mixed, unindexed, unattested, retired, faults>>

\* What a pass that comes to nothing leaves without a record.
Unrecorded(S) == UNION {writer[w].news \cup writer[w].gone : w \in {v \in S : ~At(v, "idle")}}

\* The record is best effort.
RecordFails(w) ==
    /\ LoopIsFree
    /\ At(w, "recording")
    /\ Fault
    /\ unattested' = unattested \cup Unrecorded({w})
    /\ writer' = [writer EXCEPT ![w] = Idle]
    /\ UNCHANGED <<active, superseded, index, chain, extractions, mixed, unindexed, retired>>

\* Mutant of Rebuilt: every row of the table is indexed.
Rebuilt_All == active \cup superseded

Rebuilt == active

\* The daemon ends, or dies, in the middle of anything; the next one indexes
\* the active facts, or nothing when that fails.
Restart ==
    /\ Fault
    /\ writer' = [w \in Writers |-> IF w \in Passes THEN Idle ELSE writer[w]]
    /\ unattested' = unattested \cup Unrecorded(Passes)
    /\ retired' = {}
    /\ \/ index' = Rebuilt /\ unindexed' = {}
       \/ index' = {} /\ unindexed' = active
    /\ UNCHANGED <<active, superseded, chain, extractions, mixed>>

ReindexerDies(w) ==
    /\ w \in Reindexers
    /\ ~At(w, "idle")
    /\ Fault
    /\ writer' = [writer EXCEPT ![w] = Idle]
    /\ UNCHANGED <<active, superseded, index, chain, extractions, mixed, unindexed, unattested, retired>>

FactNext ==
    \/ \E w \in Writers :
          \/ \E p \in Pages : Extract(w, p) \/ Reindex(w, p)
          \/ ExtractNothing(w) \/ SelectActive(w) \/ Supersede(w) \/ SupersedeFails(w)
          \/ Insert(w) \/ Reinsert(w) \/ InsertFails(w) \/ Inserted(w)
          \/ Record(w) \/ RecordFails(w)
          \/ ReindexerDies(w)
    \/ Restart

FactSpec == FactInit /\ [][FactNext]_factVars
-----------------------------------------------------------------------------
\* The active facts of a page come from one extraction, whichever process ran
\* it and wherever an earlier one died, unless two processes wrote them at the
\* same time, and then only until the next extraction (store.ts:17, "The
\* daemon's pipeline is single-writer [...] so no in-process locking is
\* required", and facts.ts:134, the second process).
OneExtraction ==
    \A f, g \in active : f[1] = g[1] /\ f[1] \notin mixed => f[2] = g[2]

\* Whenever a search can come, the index holds every active fact but those that
\* came from elsewhere or failed half-way, and nothing older than the daemon:
\* what it holds too much has been superseded since (queue.ts:689; the index
\* is never told).
IndexFollows ==
    LoopIsFree => active \ index \subseteq unindexed /\ index \ active \subseteq retired

\* Which facts came and went can be read off the chain, with the exceptions of
\* unattested: a failed record or half-inserted fact, a reindexing, a death
\* (queue.ts:707, "so an external auditor can correlate which facts entered
\* the index at which point in the chain").
FactsAreOnRecord ==
    LET pending == UNION {writer[w].news \cup writer[w].gone :
                             w \in {v \in Writers : ~At(v, "idle")}}
    IN  /\ active \subseteq attested \cup unattested \cup pending
        /\ superseded \subseteq retracted \cup unattested \cup pending
=============================================================================
