-------------------------------- MODULE Spending --------------------------------
(***************************************************************************)
(* Who spends how much on model calls in one UTC day: queries (expansion,  *)
(* then the answer), ingestion passes, compounding and healing, which look *)
(* at the budget first, and fact extraction, which does not                *)
(* (src/server/query-engine.ts, query-expansion.ts, ingestion/queue.ts,    *)
(* compounding/engine.ts, wiki/heal-handlers.ts, facts/extractor.ts).      *)
(* Each CostTracker (src/ingestion/cost-tracker.ts) keeps the day's total  *)
(* in memory and appends to a cost log that all of them share: the daemon  *)
(* has one, every lint pass and `wotw facts reindex` makes its own.        *)
(*                                                                         *)
(* The budget is that of API mode; dollars are small whole units.  An      *)
(* entry is lost when its append fails, when only a fragment of it gets    *)
(* into the file, or when it lands behind such a fragment.  Only the       *)
(* entries of today matter, so file holds their sum and a new day empties  *)
(* it.  Estimates are within the caps per operation, which are static.     *)
(* Answers, provenance and the query log are left out.                     *)
(***************************************************************************)
EXTENDS Integers, FiniteSets, Functions

CONSTANTS
    DaemonOps,          \* what the daemon does at the same time
    Passes,             \* lint passes and reindexing commands, one tracker each
    Shared,             \* the tracker of the daemon
    DailyCap,           \* max_daily_usd
    Estimate,           \* what an operation is taken to cost beforehand
    ExpansionEstimate,  \* ... and the expansion of a query
    MaxCost,            \* bound: the cost of a call
    MaxCalls,           \* bound: answered calls in one day
    MaxDays,            \* bound: midnights
    MaxFaults           \* bound: lost entries, failed passes, deaths

ASSUME SpendingAssumption ==
    /\ IsFiniteSet(DaemonOps)
    /\ IsFiniteSet(Passes)
    /\ DaemonOps \cap Passes = {}
    /\ Shared \notin Passes
    /\ DailyCap \in Nat
    /\ Estimate \in Nat
    /\ ExpansionEstimate \in Nat
    /\ MaxCost \in Nat
    /\ MaxCalls \in Nat
    /\ MaxDays \in Nat
    /\ MaxFaults \in Nat

Operations == DaemonOps \cup Passes
Trackers == Passes \cup {Shared}
Tracker(o) == IF o \in Passes THEN o ELSE Shared

VARIABLES
    kind,           \* what each operation is, or "none"
    doing,          \* and how far it is
    carried,        \* what it has been told to pay and has not entered, or
                    \* will enter again
    day,            \* the UTC day
    file,           \* the sum of the entries of today that the log holds
    torn,           \* the log ends in the fragment of an entry
    cachedDay,      \* of each tracker; -1: null
    cachedTotal,
    charged,        \* entered today through each tracker (history)
    guarded,        \* ... through the daemon's, extraction excepted (history)
    lost,           \* of charged, what the log does not hold (history)
    answered,       \* the bill of today's calls, and of what is still being
                    \* settled (history)
    unlogged,       \* of that, what will never be entered (history)
    twice,          \* what was entered for the second time (history)
    calls,          \* calls answered today
    faults          \* faults so far

vars == <<kind, doing, carried, day, file, torn, cachedDay, cachedTotal, charged, guarded,
          lost, answered, unlogged, twice, calls, faults>>
ledger == <<file, torn, charged, guarded, lost>>
caches == <<cachedDay, cachedTotal>>
bill == <<answered, unlogged, twice, calls>>
-----------------------------------------------------------------------------
Costs == 0 .. MaxCost
Kinds == {"query", "ingest", "compound", "heal", "extract"}

TypeOK ==
    /\ kind \in [Operations -> Kinds \cup {"none"}]
    /\ doing \in [Operations -> {"idle", "loop", "expanding", "asking", "settling"}]
    /\ carried \in [Operations -> Costs]
    /\ day \in 0 .. MaxDays
    /\ file \in Nat
    /\ torn \in BOOLEAN
    /\ cachedDay \in [Trackers -> -1 .. MaxDays]
    /\ cachedTotal \in [Trackers -> Nat]
    /\ charged \in [Trackers -> Nat]
    /\ guarded \in Nat
    /\ lost \in [Trackers -> Nat]
    /\ answered \in Nat
    /\ unlogged \in Nat
    /\ twice \in Nat
    /\ calls \in 0 .. MaxCalls
    /\ faults \in 0 .. MaxFaults

Init ==
    /\ kind = [o \in Operations |-> "none"]
    /\ doing = [o \in Operations |-> "idle"]
    /\ carried = [o \in Operations |-> 0]
    /\ day = 0
    /\ file = 0
    /\ torn \in BOOLEAN
    /\ cachedDay = [t \in Trackers |-> -1]
    /\ cachedTotal = [t \in Trackers |-> 0]
    /\ charged = [t \in Trackers |-> 0]
    /\ guarded = 0
    /\ lost = [t \in Trackers |-> 0]
    /\ answered = 0
    /\ unlogged = 0
    /\ twice = 0
    /\ calls = 0
    /\ faults = 0
-----------------------------------------------------------------------------
(* The tracker. *)

\* spentToday(): the cache, or the file when the cache is of another day ...
SpentToday(t) == IF cachedDay[t] = day THEN cachedTotal[t] ELSE file

\* ... which fills the cache.  A log that cannot be read throws instead, and what
\* was to be checked does not take place.
Hydrate(t) ==
    /\ cachedDay' = [cachedDay EXCEPT ![t] = day]
    /\ cachedTotal' = [cachedTotal EXCEPT ![t] = SpentToday(t)]

WouldExceedDaily(t, next) == SpentToday(t) + next > DailyCap

\* Mutant of Noted: the first entry of a day takes the place of the cache.
Noted_First(t, amount) ==
    /\ cachedDay' = [cachedDay EXCEPT ![t] = day]
    /\ cachedTotal' = [cachedTotal EXCEPT ![t] = IF cachedDay[t] = day THEN @ + amount ELSE amount]

\* record(): a cache of today counts the entry, any other is given up.
Noted(t, amount) ==
    /\ cachedDay' = [cachedDay EXCEPT ![t] = IF @ = day THEN @ ELSE -1]
    /\ cachedTotal' = [cachedTotal EXCEPT ![t] = IF cachedDay[t] = day THEN @ + amount ELSE @]

\* The append: complete, in which case it may be glued to a fragment, or not.
Appended(t, amount) ==
    \/ /\ file' = IF torn THEN file ELSE file + amount
       /\ lost' = IF torn THEN [lost EXCEPT ![t] = @ + amount] ELSE lost
       /\ torn' = FALSE
       /\ UNCHANGED faults
    \/ /\ faults < MaxFaults
       /\ faults' = faults + 1
       /\ lost' = [lost EXCEPT ![t] = @ + amount]
       /\ torn' \in {torn, TRUE}
       /\ UNCHANGED file

\* logUsage() of operation o.
LogUsage(o, amount) ==
    LET t == Tracker(o)
    IN  /\ Noted(t, amount)
        /\ Appended(t, amount)
        /\ charged' = [charged EXCEPT ![t] = @ + amount]
        /\ guarded' = IF o \in DaemonOps /\ kind[o] # "extract" THEN guarded + amount ELSE guarded
-----------------------------------------------------------------------------
(* Operations. *)

Stage(o, k, stage) ==
    /\ doing' = [doing EXCEPT ![o] = stage]
    /\ kind' = [kind EXCEPT ![o] = IF stage = "idle" THEN "none" ELSE k]
    /\ UNCHANGED day

Becomes(o, k, stage) == Stage(o, k, stage) /\ UNCHANGED <<carried, ledger, bill, faults>>

Goes(o, stage, sum) == Stage(o, kind[o], stage) /\ carried' = [carried EXCEPT ![o] = sum]

\* The bill of a call.
Billed(c) == calls < MaxCalls /\ calls' = calls + 1 /\ answered' = answered + c

\* The preflight check lets an operation of the daemon through, or it is over.
Begin(o, k, stage) ==
    /\ o \in DaemonOps
    /\ doing[o] = "idle"
    /\ Hydrate(Shared)
    /\ IF WouldExceedDaily(Shared, Estimate)
       THEN UNCHANGED <<kind, doing, carried, day, ledger, bill, faults>>
       ELSE Becomes(o, k, stage)

BeginIngest(o) == Begin(o, "ingest", "asking")
BeginCompound(o) == Begin(o, "compound", "loop")

\* The expansion has a check of its own, in the same go; without it, or after
\* it, the search finds something to ask about, or the query is over.
BeginQuery(o) ==
    \E stage \in {"expanding", "asking", "idle"} :
        /\ stage = "expanding" => ~WouldExceedDaily(Shared, ExpansionEstimate)
        /\ Begin(o, "query", stage)

\* A lint pass that heals, or a reindexing, starts with a tracker of its own.
BeginPass(o) ==
    /\ o \in Passes
    /\ doing[o] = "idle"
    /\ \E k \in {"heal", "extract"} : Becomes(o, k, "loop")
    /\ cachedDay' = [cachedDay EXCEPT ![o] = -1]
    /\ cachedTotal' = [cachedTotal EXCEPT ![o] = 0]

\* The daemon extracts the facts of the pages it has written.
BeginExtract(o) ==
    /\ o \in DaemonOps
    /\ doing[o] = "idle"
    /\ Becomes(o, "extract", "loop")
    /\ UNCHANGED caches

\* The budget of the next finding or cluster: its call, or it is skipped.
NextItem(o) ==
    /\ Hydrate(Tracker(o))
    /\ Becomes(o, kind[o], IF WouldExceedDaily(Tracker(o), Estimate) THEN "loop" ELSE "asking")

InLoop(o, k) == doing[o] = "loop" /\ kind[o] = k

\* Mutant of NextCluster: the budget is looked at once per pass.
NextCluster_Unchecked(o) ==
    InLoop(o, "compound") /\ Becomes(o, "compound", "asking") /\ UNCHANGED caches

NextCluster(o) == InLoop(o, "compound") /\ NextItem(o)
NextFinding(o) == InLoop(o, "heal") /\ NextItem(o)

\* The facts of the next page are extracted whatever that costs.
NextPage(o) == InLoop(o, "extract") /\ Becomes(o, "extract", "asking") /\ UNCHANGED caches

NoMoreItems(o) ==
    /\ doing[o] = "loop"
    /\ Becomes(o, kind[o], "idle")
    /\ UNCHANGED caches

\* The expansion is answered and entered; if it is usable, its cost is carried
\* along.  Then the search.
ExpansionAnswered(o, c) ==
    /\ doing[o] = "expanding"
    /\ Billed(c)
    /\ LogUsage(o, c)
    /\ \E stage \in {"asking", "idle"}, sum \in {0, c} :
          Goes(o, stage, IF stage = "idle" THEN 0 ELSE sum)
    /\ UNCHANGED <<unlogged, twice>>

ExpansionFails(o) ==
    /\ doing[o] = "expanding"
    /\ \E stage \in {"asking", "idle"} : Goes(o, stage, 0)
    /\ UNCHANGED <<ledger, caches, bill, faults>>

\* An answer is entered at once; the operation is over, or in its loop.
Answered(o, k, c, stage) ==
    /\ doing[o] = "asking"
    /\ kind[o] = k
    /\ Billed(c)
    /\ LogUsage(o, c + carried[o])
    /\ twice' = twice + carried[o]
    /\ Goes(o, stage, 0)
    /\ UNCHANGED unlogged

\* That of a query, be it empty, is entered with its expansion, again.
QueryAnswered(o, c) == Answered(o, "query", c, "idle")
FindingAnswered(o, c) == Answered(o, "heal", c, "loop")
FactsAnswered(o, c) == Answered(o, "extract", c, "loop")

\* No answer: nothing is entered.
CallFails(o) ==
    /\ doing[o] = "asking"
    /\ Goes(o, IF kind[o] \in {"query", "ingest"} THEN "idle" ELSE "loop", 0)
    /\ UNCHANGED <<ledger, caches, bill, faults>>

\* An answer that is first put to use.
PutToUse(o, k, c) ==
    /\ doing[o] = "asking"
    /\ kind[o] = k
    /\ Billed(c)
    /\ Goes(o, "settling", c)
    /\ UNCHANGED <<ledger, caches, unlogged, twice, faults>>

\* Ingestion writes, relinks and indexes its pages; compounding writes its page,
\* or goes on without it.
IngestAnswered(o, c) == PutToUse(o, "ingest", c)
ClusterAnswered(o, c) == PutToUse(o, "compound", c)

Settled(o) ==
    /\ doing[o] = "settling"
    /\ LogUsage(o, carried[o])
    /\ Goes(o, IF kind[o] = "compound" THEN "loop" ELSE "idle", 0)
    /\ UNCHANGED bill

\* Mutant of SettledEmpty: a reply without pages is skipped like any other.
SettledEmpty_Free(o) ==
    /\ doing[o] = "settling"
    /\ kind[o] = "ingest"
    /\ Goes(o, "idle", 0)
    /\ UNCHANGED <<ledger, caches, bill, faults>>

\* An answer of ingestion without pages is entered unless it was free.
SettledEmpty(o) ==
    /\ doing[o] = "settling"
    /\ kind[o] = "ingest"
    /\ IF carried[o] > 0
       THEN LogUsage(o, carried[o])
       ELSE UNCHANGED <<ledger, caches, faults>>
    /\ Goes(o, "idle", 0)
    /\ UNCHANGED bill

\* One of the steps of ingestion throws: the pass is over.
SettlingThrows(o) ==
    /\ doing[o] = "settling"
    /\ kind[o] = "ingest"
    /\ faults < MaxFaults
    /\ faults' = faults + 1
    /\ unlogged' = unlogged + carried[o]
    /\ Goes(o, "idle", 0)
    /\ UNCHANGED <<ledger, caches, answered, twice, calls>>
-----------------------------------------------------------------------------
(* The world. *)

Settling == {o \in Operations : doing[o] = "settling"}
InSettlement(S) == SumFunctionOnSet(carried, S \cap Settling)

\* A process dies, and another one takes its place.
Dies(S, t) ==
    /\ faults < MaxFaults
    /\ faults' = faults + 1
    /\ unlogged' = unlogged + InSettlement(S)
    /\ doing' = [o \in Operations |-> IF o \in S THEN "idle" ELSE doing[o]]
    /\ kind' = [o \in Operations |-> IF o \in S THEN "none" ELSE kind[o]]
    /\ carried' = [o \in Operations |-> IF o \in S THEN 0 ELSE carried[o]]
    /\ cachedDay' = [cachedDay EXCEPT ![t] = -1]
    /\ cachedTotal' = [cachedTotal EXCEPT ![t] = 0]
    /\ UNCHANGED <<day, ledger, answered, twice, calls>>

DaemonDies == Dies(DaemonOps, Shared)
PassDies(p) == Dies({p}, p)

\* Midnight, UTC.
NewDay ==
    /\ day < MaxDays
    /\ day' = day + 1
    /\ file' = 0
    /\ charged' = [t \in Trackers |-> 0]
    /\ guarded' = 0
    /\ lost' = [t \in Trackers |-> 0]
    /\ answered' = InSettlement(Operations)
    /\ unlogged' = 0
    /\ twice' = 0
    /\ calls' = 0
    /\ UNCHANGED <<kind, doing, carried, torn, caches, faults>>

Next ==
    \/ \E o \in Operations :
          \/ BeginIngest(o) \/ BeginCompound(o) \/ BeginQuery(o)
          \/ BeginPass(o) \/ BeginExtract(o)
          \/ NextCluster(o) \/ NextFinding(o) \/ NextPage(o) \/ NoMoreItems(o)
          \/ ExpansionFails(o) \/ CallFails(o)
          \/ Settled(o) \/ SettledEmpty(o) \/ SettlingThrows(o)
          \/ \E c \in Costs :
                \/ ExpansionAnswered(o, c) \/ QueryAnswered(o, c) \/ IngestAnswered(o, c)
                \/ ClusterAnswered(o, c) \/ FindingAnswered(o, c) \/ FactsAnswered(o, c)
    \/ DaemonDies
    \/ \E p \in Passes : PassDies(p)
    \/ NewDay

Spec == Init /\ [][Next]_vars
-----------------------------------------------------------------------------
Total(f) == SumFunction(f)

\* Whatever a call of today cost is entered, is about to be, or belongs to a
\* pass that threw or died before it came to that; and the log holds all that
\* was entered and not lost (queue.ts:476 and query-engine.ts:212, the paths of
\* empty replies, which once went past the tracker; the expansion of a query
\* is entered twice, query-engine.ts:208).
LedgerIsComplete ==
    /\ answered + twice = Total(charged) + unlogged + InSettlement(Operations)
    /\ file = Total(charged) - Total(lost)

\* A tracker with a cache of today counts at least what went through it and is
\* not lost, over restarts, new passes and midnights, and never more than there
\* is (cost-tracker.ts:96, the cache is kept up without reading the log again).
CacheAgrees ==
    \A t \in Trackers : cachedDay[t] = day =>
        charged[t] - lost[t] <= cachedTotal[t] /\ cachedTotal[t] <= file + lost[t]

\* The daemon lets an operation through only while what it has entered today,
\* extraction and lost entries apart, and the estimate fit under the cap, even
\* though it reads the log once a day and other processes append to it
\* (docs/configuration.md:62, the "hard daily budget").
Called(o) == doing[o] \in {"expanding", "asking"}
AdmittedWithinCap ==
    [][\A o \in DaemonOps :
          doing[o] \in {"idle", "loop"} /\ Called(o)' /\ kind'[o] # "extract" =>
              guarded - lost[Shared] + Estimate <= DailyCap]_vars
=============================================================================
