------------------------------- MODULE LintPasses -------------------------------
(***************************************************************************)
(* Lint passes with repair (cli/commands/lint.ts, wiki/health.ts): one at  *)
(* the start of the daemon, one per interval (daemon/lint-scheduler.ts),   *)
(* and those of `wotw lint --fix`.  A pass takes stock of the wiki once,   *)
(* and then has its findings repaired one after the other until the        *)
(* quota of a run is used up (wiki/heal-handlers.ts).  A finding whose     *)
(* repair failed is left alone for some hours, which the process keeps in  *)
(* memory only.                                                            *)
(*                                                                         *)
(* A page is its status, its age since the last record that names it, up   *)
(* to the oldest the thresholds tell apart, whether it has a dead link,    *)
(* and the pages it lists as related.  Taking stock is one step, and so    *)
(* is what follows an answer of the model: that writers interleave in      *)
(* between is WikiWriters' concern.  How alike two pages are is a matter   *)
(* of titles and tags, which repairs keep.  Left out: the weighted score   *)
(* and what else is only displayed, contradictions (nothing detects them)  *)
(* and pages that vanish.                                                  *)
(***************************************************************************)
EXTENDS Integers, Sequences, FiniteSets, SequencesExt

CONSTANTS
    NPages,         \* the pages are 1 .. NPages, in the order of listAll()
    Score,          \* Score[p][q]: what search gives q for the title of p
    Thresholds, Scores,     \* of staleness: ages, and the scores up to each
    FixBelow,       \* health.auto_fix_staleness_below
    DuplicateFrom,  \* health.duplicate_threshold
    ClusterAbove,   \* health.consolidation_threshold
    MaxFixes,       \* health.max_fixes_per_run
    Ticks,          \* passes of the interval that may be under way at a time
    MaxTroubles     \* bound: writes, days, throws, restarts, commands

ASSUME LintAssumption ==
    /\ NPages \in Nat \ {0} /\ MaxFixes \in Nat /\ MaxTroubles \in Nat
    /\ Len(Scores) = Len(Thresholds) + 1
    /\ Ticks \cap {"startup", "command"} = {}

VARIABLES
    wiki,       \* the pages
    pass,       \* per pass: how far it has come
    failed,     \* healAttempts: per finding in backoff, the attempts that
                \* failed since it last was not (a history)
    starting,   \* the pass of the start is still to begin
    overlapped, \* history: the interval came up in the pass of the start
    troubles    \* so far

vars == <<wiki, pass, failed, starting, overlapped, troubles>>
-----------------------------------------------------------------------------
Pages == 1 .. NPages
Oldest == Thresholds[Len(Thresholds)] + 1
Statuses == {"live", "orphaned", "merged", "consolidated"}
PageStates == [status : Statuses, age : 0 .. Oldest, dead : BOOLEAN, related : SUBSET Pages]

Kinds == {"stale", "broken-link", "duplicate", "missing-backlink", "consolidation"}
OfPages == {"stale", "broken-link"}       \* findings about one page
Finding(kind, pages) == [kind |-> kind, pages |-> pages]
Findings == [kind : Kinds, pages : SUBSET Pages]

Passes == Ticks \cup {"startup", "command"}
Idle == [on |-> FALSE, todo |-> <<>>, fixed |-> 0, asked |-> FALSE, seen |-> <<>>]

TypeOK ==
    /\ wiki \in [Pages -> PageStates]
    /\ \A x \in Passes :
          /\ pass[x].on \in BOOLEAN /\ pass[x].asked \in BOOLEAN
          /\ pass[x].todo \in Seq(Findings)
          /\ pass[x].fixed \in 0 .. MaxFixes
          /\ pass[x].asked =>
                pass[x].todo # <<>> /\ pass[x].seen \in [Head(pass[x].todo).pages -> PageStates]
    /\ DOMAIN failed \subseteq Findings
    /\ starting \in BOOLEAN /\ overlapped \in BOOLEAN
    /\ troubles \in 0 .. MaxTroubles

Init ==
    /\ wiki = [p \in Pages |-> [status |-> "live", age |-> 0, dead |-> FALSE, related |-> {}]]
    /\ pass = [x \in Passes |-> Idle]
    /\ failed = <<>>
    /\ starting = TRUE /\ overlapped = FALSE /\ troubles = 0
-----------------------------------------------------------------------------
\* Math.round(a / b).
Round(a, b) == (2 * a + b) \div (2 * b)
Lowest(s) == CHOOSE x \in s : \A y \in s : x <= y

\* computeStaleness(): the score of the first threshold not passed, or the last.
Staleness(age) ==
    Scores[Lowest({i \in DOMAIN Thresholds : age <= Thresholds[i]} \cup {Len(Scores)})]

\* Search scores on a scale up to 100; 25 is as good as the same page.
Likeness(p, q) == IF Score[p][q] >= 25 THEN 100 ELSE Round(100 * Score[p][q], 25)

\* The best hit that is not the page itself.  The index holds all pages, those
\* that are merged into others, too.
Closest(p) == CHOOSE q \in Pages \ {p} : \A r \in Pages \ {p} : Score[p][r] <= Score[p][q]

\* computeDuplicateRisk(): the likeness of the best hit, bent.
DuplicateRisk(p) ==
    LET n == Likeness(p, Closest(p))
    IN  CASE n < 30 -> 0
          [] n \in 30 .. 60 -> Round((n - 30) * 50, 30)
          [] n \in 61 .. 80 -> 50 + Round((n - 60) * 30, 20)
          [] OTHER -> n

\* groupDuplicates(): the pages that the pairs connect, in the order in which
\* the pairs come to them.  A pair that comes twice changes nothing.
Joined(groups, pair) ==
    LET touched == {g \in groups : g \cap pair # {}}
    IN  (groups \ touched) \cup {pair \cup UNION touched}

Grouped(pairs) ==
    LET first(g) == Lowest({i \in DOMAIN pairs : pairs[i][1] \in g})
    IN  SetToSortSeq(FoldLeft(LAMBDA gs, r : Joined(gs, {r[1], r[2]}), {}, pairs),
                     LAMBDA g, h : first(g) < first(h))

AllPairs ==
    [i \in 1 .. NPages * NPages |-> <<1 + ((i - 1) \div NPages), 1 + ((i - 1) % NPages)>>]

\* Merged and consolidated pages are passed over.
Scored(p) == wiki[p].status \in {"live", "orphaned"}

Duplicates ==
    Grouped(SelectSeq(AllPairs, LAMBDA r : /\ Scored(r[1]) /\ r[1] # r[2]
                                           /\ DuplicateRisk(r[1]) >= DuplicateFrom
                                           /\ r[2] = Closest(r[1])))

\* detectConsolidationCandidates(): pages that are merged count.
Similar(p, q) == p # q /\ Likeness(p, q) >= 40
Clusters ==
    SelectSeq(Grouped(SelectSeq(AllPairs, LAMBDA r : Similar(r[1], r[2]))),
              LAMBDA g : Cardinality(g) > ClusterAbove)

\* detectMissingBacklinks(), among the pages that are scored.
MissingBacklink(p, q) ==
    /\ Scored(p) /\ Scored(q)
    /\ q \in wiki[p].related /\ p \notin wiki[q].related

PageFindings(p) ==
    (IF Staleness(wiki[p].age) < FixBelow /\ wiki[p].status # "orphaned"
     THEN <<Finding("stale", {p})>> ELSE <<>>)
    \o (IF wiki[p].dead THEN <<Finding("broken-link", {p})>> ELSE <<>>)

\* computeHealthReport(): what can be repaired, in this order.
Report ==
    LET each(kind, groups) == [i \in DOMAIN groups |-> Finding(kind, groups[i])]
    IN  FlattenSeq([p \in Pages |-> IF Scored(p) THEN PageFindings(p) ELSE <<>>])
        \o each("duplicate", Duplicates)
        \o each("missing-backlink",
                LET missing == SelectSeq(AllPairs, LAMBDA r : MissingBacklink(r[1], r[2]))
                IN  [i \in DOMAIN missing |-> {missing[i][1], missing[i][2]}])
        \o each("consolidation", Clusters)
-----------------------------------------------------------------------------
Trouble == troubles < MaxTroubles /\ troubles' = troubles + 1

Begun(x) == [pass EXCEPT ![x] = [Idle EXCEPT !.on = TRUE, !.todo = Report]]

\* The pass of the start; nothing marks that it is under way.
Startup ==
    /\ starting
    /\ starting' = FALSE
    /\ pass' = Begun("startup")
    /\ UNCHANGED <<wiki, failed, overlapped, troubles>>

\* Mutant of MayTick: a tick does not ask whether another is under way.
MayTick_Always == ~starting

\* inFlight covers the passes of the interval, not that of the start.
MayTick == ~starting /\ \A t \in Ticks : ~pass[t].on

Tick ==
    /\ MayTick
    /\ \E t \in Ticks : ~pass[t].on
    /\ pass' = Begun(CHOOSE t \in Ticks : ~pass[t].on)
    /\ overlapped' = (overlapped \/ pass["startup"].on)
    /\ UNCHANGED <<wiki, failed, starting, troubles>>

\* `wotw lint --fix`, a process of its own.
Command ==
    /\ ~pass["command"].on
    /\ Trouble
    /\ pass' = Begun("command")
    /\ UNCHANGED <<wiki, failed, starting, overlapped>>

\* Mutant of Counted: the quota is one of attempts.
Counted_All(j, fixed) == j.fixed + 1

\* Only what was fixed counts towards the quota.
Counted(j, fixed) == IF fixed THEN j.fixed + 1 ELSE j.fixed

\* The pass is at its next finding, and its quota is not used up.
AtFinding(x) ==
    pass[x].on /\ ~pass[x].asked /\ pass[x].todo # <<>> /\ pass[x].fixed < MaxFixes

\* shouldSkipHeal(); the map of a command is its own, and no finding comes twice
\* in a report.
Throttled(x) == x # "command" /\ Head(pass[x].todo) \in DOMAIN failed

\* The pass goes on to the next finding.
Passed(x, fixed) ==
    [pass EXCEPT ![x] = [pass[x] EXCEPT !.todo = Tail(@), !.fixed = Counted(pass[x], fixed),
                                        !.asked = FALSE, !.seen = <<>>]]

\* recordHealAttempt(): a success lifts the backoff, a failure starts it anew.
Attempted(x, fixed) ==
    LET f == Head(pass[x].todo)
    IN  IF x = "command" THEN failed
        ELSE IF fixed THEN [g \in DOMAIN failed \ {f} |-> failed[g]]
        ELSE [g \in DOMAIN failed \cup {f} |->
                (IF g \in DOMAIN failed THEN failed[g] ELSE 0) + (IF g = f THEN 1 ELSE 0)]

Skip(x) ==
    /\ AtFinding(x) /\ Throttled(x)
    /\ pass' = Passed(x, FALSE)
    /\ UNCHANGED <<wiki, failed, starting, overlapped, troubles>>

\* The prompt takes the pages of the finding as they are now.
Ask(x) ==
    /\ AtFinding(x) /\ ~Throttled(x)
    /\ Head(pass[x].todo).kind # "missing-backlink"
    /\ pass' = [pass EXCEPT ![x].asked = TRUE,
                            ![x].seen = [p \in Head(pass[x].todo).pages |-> wiki[p]]]
    /\ UNCHANGED <<wiki, failed, starting, overlapped, troubles>>

\* No money, no answer, or one without an edit that can be written.
Fail(x) ==
    /\ pass[x].asked
    /\ pass' = Passed(x, FALSE)
    /\ failed' = Attempted(x, FALSE)
    /\ UNCHANGED <<wiki, starting, overlapped, troubles>>

\* repairBidirectionalLinks() over all pages; those it changes go on record.
Repaired(w) ==
    [p \in Pages |->
        LET listing == {q \in Pages : p \in w[q].related}
        IN  IF listing \subseteq w[p].related THEN w[p]
            ELSE [w[p] EXCEPT !.related = @ \cup listing, !.age = 0]]

\* What the prompts ask for, given the pages that they show.
Refreshed(p, seen) == [wiki EXCEPT ![p] = [seen[p] EXCEPT !.age = 0]]

LinksMended(p, seen) == [wiki EXCEPT ![p] = [seen[p] EXCEPT !.age = 0, !.dead = FALSE]]

\* All of a group goes into its first page; then all links are repaired.
Gathered(ps, status, seen) ==
    LET first == Lowest(ps)
    IN  Repaired([p \in Pages |->
          CASE p = first ->
                 [status |-> "live", age |-> 0, dead |-> \E q \in ps : seen[q].dead,
                  related |-> UNION {seen[q].related : q \in ps} \ {p}]
            [] p \in ps \ {first} ->
                 [seen[p] EXCEPT !.age = 0, !.dead = FALSE, !.status = status]
            [] OTHER -> wiki[p]])

Merged(ps, seen) == Gathered(ps, "merged", seen)
Consolidated(ps, seen) == Gathered(ps, "consolidated", seen)

Edited(f, seen) ==
    CASE f.kind = "stale" -> Refreshed(Lowest(f.pages), seen)
      [] f.kind = "broken-link" -> LinksMended(Lowest(f.pages), seen)
      [] f.kind = "duplicate" -> Merged(f.pages, seen)
      [] f.kind = "consolidation" -> Consolidated(f.pages, seen)

Heal(x) ==
    /\ pass[x].asked
    /\ wiki' = Edited(Head(pass[x].todo), pass[x].seen)
    /\ pass' = Passed(x, TRUE)
    /\ failed' = Attempted(x, TRUE)
    /\ UNCHANGED <<starting, overlapped, troubles>>

\* The edits do something else, or their record is not appended: any edit that
\* is written counts as a repair, however often it is one in vain.  After those
\* of a group all links are repaired all the same.
HealPoorly(x) ==
    /\ pass[x].asked
    /\ LET f == Head(pass[x].todo)
           first == Lowest(f.pages)
       IN  \E link \in SUBSET (Pages \ {first}) :
             /\ Cardinality(link) <= 1
             /\ LET w == [wiki EXCEPT ![first] = [pass[x].seen[first] EXCEPT !.related = @ \cup link]]
                IN  wiki' = IF f.kind \in OfPages THEN w ELSE Repaired(w)
    /\ pass' = Passed(x, TRUE)
    /\ failed' = Attempted(x, TRUE)
    /\ UNCHANGED <<starting, overlapped, troubles>>

\* healMissingBacklinks() repairs the links of all pages; for the next such
\* finding of the report there is nothing left, which makes it a failure.
HealLinks(x) ==
    /\ AtFinding(x) /\ ~Throttled(x)
    /\ Head(pass[x].todo).kind = "missing-backlink"
    /\ wiki' = Repaired(wiki)
    /\ pass' = Passed(x, wiki' # wiki)
    /\ failed' = Attempted(x, wiki' # wiki)
    /\ UNCHANGED <<starting, overlapped, troubles>>

Finish(x) ==
    /\ pass[x].on /\ ~pass[x].asked
    /\ pass[x].todo = <<>> \/ pass[x].fixed >= MaxFixes
    /\ pass' = [pass EXCEPT ![x] = Idle]
    /\ UNCHANGED <<wiki, failed, starting, overlapped, troubles>>

\* A file cannot be read or written: that ends the pass, and the attempt is not
\* noted.
Throw(x) ==
    /\ pass[x].on
    /\ Trouble
    /\ pass' = [pass EXCEPT ![x] = Idle]
    /\ UNCHANGED <<wiki, failed, starting, overlapped>>

\* HEAL_BACKOFF_MS is over for a finding.
Expire(f) ==
    /\ f \in DOMAIN failed
    /\ failed' = [g \in DOMAIN failed \ {f} |-> failed[g]]
    /\ UNCHANGED <<wiki, pass, starting, overlapped, troubles>>

\* Another writer rewrites a page, with a dead link or one that goes one way.
Write ==
    /\ Trouble
    /\ \E p, q \in Pages :
          wiki' = [wiki EXCEPT ![p] = [status |-> "live", age |-> 0, dead |-> p = q,
                                       related |-> {q} \ {p}]]
    /\ UNCHANGED <<pass, failed, starting, overlapped>>

\* The last source of a page is deleted.
Orphan ==
    /\ Trouble
    /\ \E p \in Pages : wiki' = [wiki EXCEPT ![p].status = "orphaned"]
    /\ UNCHANGED <<pass, failed, starting, overlapped>>

\* A page gets older.
Age ==
    /\ Trouble
    /\ \E p \in Pages : wiki[p].age < Oldest /\ wiki' = [wiki EXCEPT ![p].age = @ + 1]
    /\ UNCHANGED <<pass, failed, starting, overlapped>>

\* The daemon ends, and with it its passes and what failed in them.
Restart ==
    /\ Trouble
    /\ pass' = [x \in Passes |-> IF x = "command" THEN pass[x] ELSE Idle]
    /\ failed' = <<>>
    /\ starting' = TRUE /\ overlapped' = FALSE
    /\ UNCHANGED wiki

Answer(x) == Fail(x) \/ Heal(x) \/ HealPoorly(x)
Proceed(x) == Skip(x) \/ Ask(x) \/ Answer(x) \/ HealLinks(x) \/ Finish(x)

Next ==
    \/ Startup \/ Tick \/ Command
    \/ \E x \in Passes : Proceed(x) \/ Throw(x)
    \/ \E f \in Findings : Expire(f)
    \/ Write \/ Orphan \/ Age \/ Restart

Spec == Init /\ [][Next]_vars

\* The timers fire, every call of the model ends (cli-invoker.ts kills it after a
\* while), and hours go by, for each finding in backoff.
FairSpec ==
    /\ Spec
    /\ WF_vars(Startup)
    /\ WF_vars(Tick)
    /\ \A x \in Passes : WF_vars(Proceed(x))
    /\ \A f \in Findings : WF_vars(Expire(f))
-----------------------------------------------------------------------------
\* "Each finding.id is throttled to one attempt per HEAL_BACKOFF_MS unless the
\* prior attempt SUCCEEDED" (heal-handlers.ts:442-452): it fails once in the
\* daemon, and twice if the interval came up while the pass of the start, which
\* inFlight does not cover, was still under way (lint-scheduler.ts:55-63).
FailuresAreSpaced ==
    \A f \in DOMAIN failed : failed[f] <= IF overlapped THEN 2 ELSE 1

\* The finding of a page is still there once its repair counts as done.
InVain(x) ==
    /\ HealPoorly(x)
    /\ Head(pass[x].todo).kind \in OfPages

\* A link that is missing is repaired in the end: no finding that fails for ever,
\* no group that is merged again in every pass, and no throw or restart keeps the
\* passes from it (max_fixes_per_run, lint.ts:219-234).  What does is a stale page
\* or a dead link that is repaired in vain for ever: that counts as fixed, gets no
\* backoff and takes its part of the quota in every pass.
LinksGetRepaired ==
    \/ []<>(\A p, q \in Pages : ~MissingBacklink(p, q))
    \/ []<><<\E x \in Passes : InVain(x)>>_vars
=============================================================================
