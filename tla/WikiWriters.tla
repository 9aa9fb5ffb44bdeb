------------------------------ MODULE WikiWriters ------------------------------
(***************************************************************************)
(* The passes that write the wiki: ingestion and archiving (src/ingestion/ *)
(* queue.ts), compounding (src/compounding/engine.ts), the repairs of lint *)
(* (src/wiki/heal-handlers.ts), and `wotw approve` and `wotw reject`.      *)
(* Some run in the daemon, some as commands of their own, and nothing      *)
(* keeps two of them apart.  Each writes pages one at a time, most then    *)
(* read the whole wiki and repair its links, and all but `reject` rebuild  *)
(* what is derived from the pages, append a record and commit.             *)
(*                                                                         *)
(* A page is the number of the reply its text comes from, the pages its    *)
(* frontmatter lists as related, and whether it is marked orphaned.        *)
(* index.md, the search index, the chain and git are modelled by the set   *)
(* of pages for which they are up to date.                                 *)
(* A pass reads the whole wiki in one step, and reconciling one page is    *)
(* one step; between any two steps other passes may run.  Whether an edit  *)
(* of the agent cannot be written is part of what the reply holds.  A page *)
(* that does not parse is read as one without links (src/wiki/page.ts), so *)
(* that the reconciler fails at writing only.  Left out: facts,            *)
(* money, the chain itself (ProvenanceChain), vocabulary enrichment, and   *)
(* the backoff of healFinding(); also that archiving marks candidates, too *)
(* and that a pass of compounding may write several syntheses.             *)
(***************************************************************************)
EXTENDS Naturals, FiniteSets

CONSTANTS
    Pages,      \* paths below wiki/
    Syntheses,  \* those in wiki/syntheses/
    Name,       \* per page: its file name, without directory
    LinkLists,  \* lists of related pages the agent may write
    Writers,    \* passes that may be under way at a time
    MaxReplies, \* bound: replies of the agent
    MaxFaults,  \* bound: failing writes, unlinks, appends and commits
    MaxDisturbances \* bound: passes that begin beside another, or are aborted

ASSUME WritersAssumption ==
    /\ Syntheses \subseteq Pages
    /\ LinkLists \subseteq SUBSET Pages
    /\ MaxReplies \in Nat
    /\ MaxFaults \in Nat
    /\ MaxDisturbances \in Nat

VARIABLES
    live,       \* per page: what the file holds
    staged,     \* per page: the candidate for it
    listed,     \* pages that index.md shows as they are, or absent
    found,      \* pages that the daemon's search index has as they are
    recorded,   \* pages whose last hash in the chain is that of the file
    committed,  \* pages whose file is in git as it is
    named,      \* pages that records name for a raw source
    job,        \* per writer: its pass
    staging,    \* ingestion.staging
    replies,    \* replies so far
    faults,     \* failures so far
    unreviewed, \* replies to ingestion under staging, less the approved ones
    astray,     \* history: texts, with their page, that the reconciler failed
                \* to take out of wiki/
    disturbances \* history: of those, so far

wiki == <<live, staged>>
derived == <<listed, found>>
trail == <<recorded, committed>>
review == <<staging, replies, unreviewed, astray>>
vars == <<wiki, derived, trail, named, review, job, faults, disturbances>>
-----------------------------------------------------------------------------
Absent == [text |-> 0, related |-> {}, orphaned |-> FALSE]
Nothing == [p \in Pages |-> Absent]
Contents == [text : 0 .. MaxReplies, related : SUBSET Pages, orphaned : BOOLEAN]
Wikis == [Pages -> Contents]

Present(w) == {p \in Pages : w[p] # Absent}

Kinds == {"none", "ingest", "archive", "compound", "heal", "merge", "backlinks",
          "approve", "reject"}
Stages == {"agent", "edit", "reconcile", "mark", "place", "drop", "load", "relink",
           "index", "hash", "record", "commit", "end"}

\* The passes that go through IngestionQueue, one at a time outside hosted mode.
Queued == {"ingest", "archive"}
\* The passes that repair links.
Relinking == {"ingest", "compound", "merge", "backlinks"}
\* The passes that share the search index of the daemon, and rebuild index.md.
Sharing == {"ingest", "archive", "compound"}

Rest == [kind |-> "none", stage |-> "end", todo |-> Nothing, left |-> {},
         mine |-> {}, relinked |-> {}, seen |-> Nothing, alone |-> FALSE,
         base |-> Nothing, skipped |-> {}, noted |-> TRUE, saved |-> TRUE]

Jobs == [kind : Kinds, stage : Stages,
         todo : Wikis,            \* what to write
         left : SUBSET Pages,     \* pages its present loop has yet to come to
         mine : SUBSET Pages,     \* pages it wrote, other than candidates
         relinked : SUBSET Pages, \* those whose links it repaired
         seen : Wikis,            \* the pages as it loaded, or hashed, them
         alone : BOOLEAN,         \* history: no other pass since it began
         base : Wikis,            \* history: the wiki when it began, if alone
         skipped : SUBSET Pages,  \* history: its pages that stayed as the agent left them
         noted : BOOLEAN,         \* history: its record was appended
         saved : BOOLEAN]         \* history: its commit succeeded

TypeOK ==
    /\ live \in Wikis /\ staged \in Wikis
    /\ listed \subseteq Pages /\ found \subseteq Pages
    /\ recorded \subseteq Pages /\ committed \subseteq Pages
    /\ named \subseteq Pages
    /\ job \in [Writers -> Jobs]
    /\ \A v, w \in Writers : v # w /\ job[v].kind \in Queued => job[w].kind \notin Queued
    /\ staging \in BOOLEAN
    /\ replies \in 0 .. MaxReplies /\ faults \in 0 .. MaxFaults
    /\ unreviewed \subseteq 1 .. MaxReplies
    /\ astray \subseteq Pages \X (1 .. MaxReplies)
    /\ disturbances \in 0 .. MaxDisturbances

Init ==
    /\ live = Nothing /\ staged = Nothing
    /\ listed = Pages /\ found = Pages
    /\ recorded = {} /\ committed = {} /\ named = {}
    /\ job = [w \in Writers |-> Rest]
    /\ staging \in BOOLEAN
    /\ replies = 0 /\ faults = 0 /\ unreviewed = {} /\ astray = {} /\ disturbances = 0
-----------------------------------------------------------------------------
Running(w) == job[w].kind # "none"
Others(w) == {v \in Writers \ {w} : Running(v)}

Pass(kind, stage) == [Rest EXCEPT !.kind = kind, !.stage = stage]

\* PQueue({ concurrency: 1 }).
MayBegin(w, kind) ==
    ~Running(w) /\ (kind \in Queued => \A v \in Writers : job[v].kind \notin Queued)

\* Writer w begins a pass; any other is no longer alone.
Begin(w, pass) ==
    /\ MayBegin(w, pass.kind)
    /\ Others(w) # {} => disturbances < MaxDisturbances
    /\ disturbances' = disturbances + (IF Others(w) = {} THEN 0 ELSE 1)
    /\ job' = [v \in Writers |->
                 IF v \in Others(w)
                 THEN [job[v] EXCEPT !.alone = FALSE, !.base = Nothing]
                 ELSE IF v = w
                 THEN [pass EXCEPT !.alone = (Others(w) = {}),
                                   !.base = IF Others(w) = {} THEN live ELSE Nothing]
                 ELSE job[v]]

At(w, kinds, stage) == job[w].kind \in kinds /\ job[w].stage = stage

\* What the pages were rewritten to is not in anything derived from them.
Outdate ==
    LET kept(ps) == {p \in ps : live'[p] = live[p]}
    IN  /\ listed' = kept(listed) /\ found' = kept(found)
        /\ recorded' = kept(recorded) /\ committed' = kept(committed)

\* The pass of w becomes `pass`, which is Rest when it is over.
Becomes(w, pass) == job' = [job EXCEPT ![w] = pass]
-----------------------------------------------------------------------------
\* process() of a batch with adds builds its prompt; a repair reads the pages
\* of its finding; synthesize() looks for a cluster, which syntheses do not
\* count for.
Ask(w) ==
    /\ replies < MaxReplies
    /\ \/ Begin(w, Pass("ingest", "agent"))
       \/ Present(live) # {} /\ Begin(w, Pass("heal", "agent"))
       \/ Cardinality(Present(live)) > 1 /\ Begin(w, Pass("merge", "agent"))
       \/ Present(live) \ Syntheses # {} /\ Begin(w, Pass("compound", "agent"))
    /\ UNCHANGED <<wiki, derived, trail, named, review, faults>>

\* What the agent writes: in ingestion any pages but syntheses, which are left to
\* compounding; in a repair pages that exist, as the prompt demands; a synthesis
\* starts without links.
Edits(kind) ==
    LET any(ps) == UNION {[qs -> [text : {replies + 1}, related : LinkLists,
                                  orphaned : {FALSE}]] : qs \in SUBSET ps \ {{}}}
    IN  CASE kind = "ingest" -> any(Pages \ Syntheses)
          [] kind = "compound" ->
               {[p \in {q} |-> [Absent EXCEPT !.text = replies + 1]] : q \in Syntheses}
          [] OTHER -> any(Present(live))

\* The agent replies.
Reply(w) ==
    /\ Running(w) /\ job[w].stage = "agent"
    /\ replies < MaxReplies
    /\ replies' = replies + 1
    /\ \E e \in Edits(job[w].kind) :
          Becomes(w, [job[w] EXCEPT
                        !.stage = "edit",
                        !.todo = [p \in Pages |-> IF p \in DOMAIN e THEN e[p] ELSE Absent],
                        !.left = DOMAIN e, !.mine = DOMAIN e])
    /\ unreviewed' = IF job[w].kind = "ingest" /\ staging
                     THEN unreviewed \cup {replies'} ELSE unreviewed
    /\ UNCHANGED <<wiki, derived, trail, named, staging, astray, faults, disturbances>>

\* The call fails, or the reply holds no edit, or synthesize() finds no cluster
\* that lacks a synthesis.
NoReply(w) ==
    /\ Running(w) /\ job[w].stage = "agent"
    /\ Becomes(w, Rest)
    /\ UNCHANGED <<wiki, derived, trail, named, review, faults, disturbances>>

\* One edit of the reply is written.  Compounding goes on to the links, the
\* others to the reconciler.
Edit(w) ==
    /\ Running(w) /\ job[w].stage = "edit"
    /\ \E p \in job[w].left :
          LET j == [job[w] EXCEPT !.left = @ \ {p}]
          IN  /\ live' = [live EXCEPT ![p] = j.todo[p]]
              /\ Becomes(w, IF j.left # {} THEN j
                            ELSE IF j.kind = "compound"
                            THEN [j EXCEPT !.stage = "load", !.todo = Nothing]
                            ELSE [j EXCEPT !.stage = "reconcile", !.todo = Nothing,
                                           !.left = j.mine])
    /\ Outdate
    /\ UNCHANGED <<staged, named, review, faults, disturbances>>

\* A candidate has the file name of its page: it replaces the candidate for any
\* page of that name in another category.
Candidate(p, c) ==
    [q \in Pages |-> IF q = p THEN c ELSE IF Name[q] = Name[p] THEN Absent ELSE staged[q]]

\* Mutant of Unlinked: the edit stays where the agent put it.
Unlinked_Kept(p) == live

\* unlinkSync() of the path the agent wrote to.
Unlinked(p) == [live EXCEPT ![p] = Absent]

\* The pass goes on once page p of the reply is reconciled; it `wrote` it, or not.
\* A repair with nothing left has failed.
Reconciled(w, p, wrote, skipped) ==
    LET j == [job[w] EXCEPT !.left = @ \ {p},
                            !.mine = IF wrote THEN @ ELSE @ \ {p},
                            !.skipped = IF skipped THEN @ \cup {p} ELSE @]
    IN  Becomes(w, IF j.left # {} THEN j
                   ELSE IF j.kind # "ingest" /\ j.mine = {} THEN Rest
                   ELSE IF j.kind = "heal" THEN [j EXCEPT !.stage = "record"]
                   ELSE [j EXCEPT !.stage = "load"])

\* In ingestion under staging a page becomes a candidate instead.
Redirects(w) == job[w].kind = "ingest" /\ staging

\* One page of the reply is reconciled.  The file is taken as it is now, whoever
\* wrote it last; one that is gone is skipped.
Reconcile(w) ==
    /\ Running(w) /\ job[w].stage = "reconcile"
    /\ \E p \in job[w].left :
          LET redirect == Redirects(w) /\ live[p] # Absent
          IN  /\ live' = IF redirect THEN Unlinked(p) ELSE live
              /\ staged' = IF redirect THEN Candidate(p, live[p]) ELSE staged
              /\ Reconciled(w, p, live[p] # Absent /\ ~redirect, FALSE)
    /\ Outdate
    /\ UNCHANGED <<named, review, faults, disturbances>>

\* writePage() throws, and the page is skipped; or the candidate is written, but
\* unlinkSync() throws.  Both are swallowed, and the page stays in wiki/ as the
\* agent left it.
ReconcileFails(w) ==
    /\ faults < MaxFaults
    /\ Running(w) /\ job[w].stage = "reconcile"
    /\ faults' = faults + 1
    /\ \E p \in job[w].left :
          /\ live[p] # Absent
          /\ staged' \in {staged} \cup IF Redirects(w) THEN {Candidate(p, live[p])} ELSE {}
          /\ astray' = IF Redirects(w) THEN astray \cup {<<p, live[p].text>>} ELSE astray
          /\ Reconciled(w, p, FALSE, TRUE)
    /\ UNCHANGED <<live, derived, trail, named, staging, replies, unreviewed, disturbances>>
-----------------------------------------------------------------------------
\* repairBidirectionalLinks(): every page lists the pages that list it.
Repaired(w) ==
    [p \in Pages |->
        IF w[p] = Absent THEN Absent
        ELSE [w[p] EXCEPT !.related = @ \cup {q \in Present(w) : p \in w[q].related}]]

\* Mutant of Mutated: only pages that the pages of this pass list.
Mutated_Own(j) ==
    {p \in Pages : Repaired(live)[p] # live[p] /\ \E q \in j.mine : p \in live[q].related}

\* The pages that repair would change.
Mutated(j) == {p \in Pages : Repaired(live)[p] # live[p]}

\* healMissingBacklinks() starts with the links.
RepairLinks(w) ==
    /\ Begin(w, Pass("backlinks", "load"))
    /\ UNCHANGED <<wiki, derived, trail, named, review, faults>>

\* Where a pass goes once the links are repaired.  The repairs of lint have a
\* search index of their own, and leave index.md alone.
AfterLinks(kind) == IF kind \in Sharing THEN "index" ELSE "record"

\* Only those that rebuild the index need the pages again.
Seeing(w) == IF job[w].kind \in Sharing THEN [job[w] EXCEPT !.seen = live] ELSE job[w]

\* loadAllPages(), and the links repaired in memory.
Load(w) ==
    /\ At(w, Relinking, "load")
    /\ LET fix == Mutated(job[w])
       IN  Becomes(w,
             IF fix = {} /\ job[w].kind = "backlinks" THEN [job[w] EXCEPT !.stage = "end"]
             ELSE IF fix = {} THEN [Seeing(w) EXCEPT !.stage = AfterLinks(job[w].kind)]
             ELSE [Seeing(w) EXCEPT !.stage = "relink", !.left = fix, !.relinked = fix,
                                 !.todo = [p \in Pages |-> IF p \in fix THEN Repaired(live)[p]
                                                           ELSE Absent]])
    /\ UNCHANGED <<wiki, derived, trail, named, review, faults, disturbances>>

\* One page is written back as it was loaded, with its links repaired.
Relink(w) ==
    /\ At(w, Relinking, "relink")
    /\ \E p \in job[w].left :
          LET j == [job[w] EXCEPT !.left = @ \ {p}]
          IN  /\ live' = [live EXCEPT ![p] = j.todo[p]]
              /\ Becomes(w, IF j.left # {} THEN j
                            ELSE [j EXCEPT !.stage = AfterLinks(j.kind), !.todo = Nothing])
    /\ Outdate
    /\ UNCHANGED <<staged, named, review, faults, disturbances>>

\* Mutant of FinalPages: the pages are not loaded again after the repair.
FinalPages_Loaded(j) == IF j.kind \in Relinking THEN j.seen ELSE live

\* finalPages: loaded again if links were repaired, else as loaded before.
FinalPages(j) == IF j.kind \in Relinking /\ j.relinked = {} THEN j.seen ELSE live

\* The pages that are still as in w.
AsSeen(w) == {p \in Pages : live[p] = w[p]}

\* index.md and the search index are rebuilt; `wotw approve` rebuilds only a
\* search index of its own.
Index(w) ==
    /\ At(w, Sharing \cup {"approve"}, "index")
    /\ listed' = AsSeen(FinalPages(job[w]))
    /\ found' = IF job[w].kind \in Sharing THEN AsSeen(FinalPages(job[w])) ELSE found
    /\ Becomes(w, [job[w] EXCEPT
                     !.stage = CASE job[w].kind = "ingest" -> "hash"
                                 [] job[w].kind = "approve" -> "commit"
                                 [] OTHER -> "record",
                     !.seen = IF job[w].kind = "approve" THEN live ELSE Nothing])
    /\ UNCHANGED <<wiki, trail, named, review, faults, disturbances>>
-----------------------------------------------------------------------------
\* archiveDeletedSources() looks up the pages that records name for the deleted
\* sources.  One that finds none only leaves a record, and is left out.
Archive(w) ==
    /\ \E hit \in SUBSET named \ {{}} : Begin(w, [Pass("archive", "mark") EXCEPT !.left = hit])
    /\ UNCHANGED <<wiki, derived, trail, named, review, faults>>

\* One of them is read and rewritten as orphaned, unless it is gone.
Mark(w) ==
    /\ At(w, {"archive"}, "mark")
    /\ \E p \in job[w].left :
          LET j == [job[w] EXCEPT !.left = @ \ {p},
                                  !.mine = IF live[p] = Absent THEN @ ELSE @ \cup {p}]
          IN  /\ live' = IF live[p] = Absent THEN live ELSE [live EXCEPT ![p].orphaned = TRUE]
              /\ Becomes(w, IF j.left # {} THEN j
                            ELSE [j EXCEPT !.stage = IF j.mine = {} THEN "record" ELSE "index"])
    /\ Outdate
    /\ UNCHANGED <<staged, named, review, faults, disturbances>>

\* approveOne() and runReject() read a candidate.  `approve --all` is one such
\* pass after the other.
Decide(w) ==
    /\ \E p \in Present(staged), k \in {"approve", "reject"} :
          Begin(w, [Pass(k, IF k = "approve" THEN "place" ELSE "drop") EXCEPT
                      !.left = {p},
                      !.todo = [Nothing EXCEPT ![p] = staged[p]]])
    /\ UNCHANGED <<wiki, derived, trail, named, review, faults>>

\* The candidate is written to where its title and category belong, which need not
\* be the page the agent wrote it as (though no synthesis either), unless what is
\* there claims to be newer.
Place(w) ==
    /\ At(w, {"approve"}, "place")
    /\ \E p \in job[w].left, to \in Pages \ Syntheses :
          \/ /\ live[to] # Absent
             /\ Becomes(w, Rest)
             /\ UNCHANGED <<live, unreviewed>>
          \/ /\ live' = [live EXCEPT ![to] = job[w].todo[p]]
             /\ unreviewed' = unreviewed \ {job[w].todo[p].text}
             /\ Becomes(w, [job[w] EXCEPT !.stage = "drop", !.mine = {to}])
    /\ Outdate
    /\ UNCHANGED <<staged, named, staging, replies, astray, faults, disturbances>>

\* The candidate file is removed, whatever it holds by now.
Drop(w) ==
    /\ At(w, {"approve", "reject"}, "drop")
    /\ \E p \in job[w].left : staged' = Candidate(p, Absent)
    /\ Becomes(w, IF job[w].kind = "reject" THEN Rest
                  ELSE [job[w] EXCEPT !.stage = "record", !.left = {}, !.todo = Nothing])
    /\ UNCHANGED <<live, derived, trail, named, review, faults, disturbances>>
-----------------------------------------------------------------------------
\* Mutant of Accountable: what the repair of links rewrote is not named.
Accountable_Written(j) == j.mine

\* The pages the record names as written: compounding names its syntheses
\* only, not the pages whose links it repaired.
Accountable(j) == IF j.kind = "compound" THEN j.mine ELSE j.mine \cup j.relinked

\* Ingestion takes the hashes before it logs the cost and appends.
Hash(w) ==
    /\ At(w, {"ingest"}, "hash")
    /\ Becomes(w, [job[w] EXCEPT
                     !.stage = "record",
                     !.seen = [p \in Pages |-> IF p \in Accountable(job[w]) THEN live[p]
                                               ELSE Absent]])
    /\ UNCHANGED <<wiki, derived, trail, named, review, faults, disturbances>>

\* Ingestion records those hashes, the others what they find now.
Hashed(j) ==
    [p \in Pages |-> IF j.kind = "ingest" THEN j.seen[p]
                     ELSE IF p \in Accountable(j) THEN live[p] ELSE Absent]

AfterRecord(kind) == IF kind = "approve" THEN "index" ELSE "commit"

\* The record is appended.
Record(w) ==
    /\ Running(w) /\ job[w].stage = "record"
    /\ LET h == Hashed(job[w])
       IN  /\ recorded' = (recorded \ Present(h)) \cup (Present(h) \cap AsSeen(h))
           /\ named' = IF job[w].kind \in {"ingest", "approve"}
                       THEN named \cup Present(h) ELSE named
    /\ Becomes(w, [job[w] EXCEPT !.stage = AfterRecord(job[w].kind), !.seen = Nothing])
    /\ UNCHANGED <<wiki, derived, committed, review, faults, disturbances>>

\* append() fails: only healMissingBacklinks() lets that stop it.
RecordFails(w) ==
    /\ faults < MaxFaults
    /\ Running(w) /\ job[w].stage = "record"
    /\ faults' = faults + 1
    /\ Becomes(w, IF job[w].kind = "backlinks" THEN Rest
                  ELSE [job[w] EXCEPT !.stage = AfterRecord(job[w].kind), !.seen = Nothing,
                                      !.noted = FALSE])
    /\ UNCHANGED <<wiki, derived, trail, named, review, disturbances>>

\* Mutant of Committed: what the repair of links rewrote is not staged.
Committed_Written(j) == IF j.kind = "approve" THEN Present(j.seen) ELSE j.mine

\* The pages among the paths of the commit; approving commits all it loaded.
Committed(j) == IF j.kind = "approve" THEN Present(j.seen) ELSE j.mine \cup j.relinked

\* commitWikiChanges() stages these paths as they are now, and commits.
Commit(w) ==
    /\ Running(w) /\ job[w].stage = "commit"
    /\ committed' = committed \cup Committed(job[w])
    /\ Becomes(w, [job[w] EXCEPT !.stage = "end", !.seen = Nothing])
    /\ UNCHANGED <<wiki, derived, recorded, named, review, faults, disturbances>>

\* It fails, three retries of a locked index included; no pass goes on from it.
CommitFails(w) ==
    /\ faults < MaxFaults
    /\ Running(w) /\ job[w].stage = "commit"
    /\ faults' = faults + 1
    /\ Becomes(w, [job[w] EXCEPT !.stage = "end", !.seen = Nothing, !.saved = FALSE])
    /\ UNCHANGED <<wiki, derived, trail, named, review, disturbances>>

End(w) ==
    /\ Running(w) /\ job[w].stage = "end"
    /\ Becomes(w, Rest)
    /\ UNCHANGED <<wiki, derived, trail, named, review, faults, disturbances>>

\* Any other step throws, or the process of the pass dies.
Abort(w) ==
    /\ disturbances < MaxDisturbances
    /\ Running(w) /\ job[w].stage # "end"
    /\ disturbances' = disturbances + 1
    /\ Becomes(w, Rest)
    /\ UNCHANGED <<wiki, derived, trail, named, review, faults>>

\* The daemon is started, with or without --auto-approve: the queue rebuilds
\* both indexes.
Restart ==
    /\ \A w \in Writers : ~Running(w)
    /\ staging' \in BOOLEAN
    /\ listed' = Pages /\ found' = Pages
    /\ UNCHANGED <<wiki, trail, named, job, replies, unreviewed, astray, faults, disturbances>>

Next ==
    \/ \E w \in Writers :
          \/ Ask(w) \/ Reply(w) \/ NoReply(w) \/ Edit(w)
          \/ Reconcile(w) \/ ReconcileFails(w)
          \/ RepairLinks(w) \/ Load(w) \/ Relink(w) \/ Index(w)
          \/ Archive(w) \/ Mark(w)
          \/ Decide(w) \/ Place(w) \/ Drop(w)
          \/ Hash(w) \/ Record(w) \/ RecordFails(w) \/ Commit(w) \/ CommitFails(w)
          \/ End(w) \/ Abort(w)
    \/ Restart

Spec == Init /\ [][Next]_vars
-----------------------------------------------------------------------------
\* A pass that comes to its end, and had the wiki for itself from its first step.
Done(w) == Running(w) /\ job[w].stage = "end" /\ job[w].alone

\* After such a pass that repairs links every link goes both ways, whatever
\* passes that overlapped, died half-way or do not repair links left behind.
LinksGoBothWays ==
    \A w \in Writers : Done(w) /\ job[w].kind \in Relinking =>
        \A p \in Present(live) : \A q \in live[p].related \cap Present(live) : p \in live[q].related

\* After such a pass that rebuilds it, index.md lists the wiki as it is, and if
\* it is a pass of the daemon, its search finds the wiki as it is.
IndexesAreCurrent ==
    \A w \in Writers : Done(w) =>
        /\ job[w].kind \in {"ingest", "compound", "approve"} => listed = Pages
        /\ job[w].kind \in {"ingest", "compound"} => found = Pages
        /\ job[w].kind = "archive" /\ job[w].mine # {} => listed = Pages /\ found = Pages

Changed(w) == {p \in Pages : live[p] # job[w].base[p]}

\* What the record and the commit of a pass leave out: pages that its reconciler
\* failed to write, unless their links were repaired, and, in ingestion under
\* staging, approved pages that it took out of wiki/ when it staged their new text.
LeftOut(w) ==
    (job[w].skipped \ job[w].relinked)
    \cup (IF Redirects(w) THEN Pages \ Present(live) ELSE {})

\* After such a pass, the pages it changed have the hash that the chain has for
\* them, if its record was appended ("what the wiki looked like after the
\* write", docs/provenance.md:117).  Not so those left out above, and the pages
\* whose links compounding repaired.  No other pass takes a page out of wiki/.
ChangesAreOnRecord ==
    \A w \in Writers : Done(w) /\ job[w].noted =>
        Changed(w) \ (LeftOut(w) \cup (IF job[w].kind = "compound"
                                       THEN job[w].relinked \ job[w].mine ELSE {}))
            \subseteq recorded

\* And the pages it changed, other than those left out, are in git as they are, if
\* its commit succeeded.
ChangesAreCommitted ==
    \A w \in Writers : Done(w) /\ job[w].saved => Changed(w) \ LeftOut(w) \subseteq committed

Quiet == \A w \in Writers : ~Running(w)

\* Between passes the only texts in the wiki that are still to be reviewed are
\* those that the reconciler failed to move, as long as no two passes overlap and
\* none dies half-way.
ReviewComesFirst ==
    Quiet /\ disturbances = 0 =>
        \A p \in Present(live) : live[p].text \in unreviewed => <<p, live[p].text>> \in astray
=============================================================================
