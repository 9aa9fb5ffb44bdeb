--------------------------- MODULE ProgressiveRetrieval ---------------------------
(***************************************************************************)
(* Progressive retrieval: query_progressive answers with the opening       *)
(* paragraph of the best page and a continuation token, query_expand ships *)
(* the next tier for that token (src/server/progressive-query.ts), until   *)
(* the tokens the client allowed are used up.  What has been found and how *)
(* far a client has come is kept in a cache of bounded size and age        *)
(* (src/server/progressive-cache.ts), in memory only.                      *)
(*                                                                         *)
(* query_progressive reads the pages between its search and its entry in   *)
(* the cache, and other calls run meanwhile; query_expand runs in one      *)
(* piece.  An answer may be lost on its way.  Text is its length in        *)
(* characters, four of them to a token; time is counted in ticks.          *)
(***************************************************************************)
EXTENDS Integers, Sequences, SequencesExt, FiniteSets, FiniteSetsExt, Functions

CONSTANTS
    Clients,
    Questions,
    Found,          \* [Questions -> the hits of the search, best first]
    Initial,        \* max_tokens_initial a client may send
    Total,          \* max_tokens_total
    Additional,     \* additional_tokens
    MaxEntries,     \* size of the cache
    TTL,            \* ticks an unused entry lives
    MaxTokens,      \* bound: continuation tokens issued
    MaxRestarts     \* bound: restarts of the daemon

RetrievalAssumption ==
    /\ Initial \cup Total \cup Additional \subseteq Nat \ {0}
    /\ MaxEntries \in Nat \ {0}
    /\ TTL \in Nat
    /\ MaxTokens \in Nat
    /\ MaxRestarts \in Nat

VARIABLES
    cache,          \* the entries: token -> Entry; tokens are numbered in the
                    \* order of their insertion
    client,         \* what each client waits for or has been told
    unused,         \* ticks since each token issued was last used (history)
    restarts        \* restarts so far

retrievalVars == <<cache, client, unused, restarts>>
-----------------------------------------------------------------------------
(* Rendering.  A hit is [header, lede, body, outline : lengths,            *)
(* sections : Seq([title, lede : lengths]), cut : what a cut on a boundary *)
(* drops]; a header is counted with its line breaks.                       *)

MaxTier == 3
HitsPerTier == <<1, 3, 5, 8>>
HitsOf(tier) == HitsPerTier[tier + 1]
CharsPerToken == 4

Upto(hits, n) == SubSeq(hits, 1, Min({n, Len(hits)}))
After(hits, n) == SubSeq(hits, n + 1, Len(hits))
AtLeast0(n) == Max({n, 0})

HeuristicTokens(chars) == (chars + CharsPerToken - 1) \div CharsPerToken

\* truncateToTokenBudget(): whole, or cut at the last boundary that fits.
Truncated(chars, tokens, cut) ==
    IF chars <= tokens * CharsPerToken THEN chars
    ELSE AtLeast0(tokens * CharsPerToken - cut)

\* The header, and as much of the text as the rest of the budget takes.
Headed(hit, chars, budget) ==
    IF budget <= 0 THEN 0
    ELSE hit.header + Truncated(chars, AtLeast0(budget - HeuristicTokens(hit.header)), hit.cut)

HitLede(hit, budget) == Headed(hit, hit.lede, budget)
FullBody(hit, budget) == Headed(hit, hit.body, budget)

\* Sections as long as they fit; the first that does not is squeezed in.
AddSection(r, section, cut) ==
    LET title == HeuristicTokens(section.title)
        block == section.lede + 1 + IF section.title > 0 THEN section.title + 1 ELSE 0
        tokens == HeuristicTokens(block)
    IN  IF r.left <= 0 THEN r
        ELSE IF tokens <= r.left
        THEN [chars |-> r.chars + block, left |-> r.left - tokens]
        ELSE [chars |-> r.chars + IF r.left > title + 8
                THEN section.title + 1 + Truncated(section.lede, r.left - title - 2, cut) + 1 ELSE 0,
              left |-> 0]

SectionLedes(hit, budget) ==
    IF budget <= 0 \/ hit.sections = <<>> THEN HitLede(hit, budget)
    ELSE FoldLeft(LAMBDA r, section : AddSection(r, section, hit.cut),
             [chars |-> hit.header, left |-> AtLeast0(budget - HeuristicTokens(hit.header))],
             hit.sections).chars

Block(form, hit, budget) ==
    CASE form = "lede" -> HitLede(hit, budget)
      [] form = "sections" -> SectionLedes(hit, budget)
      [] form = "body" -> FullBody(hit, budget)

\* used counts tokens; chars the text with the line breaks of the join.
Nothing == [used |-> 0, chars |-> 0, blocks |-> 0, full |-> FALSE]

Joined(r, chars) ==
    [used |-> r.used + HeuristicTokens(chars), full |-> FALSE, blocks |-> r.blocks + 1,
     chars |-> r.chars + chars + IF r.blocks > 0 THEN 1 ELSE 0]

\* The loops over hits: a block is left out, and the loop left, once it would
\* not fit.
Packed(r, hits, form, share, budget) ==
    FoldLeft(LAMBDA s, hit :
                 LET chars == Block(form, hit, Min({share, budget - s.used}))
                 IN  IF s.full \/ s.used >= budget \/ s.used + HeuristicTokens(chars) > budget
                     THEN [s EXCEPT !.full = TRUE]
                     ELSE Joined(s, chars),
             [r EXCEPT !.full = FALSE], hits)

Share(budget, hits) == IF hits = <<>> THEN 0 ELSE AtLeast0(budget \div Len(hits))

Tier0(hits, budget) ==
    LET top == Head(hits)
    IN  IF budget <= HeuristicTokens(top.header) THEN Truncated(top.header, budget, top.cut)
        ELSE HitLede(top, budget)

Tier1(hits, budget) ==
    LET next == After(Upto(hits, HitsOf(1)), 1)
        outline == Head(hits).outline
        r == IF outline > 0 /\ HeuristicTokens(outline) <= budget
             THEN Joined(Nothing, outline) ELSE Nothing
    IN  Packed(r, next, "lede", Share(budget - r.used, next), budget).chars

Tier2(hits, delta, budget) ==
    LET top3 == Upto(hits, HitsOf(1))
        r == Packed(Nothing, top3, "sections", Share((budget * 6) \div 10, top3), budget)
    IN  Packed(r, delta, "lede", Share(budget - r.used, delta), budget).chars

\* Without new hits the top five are shipped, whole.
Tier3(hits, delta, budget) ==
    LET all == IF delta = <<>> THEN Upto(hits, HitsOf(2)) ELSE delta
    IN  Packed(Nothing, all, "body", Share(budget, all), budget).chars

\* renderTier(), in tokens of the text it makes.
Rendered(tier, hits, budget) ==
    LET delta == IF tier = 0 THEN <<>> ELSE After(Upto(hits, HitsOf(tier)), HitsOf(tier - 1))
    IN  HeuristicTokens(CASE tier = 0 -> Tier0(hits, budget)
                          [] tier = 1 -> Tier1(hits, budget)
                          [] tier = 2 -> Tier2(hits, delta, budget)
                          [] tier = 3 -> Tier3(hits, delta, budget))
-----------------------------------------------------------------------------
Tokens == 1 .. Len(unused)
Ages == 0 .. TTL + 1
Entry == [question : Questions, tier : 0 .. MaxTier, shipped : Nat, cap : Total, age : Ages]

Idle == [does |-> "idle"]
Asking == [does : {"asking"}, question : Questions, initial : Initial, cap : Total]
\* The client was told that there is more behind this token; lost when the
\* answer to an expansion has not reached it since (history).
Told == [does : {"told"}, token : 1 .. MaxTokens, lost : BOOLEAN]

RetrievalTypeOK ==
    /\ DOMAIN cache \subseteq Tokens /\ \A t \in DOMAIN cache : cache[t] \in Entry
    /\ client \in [Clients -> Asking \cup Told \cup {Idle}]
    /\ unused \in Seq(Ages)
    /\ Len(unused) <= MaxTokens
    /\ restarts \in 0 .. MaxRestarts

RetrievalInit ==
    /\ cache = <<>>
    /\ client = [c \in Clients |-> Idle]
    /\ unused = <<>>
    /\ restarts = 0

Expired(e) == e.age > TTL
Fresh == {t \in DOMAIN cache : ~Expired(cache[t])}

\* evictLru(): the first of those that were not used for longest.
Oldest(tokens) ==
    CHOOSE t \in tokens :
        \A u \in tokens :
            \/ cache[u].age < cache[t].age
            \/ cache[u].age = cache[t].age /\ t <= u

Put(token, entry) ==
    LET room == IF Cardinality(Fresh) >= MaxEntries THEN Fresh \ {Oldest(Fresh)} ELSE Fresh
    IN  cache' = [t \in room \cup {token} |-> IF t = token THEN entry ELSE cache[t]]

\* Mutant of Touched: reading an entry does not count as a use.
Touched_Not(entry) == entry

Touched(entry) == [entry EXCEPT !.age = 0]

HasLeft(entry) == entry.cap - entry.shipped > 0
-----------------------------------------------------------------------------
\* query_progressive: no hits, no conversation; else the pages are read.
Ask(c) ==
    /\ client[c].does # "asking"
    /\ Len(unused) < MaxTokens
    /\ \E q \in Questions, initial \in Initial, total \in Total :
          client' = [client EXCEPT ![c] =
              IF Found[q] = <<>> THEN Idle
              ELSE [does |-> "asking", question |-> q, initial |-> initial, cap |-> total]]
    /\ UNCHANGED <<cache, unused, restarts>>

HasMore(hits, entry) == HasLeft(entry) /\ Len(hits) > HitsOf(0)

\* Tier 0: the entry is made in any case, the token handed out if there is more.
Answer(c) ==
    /\ client[c].does = "asking"
    /\ Len(unused) < MaxTokens
    /\ LET asked == client[c]
           hits == Found[asked.question]
           entry == [question |-> asked.question, tier |-> 0, cap |-> asked.cap, age |-> 0,
                     shipped |-> Rendered(0, hits, Min({asked.initial, asked.cap}))]
           token == Len(unused) + 1
       IN  /\ Put(token, entry)
           /\ \E arrives \in BOOLEAN :
                 client' = [client EXCEPT ![c] =
                     IF arrives /\ HasMore(hits, entry)
                     THEN [does |-> "told", token |-> token, lost |-> FALSE] ELSE Idle]
    /\ unused' = Append(unused, 0)
    /\ UNCHANGED restarts

\* get() finds nothing, or what it finds is too old and is dropped.
Unknown(token) == token \in DOMAIN cache => Expired(cache[token])

Budget(entry, additional) == Min({additional, AtLeast0(entry.cap - entry.shipped)})
Spent(entry) == entry.tier >= MaxTier \/ ~HasLeft(entry)

\* query_expand comes back with an error.  It counts as a use all the same.
ExpandRefused(c) ==
    /\ client[c].does = "told"
    /\ LET token == client[c].token
       IN  \/ /\ Unknown(token)
              /\ cache' = Restrict(cache, DOMAIN cache \ {token})
              /\ UNCHANGED unused
           \/ /\ ~Unknown(token)
              /\ Spent(cache[token])
              /\ cache' = [cache EXCEPT ![token] = Touched(@)]
              /\ unused' = [unused EXCEPT ![token] = 0]
    /\ client' = [client EXCEPT ![c] = Idle]
    /\ UNCHANGED restarts

\* query_expand ships the next tier, however little of it fits.
Expand(c) ==
    /\ client[c].does = "told"
    /\ ~Unknown(client[c].token)
    /\ ~Spent(cache[client[c].token])
    /\ \E additional \in Additional, arrives \in BOOLEAN :
          LET entry == cache[client[c].token]
              tier == entry.tier + 1
              tokens == Rendered(tier, Found[entry.question], Budget(entry, additional))
              advanced == [entry EXCEPT !.tier = tier, !.shipped = @ + tokens]
              more == tier < MaxTier /\ HasLeft(advanced)
          IN  /\ cache' = [cache EXCEPT ![client[c].token] = Touched(advanced)]
              /\ client' = [client EXCEPT ![c] =
                     IF arrives /\ ~more THEN Idle ELSE [@ EXCEPT !.lost = ~arrives]]
    /\ unused' = [unused EXCEPT ![client[c].token] = 0]
    /\ UNCHANGED restarts

Older(age) == Min({age + 1, TTL + 1})

Tick ==
    /\ cache' = [t \in DOMAIN cache |-> [cache[t] EXCEPT !.age = Older(@)]]
    /\ unused' = [t \in DOMAIN unused |-> Older(unused[t])]
    /\ UNCHANGED <<client, restarts>>

\* The cache goes with the daemon; the tokens the clients hold do not.
Restart ==
    /\ restarts < MaxRestarts
    /\ restarts' = restarts + 1
    /\ cache' = <<>>
    /\ client' = [c \in Clients |-> IF client[c].does = "asking" THEN Idle ELSE client[c]]
    /\ unused' = [t \in DOMAIN unused |-> TTL + 1]

RetrievalNext ==
    \/ \E c \in Clients : Ask(c) \/ Answer(c) \/ Expand(c) \/ ExpandRefused(c)
    \/ Tick
    \/ Restart
-----------------------------------------------------------------------------
\* Who was told that there is more, gets it: the entry is there, with a tier
\* and tokens left, unless it was not used for TTL, MaxEntries others were used
\* since or in the same tick, an expansion's answer was lost, or the daemon
\* started anew (tools.ts:494, has_more and continuation_token).
PromiseIsKept ==
    \A c \in Clients :
        client[c].does = "told" /\ ~client[c].lost =>
            LET t == client[c].token
                others == {u \in Tokens \ {t} : unused[u] <= unused[t]}
            IN  \/ unused[t] > TTL
                \/ Cardinality(others) >= MaxEntries
                \/ t \in DOMAIN cache /\ ~Spent(cache[t])
=============================================================================
