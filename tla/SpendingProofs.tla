----------------------------- MODULE SpendingProofs -----------------------------
(***************************************************************************)
(* Theorems about Spending for any number of operations, passes, calls and *)
(* days, and any costs and caps.                                           *)
(*                                                                         *)
(* The caches and the budget need no sums: what went through one tracker   *)
(* and is not lost is part of what the log holds, and that is all a cache  *)
(* that is filled from the log has to agree with.  The ledger does, over   *)
(* trackers and over operations; what is needed of sums is shown first.    *)
(***************************************************************************)
EXTENDS Spending, FiniteSetTheorems, TLAPS

\* The part of TypeOK that the budget depends on.
BudgetTyped ==
    /\ kind \in [Operations -> Kinds \cup {"none"}]
    /\ doing \in [Operations -> {"idle", "loop", "expanding", "asking", "settling"}]
    /\ carried \in [Operations -> Costs]
    /\ day \in Nat
    /\ file \in Nat
    /\ cachedDay \in [Trackers -> Int]
    /\ cachedTotal \in [Trackers -> Nat]
    /\ charged \in [Trackers -> Nat]
    /\ guarded \in Nat
    /\ lost \in [Trackers -> Nat]

\* What went through a tracker and is not lost is in the log, which a cache may
\* therefore be filled from; no cache is of a day to come; and what the daemon
\* has entered under its budget went through its tracker.
BudgetInv ==
    /\ BudgetTyped
    /\ \A t \in Trackers : charged[t] - lost[t] <= file /\ cachedDay[t] <= day
    /\ guarded <= charged[Shared]
    /\ CacheAgrees

\* The steps that enter nothing: caches are kept, filled, or given up.
KeptOrFilled(t) ==
    \/ cachedDay'[t] = cachedDay[t] /\ cachedTotal'[t] = cachedTotal[t]
    \/ cachedDay'[t] = day /\ cachedTotal'[t] = SpentToday(t)
    \/ cachedDay'[t] = -1 /\ cachedTotal'[t] = 0

NothingEntered ==
    /\ UNCHANGED <<day, ledger>>
    /\ kind' \in [Operations -> Kinds \cup {"none"}]
    /\ doing' \in [Operations -> {"idle", "loop", "expanding", "asking", "settling"}]
    /\ carried' \in [Operations -> Costs]
    /\ cachedDay' \in [Trackers -> Int]
    /\ cachedTotal' \in [Trackers -> Nat]
    /\ \A t \in Trackers : KeptOrFilled(t)
-----------------------------------------------------------------------------
\* Filling a cache from the log is right.
LEMMA FilledFromLog ==
  ASSUME BudgetInv, NEW t \in Trackers
  PROVE  /\ SpentToday(t) \in Nat
         /\ charged[t] - lost[t] <= SpentToday(t)
         /\ SpentToday(t) <= file + lost[t]
BY DEF BudgetInv, BudgetTyped, CacheAgrees, SpentToday

LEMMA NothingEnteredStep ==
  ASSUME BudgetInv, NothingEntered
  PROVE  BudgetInv'
<1>1. BudgetTyped'
  BY DEF NothingEntered, ledger, BudgetInv, BudgetTyped
<1>2. ASSUME NEW t \in Trackers
      PROVE  /\ cachedDay'[t] <= day'
             /\ cachedDay'[t] = day' =>
                  charged'[t] - lost'[t] <= cachedTotal'[t] /\ cachedTotal'[t] <= file' + lost'[t]
  <2>1. KeptOrFilled(t) /\ UNCHANGED <<day, file, charged, lost>>
    BY DEF NothingEntered, ledger
  <2>2. QED
    BY <2>1, FilledFromLog DEF KeptOrFilled, BudgetInv, BudgetTyped, CacheAgrees
<1>3. QED
  BY <1>1, <1>2 DEF NothingEntered, ledger, BudgetInv, CacheAgrees

\* An entry, whole, in part or not at all.
LEMMA LogUsageStep ==
  ASSUME BudgetInv, NEW o \in Operations, NEW amount \in Nat, LogUsage(o, amount),
         UNCHANGED day,
         kind' \in [Operations -> Kinds \cup {"none"}],
         doing' \in [Operations -> {"idle", "loop", "expanding", "asking", "settling"}],
         carried' \in [Operations -> Costs]
  PROVE  BudgetInv'
<1> DEFINE t == Tracker(o)
<1>1. t \in Trackers
  BY DEF Tracker, Trackers, Operations
<1>2. /\ cachedDay' = [cachedDay EXCEPT ![t] = IF @ = day THEN @ ELSE -1]
      /\ cachedTotal' = [cachedTotal EXCEPT ![t] = IF cachedDay[t] = day THEN @ + amount ELSE @]
      /\ charged' = [charged EXCEPT ![t] = @ + amount]
      /\ guarded' = IF o \in DaemonOps /\ kind[o] # "extract" THEN guarded + amount ELSE guarded
  BY DEF LogUsage, Noted
<1>3. \/ file' = file /\ lost' = [lost EXCEPT ![t] = @ + amount]
      \/ file' = file + amount /\ lost' = lost
  BY DEF LogUsage, Appended
<1>4. BudgetTyped'
  BY <1>1, <1>2, <1>3 DEF BudgetInv, BudgetTyped
<1>5. ASSUME NEW u \in Trackers
      PROVE  /\ charged'[u] - lost'[u] <= file' /\ cachedDay'[u] <= day'
             /\ cachedDay'[u] = day' =>
                  charged'[u] - lost'[u] <= cachedTotal'[u] /\ cachedTotal'[u] <= file' + lost'[u]
  <2>1. CASE u = t
    <3>1. /\ cachedDay'[t] = IF cachedDay[t] = day THEN cachedDay[t] ELSE -1
          /\ cachedTotal'[t] = IF cachedDay[t] = day THEN cachedTotal[t] + amount
                               ELSE cachedTotal[t]
          /\ charged'[t] = charged[t] + amount
      BY <1>1, <1>2 DEF BudgetInv, BudgetTyped
    <3>2. \/ file' = file /\ lost'[t] = lost[t] + amount
          \/ file' = file + amount /\ lost'[t] = lost[t]
      BY <1>1, <1>3 DEF BudgetInv, BudgetTyped
    <3>3. QED
      BY <2>1, <3>1, <3>2 DEF BudgetInv, BudgetTyped, CacheAgrees
  <2>2. CASE u # t
    <3>1. /\ cachedDay'[u] = cachedDay[u] /\ cachedTotal'[u] = cachedTotal[u]
          /\ charged'[u] = charged[u] /\ lost'[u] = lost[u]
          /\ file' >= file
      BY <1>1, <1>2, <1>3, <2>2 DEF BudgetInv, BudgetTyped
    <3>2. QED
      BY <1>4, <3>1 DEF BudgetInv, BudgetTyped, CacheAgrees
  <2>3. QED BY <2>1, <2>2
<1>6. guarded' <= charged'[Shared]
  <2>1. CASE o \in DaemonOps
    <3>1. t = Shared
      BY <2>1, SpendingAssumption DEF Tracker
    <3>2. QED
      BY <1>1, <1>2, <3>1 DEF BudgetInv, BudgetTyped
  <2>2. CASE o \notin DaemonOps
    <3>1. t # Shared
      BY <2>2, SpendingAssumption DEF Tracker, Operations
    <3>2. Shared \in Trackers
      BY DEF Trackers
    <3>3. QED
      BY <1>1, <1>2, <2>2, <3>1, <3>2 DEF BudgetInv, BudgetTyped
  <2>3. QED BY <2>1, <2>2
<1>7. QED
  BY <1>4, <1>5, <1>6 DEF BudgetInv, CacheAgrees

\* Moving an operation on keeps the types of what it is and has to pay.
LEMMA GoesStep ==
  ASSUME BudgetTyped, NEW o \in Operations,
         NEW k \in Kinds \cup {"none"},
         NEW stage \in {"idle", "loop", "expanding", "asking", "settling"},
         NEW sum \in Costs,
         Stage(o, k, stage),
         carried' = carried \/ carried' = [carried EXCEPT ![o] = sum]
  PROVE  /\ kind' \in [Operations -> Kinds \cup {"none"}]
         /\ doing' \in [Operations -> {"idle", "loop", "expanding", "asking", "settling"}]
         /\ carried' \in [Operations -> Costs]
         /\ UNCHANGED day
         /\ \A p \in Operations \ {o} : kind'[p] = kind[p] /\ doing'[p] = doing[p]
         /\ doing'[o] = stage
         /\ kind'[o] = IF stage = "idle" THEN "none" ELSE k
<1>1. /\ doing' = [doing EXCEPT ![o] = stage]
      /\ kind' = [kind EXCEPT ![o] = IF stage = "idle" THEN "none" ELSE k]
      /\ UNCHANGED day
  BY DEF Stage
<1>2. QED
  BY <1>1 DEF BudgetTyped

\* What filling the cache of a tracker does to all of them.
LEMMA HydrateStep ==
  ASSUME BudgetInv, NEW t \in Trackers, Hydrate(t)
  PROVE  /\ cachedDay' \in [Trackers -> Int]
         /\ cachedTotal' \in [Trackers -> Nat]
         /\ \A u \in Trackers : KeptOrFilled(u)
<1>1. SpentToday(t) \in Nat
  BY FilledFromLog
<1>2. /\ cachedDay' = [cachedDay EXCEPT ![t] = day]
      /\ cachedTotal' = [cachedTotal EXCEPT ![t] = SpentToday(t)]
  BY DEF Hydrate
<1>3. QED
  BY <1>1, <1>2 DEF BudgetInv, BudgetTyped, KeptOrFilled

\* Every step but an entry and midnight enters nothing.
Enters(o) ==
    \/ Settled(o)
    \/ SettledEmpty(o) /\ carried[o] # 0
    \/ \E c \in Costs :
          \/ ExpansionAnswered(o, c) \/ QueryAnswered(o, c)
          \/ FindingAnswered(o, c) \/ FactsAnswered(o, c)

LEMMA BeginStep ==
  ASSUME BudgetInv, NEW o \in Operations, NEW k \in Kinds,
         NEW stage \in {"idle", "loop", "expanding", "asking"}, Begin(o, k, stage)
  PROVE  NothingEntered
<1>1. Shared \in Trackers
  BY DEF Trackers
<1>2. /\ cachedDay' \in [Trackers -> Int]
      /\ cachedTotal' \in [Trackers -> Nat]
      /\ \A u \in Trackers : KeptOrFilled(u)
  BY <1>1, HydrateStep DEF Begin
<1>3. CASE Becomes(o, k, stage)
  <2>1. BudgetTyped /\ 0 \in Costs
    BY SpendingAssumption DEF BudgetInv, Costs
  <2>2. /\ Stage(o, k, stage) /\ carried' = carried
        /\ UNCHANGED ledger
    BY <1>3 DEF Becomes
  <2>3. QED
    BY <1>2, <2>1, <2>2, GoesStep DEF NothingEntered
<1>4. CASE UNCHANGED <<kind, doing, carried, day, ledger, bill, faults>>
  BY <1>2, <1>4 DEF NothingEntered, BudgetInv, BudgetTyped
<1>5. QED
  BY <1>3, <1>4 DEF Begin

LEMMA QuietStep ==
  ASSUME BudgetInv, NEW o \in Operations,
         \/ BeginIngest(o) \/ BeginCompound(o) \/ BeginQuery(o)
         \/ BeginPass(o) \/ BeginExtract(o)
         \/ NextCluster(o) \/ NextFinding(o) \/ NextPage(o) \/ NoMoreItems(o)
         \/ ExpansionFails(o) \/ CallFails(o)
         \/ SettlingThrows(o)
         \/ SettledEmpty(o) /\ carried[o] = 0
         \/ \E c \in Costs : IngestAnswered(o, c) \/ ClusterAnswered(o, c)
  PROVE  NothingEntered
<1>1. BudgetTyped /\ 0 \in Costs /\ kind[o] \in Kinds \cup {"none"} /\ Tracker(o) \in Trackers
  BY SpendingAssumption DEF BudgetInv, BudgetTyped, Costs, Tracker, Trackers,
                            Operations
<1>2. CASE BeginIngest(o) \/ BeginCompound(o) \/ BeginQuery(o)
  BY <1>2, BeginStep DEF BeginIngest, BeginCompound, BeginQuery, Kinds
<1>3. ASSUME NEW k \in Kinds \cup {"none"},
             NEW stage \in {"idle", "loop", "expanding", "asking", "settling"},
             NEW sum \in Costs,
             Stage(o, k, stage), carried' = carried \/ carried' = [carried EXCEPT ![o] = sum],
             UNCHANGED ledger,
             \/ UNCHANGED caches
             \/ Hydrate(Tracker(o))
             \/ BeginPass(o)
      PROVE  NothingEntered
  <2>1. /\ cachedDay' \in [Trackers -> Int]
        /\ cachedTotal' \in [Trackers -> Nat]
        /\ \A u \in Trackers : KeptOrFilled(u)
    <3>1. CASE UNCHANGED caches
      BY <1>1, <3>1 DEF caches, KeptOrFilled, BudgetTyped
    <3>2. CASE Hydrate(Tracker(o))
      BY <1>1, <3>2, HydrateStep
    <3>3. CASE BeginPass(o)
      <4>1. /\ o \in Trackers
            /\ cachedDay' = [cachedDay EXCEPT ![o] = -1]
            /\ cachedTotal' = [cachedTotal EXCEPT ![o] = 0]
        BY <3>3 DEF BeginPass, Trackers
      <4>2. QED
        BY <1>1, <4>1 DEF KeptOrFilled, BudgetTyped
    <3>4. QED BY <1>3, <3>1, <3>2, <3>3
  <2>2. QED
    BY <1>1, <1>3, <2>1, GoesStep DEF NothingEntered
<1>4. CASE BeginPass(o)
  <2>1. PICK k \in {"heal", "extract"} : Becomes(o, k, "loop")
    BY <1>4 DEF BeginPass
  <2>2. QED
    BY <1>1, <1>3, <1>4, <2>1 DEF Becomes, Kinds
<1>5. CASE BeginExtract(o) \/ NextPage(o) \/ NoMoreItems(o)
  BY <1>1, <1>3, <1>5 DEF BeginExtract, NextPage, NoMoreItems, Becomes, Kinds
<1>6. CASE NextCluster(o) \/ NextFinding(o)
  <2>1. Hydrate(Tracker(o))
    BY <1>6 DEF NextCluster, NextFinding, NextItem
  <2>2. Becomes(o, kind[o], "loop") \/ Becomes(o, kind[o], "asking")
    BY <1>6 DEF NextCluster, NextFinding, NextItem
  <2>3. QED
    BY <1>1, <1>3, <2>1, <2>2 DEF Becomes
<1>7. CASE ExpansionFails(o)
  <2>1. PICK stage \in {"asking", "idle"} : Goes(o, stage, 0)
    BY <1>7 DEF ExpansionFails
  <2>2. QED
    BY <1>1, <1>3, <1>7, <2>1 DEF ExpansionFails, Goes
<1>8. CASE CallFails(o)
  <2>1. Goes(o, "idle", 0) \/ Goes(o, "loop", 0)
    BY <1>8 DEF CallFails
  <2>2. QED
    BY <1>1, <1>3, <1>8, <2>1 DEF CallFails, Goes
<1>9. CASE (SettledEmpty(o) /\ carried[o] = 0) \/ SettlingThrows(o)
  <2>1. Goes(o, "idle", 0) /\ UNCHANGED ledger /\ UNCHANGED caches
    BY <1>9 DEF SettledEmpty, SettlingThrows
  <2>2. QED
    BY <1>1, <1>3, <2>1 DEF Goes
<1>10. ASSUME NEW c \in Costs, IngestAnswered(o, c) \/ ClusterAnswered(o, c)
       PROVE  NothingEntered
  <2>1. Goes(o, "settling", c) /\ UNCHANGED ledger /\ UNCHANGED caches
    BY <1>10 DEF IngestAnswered, ClusterAnswered, PutToUse
  <2>2. QED
    BY <1>1, <1>3, <2>1 DEF Goes
<1>11. QED
  BY <1>2, <1>4, <1>5, <1>6, <1>7, <1>8, <1>9, <1>10

LEMMA EntryStep ==
  ASSUME BudgetInv, NEW o \in Operations, Enters(o)
  PROVE  BudgetInv'
<1>1. BudgetTyped /\ 0 \in Costs /\ kind[o] \in Kinds \cup {"none"}
      /\ carried[o] \in Nat /\ Costs \subseteq Nat
  BY SpendingAssumption DEF BudgetInv, BudgetTyped, Costs
<1>2. ASSUME NEW amount \in Nat, LogUsage(o, amount),
             NEW stage \in {"idle", "loop", "asking"}, NEW sum \in Costs,
             Goes(o, stage, sum)
      PROVE  BudgetInv'
  <2>1. /\ kind' \in [Operations -> Kinds \cup {"none"}]
        /\ doing' \in [Operations -> {"idle", "loop", "expanding", "asking", "settling"}]
        /\ carried' \in [Operations -> Costs]
        /\ UNCHANGED day
    BY <1>1, <1>2, GoesStep DEF Goes
  <2>2. QED
    BY <1>2, <2>1, LogUsageStep
<1>3. CASE Settled(o) \/ (SettledEmpty(o) /\ carried[o] # 0)
  BY <1>1, <1>2, <1>3 DEF Settled, SettledEmpty
<1>4. ASSUME NEW c \in Costs, ExpansionAnswered(o, c) PROVE BudgetInv'
  <2>1. PICK stage \in {"asking", "idle"}, sum \in {0, c} :
               Goes(o, stage, IF stage = "idle" THEN 0 ELSE sum)
    BY <1>4 DEF ExpansionAnswered
  <2>2. LogUsage(o, c)
    BY <1>4 DEF ExpansionAnswered
  <2>3. QED
    BY <1>1, <1>2, <2>1, <2>2
<1>5. ASSUME NEW c \in Costs, NEW k \in Kinds, NEW stage \in {"idle", "loop"},
             Answered(o, k, c, stage)
      PROVE  BudgetInv'
  <2>1. LogUsage(o, c + carried[o]) /\ Goes(o, stage, 0) /\ c + carried[o] \in Nat
    BY <1>1, <1>5 DEF Answered
  <2>2. QED
    BY <1>1, <1>2, <2>1
<1>6. ASSUME NEW c \in Costs,
             QueryAnswered(o, c) \/ FindingAnswered(o, c) \/ FactsAnswered(o, c)
      PROVE  \E k \in Kinds, stage \in {"idle", "loop"} : Answered(o, k, c, stage)
  BY <1>6 DEF QueryAnswered, FindingAnswered, FactsAnswered, Kinds
<1>7. ASSUME NEW c \in Costs,
             QueryAnswered(o, c) \/ FindingAnswered(o, c) \/ FactsAnswered(o, c)
      PROVE  BudgetInv'
  <2>1. PICK k \in Kinds, stage \in {"idle", "loop"} : Answered(o, k, c, stage)
    BY <1>6, <1>7
  <2>2. QED
    BY <1>5, <2>1
<1>8. QED
  BY <1>3, <1>4, <1>7 DEF Enters

LEMMA DeathStep ==
  ASSUME BudgetInv, NEW S, NEW t \in Trackers, Dies(S, t)
  PROVE  NothingEntered
<1>1. 0 \in Costs
  BY SpendingAssumption DEF Costs
<1>2. /\ doing' = [o \in Operations |-> IF o \in S THEN "idle" ELSE doing[o]]
      /\ kind' = [o \in Operations |-> IF o \in S THEN "none" ELSE kind[o]]
      /\ carried' = [o \in Operations |-> IF o \in S THEN 0 ELSE carried[o]]
      /\ cachedDay' = [cachedDay EXCEPT ![t] = -1]
      /\ cachedTotal' = [cachedTotal EXCEPT ![t] = 0]
      /\ UNCHANGED <<day, ledger>>
  BY DEF Dies
<1>3. QED
  BY <1>1, <1>2 DEF NothingEntered, KeptOrFilled, BudgetInv, BudgetTyped

LEMMA MidnightStep ==
  ASSUME BudgetInv, NewDay
  PROVE  BudgetInv'
<1>1. /\ day' = day + 1 /\ file' = 0 /\ guarded' = 0
      /\ charged' = [t \in Trackers |-> 0] /\ lost' = [t \in Trackers |-> 0]
      /\ UNCHANGED <<kind, doing, carried, cachedDay, cachedTotal>>
  BY DEF NewDay, caches
<1>2. QED
  BY <1>1 DEF BudgetInv, BudgetTyped, CacheAgrees, Trackers

LEMMA BudgetIsKept == Spec => []BudgetInv
<1>1. Init => BudgetInv
  BY SpendingAssumption
    DEF Init, BudgetInv, BudgetTyped, CacheAgrees, Costs, Trackers
<1>2. BudgetInv /\ [Next]_vars => BudgetInv'
  <2> SUFFICES ASSUME BudgetInv, [Next]_vars PROVE BudgetInv'
    OBVIOUS
  <2>1. ASSUME NEW o \in Operations, Enters(o) PROVE BudgetInv'
    BY <2>1, EntryStep
  <2>2. CASE NothingEntered
    BY <2>2, NothingEnteredStep
  <2>3. CASE DaemonDies \/ \E p \in Passes : PassDies(p)
    BY <2>2, <2>3, DeathStep DEF DaemonDies, PassDies, Trackers
  <2>4. CASE NewDay
    BY <2>4, MidnightStep
  <2>5. CASE UNCHANGED vars
    BY <2>2, <2>5 DEF vars, ledger, NothingEntered, KeptOrFilled, BudgetInv, BudgetTyped
  <2>6. QED
    BY <2>1, <2>2, <2>3, <2>4, <2>5, QuietStep DEF Next, Enters
<1>3. QED
  BY <1>1, <1>2, PTL DEF Spec
-----------------------------------------------------------------------------
\* The cache of a tracker agrees with the log, over restarts, new passes, lost
\* entries and midnights.
THEOREM CachesAgree == Spec => []CacheAgrees
<1>1. BudgetInv => CacheAgrees
  BY DEF BudgetInv
<1>2. QED
  BY <1>1, BudgetIsKept, PTL

\* The daemon begins what it has to pay for only while what it has entered today
\* and the estimate fit under the cap.
THEOREM BudgetAdmits == Spec => AdmittedWithinCap
<1> DEFINE Admitted ==
      \A o \in DaemonOps :
          doing[o] \in {"idle", "loop"} /\ Called(o)' /\ kind'[o] # "extract" =>
              guarded - lost[Shared] + Estimate <= DailyCap
<1>1. BudgetInv /\ [Next]_vars => Admitted
  <2> SUFFICES ASSUME BudgetInv, [Next]_vars, NEW o \in DaemonOps,
                      doing[o] \in {"idle", "loop"}, Called(o)', kind'[o] # "extract"
               PROVE  guarded - lost[Shared] + Estimate <= DailyCap
    OBVIOUS
  <2>1. Shared \in Trackers /\ o \in Operations /\ Tracker(o) = Shared
    BY SpendingAssumption DEF Trackers, Operations, Tracker
  <2>2. CASE ~WouldExceedDaily(Shared, Estimate)
    <3>1. /\ charged[Shared] - lost[Shared] <= SpentToday(Shared)
          /\ SpentToday(Shared) \in Nat
      BY <2>1, FilledFromLog
    <3>2. /\ guarded <= charged[Shared]
          /\ guarded \in Nat /\ charged[Shared] \in Nat /\ lost[Shared] \in Nat
      BY <2>1 DEF BudgetInv, BudgetTyped
    <3>3. SpentToday(Shared) + Estimate <= DailyCap
      BY <2>2, <3>1, SpendingAssumption DEF WouldExceedDaily
    <3>4. QED
      BY <3>1, <3>2, <3>3, SpendingAssumption
  <2>3. doing'[o] \in {"expanding", "asking"} /\ doing'[o] # doing[o]
    BY DEF Called
  <2>4. CASE \E p \in Operations : BeginIngest(p) \/ BeginCompound(p) \/ BeginQuery(p)
    <3>1. PICK p \in Operations, k \in Kinds, stage \in {"loop", "expanding", "asking", "idle"} :
                Begin(p, k, stage)
      BY <2>4 DEF BeginIngest, BeginCompound, BeginQuery, Kinds
    <3>2. ~WouldExceedDaily(Shared, Estimate)
      BY <2>3, <3>1 DEF Begin
    <3>3. QED
      BY <2>2, <3>2
  <2>5. CASE \E p \in Operations : NextCluster(p) \/ NextFinding(p)
    <3>1. PICK p \in Operations :
                /\ doing[p] = "loop"
                /\ Becomes(p, kind[p], IF WouldExceedDaily(Tracker(p), Estimate)
                                       THEN "loop" ELSE "asking")
      BY <2>5 DEF NextCluster, NextFinding, NextItem, InLoop
    <3>2. doing' = [doing EXCEPT ![p] = IF WouldExceedDaily(Tracker(p), Estimate)
                                       THEN "loop" ELSE "asking"]
      BY <3>1 DEF Becomes, Stage
    <3>3. p = o
      BY <2>1, <2>3, <3>2 DEF BudgetInv, BudgetTyped
    <3>4. ~WouldExceedDaily(Shared, Estimate)
      BY <2>1, <2>3, <3>1, <3>2, <3>3 DEF BudgetInv, BudgetTyped
    <3>5. QED
      BY <2>2, <3>4
  <2>6. ASSUME NEW p \in Operations, NextPage(p) PROVE FALSE
    <3>1. /\ doing' = [doing EXCEPT ![p] = "asking"]
          /\ kind' = [kind EXCEPT ![p] = "extract"]
      BY <2>6 DEF NextPage, Becomes, Stage
    <3>2. QED
      BY <2>1, <2>3, <3>1 DEF BudgetInv, BudgetTyped
  \* All other steps leave o alone, or where it is not about to call.
  <2>7. ASSUME NEW p \in Operations, NEW stage,
               doing' = [doing EXCEPT ![p] = stage],
               stage \in {"idle", "loop", "settling"} \/ doing[p] \notin {"idle", "loop"}
        PROVE  FALSE
    BY <2>1, <2>3, <2>7 DEF BudgetInv, BudgetTyped
  <2>8. CASE \E p \in Operations : BeginPass(p) \/ BeginExtract(p) \/ NoMoreItems(p)
    BY <2>7, <2>8 DEF BeginPass, BeginExtract, NoMoreItems, Becomes, Stage
  <2>9. CASE \E p \in Operations : ExpansionFails(p) \/ CallFails(p)
    BY <2>7, <2>9 DEF ExpansionFails, CallFails, Goes, Stage
  <2>10. CASE \E p \in Operations : Settled(p) \/ SettledEmpty(p) \/ SettlingThrows(p)
    BY <2>7, <2>10 DEF Settled, SettledEmpty, SettlingThrows, Goes, Stage
  <2>11. CASE \E p \in Operations, c \in Costs :
                 \/ ExpansionAnswered(p, c) \/ QueryAnswered(p, c) \/ IngestAnswered(p, c)
                 \/ ClusterAnswered(p, c) \/ FindingAnswered(p, c) \/ FactsAnswered(p, c)
    BY <2>7, <2>11 DEF ExpansionAnswered, QueryAnswered, IngestAnswered, ClusterAnswered,
                       FindingAnswered, FactsAnswered, Answered, PutToUse, Goes, Stage
  <2>12. CASE DaemonDies \/ \E p \in Passes : PassDies(p)
    BY <2>1, <2>3, <2>12 DEF DaemonDies, PassDies, Dies
  <2>13. CASE NewDay \/ UNCHANGED vars
    BY <2>3, <2>13 DEF NewDay, vars
  <2>14. QED
    BY <2>4, <2>5, <2>6, <2>8, <2>9, <2>10, <2>11, <2>12, <2>13 DEF Next
<1>2. QED
  BY <1>1, BudgetIsKept, PTL DEF Spec, AdmittedWithinCap
-----------------------------------------------------------------------------
(* Sums over finite sets.  SumFunctionOnSet is a recursion over the subsets  *)
(* of a set that takes out one element at a time.  What holds of every such  *)
(* sum is shown by looking at a smallest set of which it does not hold.      *)

\* The element that is taken out first, and a function that unfolds once more.
Pick(S) == CHOOSE x \in S : TRUE
Unfolded(f, g, S) == [T \in SUBSET S |-> IF T = {} THEN 0 ELSE f[Pick(T)] + g[T \ {Pick(T)}]]

\* It is an element.
LEMMA PickIsMember ==
    ASSUME NEW S, S # {}
    PROVE  Pick(S) \in S
BY DEF Pick

\* Among the subsets of a finite set there is a smallest of each kind.
LEMMA SmallestSubset ==
    ASSUME NEW S, IsFiniteSet(S), NEW D \in SUBSET SUBSET S, D # {}
    PROVE  \E M \in D : \A T \in D : T \subseteq M => T = M
<1>1. IsWellFoundedOn(StrictSubsetOrdering(S), SUBSET S)
  BY FS_StrictSubsetOrderingWellFounded, FS_FiniteSubsetsOfFinite
<1>2. PICK M \in D : \A T \in D : ~(<<T, M>> \in StrictSubsetOrdering(S))
  BY <1>1, WFMin
<1>3. ASSUME NEW T \in D, T \subseteq M, T # M  PROVE FALSE
  <2>1. <<T, M>> \in (SUBSET S) \X (SUBSET S)
    OBVIOUS
  <2> QED  BY <1>2, <1>3, <2>1 DEF StrictSubsetOrdering
<1> QED  BY <1>3

\* Two functions that unfold agree where both are defined.
LEMMA UnfoldingIsUnique ==
    ASSUME NEW f, NEW S, IsFiniteSet(S), NEW R \in SUBSET S,
           NEW g, g = Unfolded(f, g, S), NEW h, h = Unfolded(f, h, R)
    PROVE  \A T \in SUBSET R : g[T] = h[T]
<1> DEFINE D == {T \in SUBSET R : g[T] # h[T]}
<1> SUFFICES ASSUME D # {}  PROVE FALSE
  OBVIOUS
<1>1. PICK M \in D : \A T \in D : T \subseteq M => T = M
  <2>1. D \in SUBSET SUBSET S
    OBVIOUS
  <2> HIDE DEF D
  <2> QED  BY <2>1, SmallestSubset
<1>2. M \in SUBSET R /\ M \in SUBSET S /\ g[M] # h[M]
  OBVIOUS
<1>3. M # {}
  BY <1>2 DEF Unfolded
<1>4. g[M] = f[Pick(M)] + g[M \ {Pick(M)}] /\ h[M] = f[Pick(M)] + h[M \ {Pick(M)}]
  BY <1>2, <1>3 DEF Unfolded
<1>5. M \ {Pick(M)} # M /\ M \ {Pick(M)} \in SUBSET R
  BY <1>2, <1>3, PickIsMember
<1>6. g[M \ {Pick(M)}] = h[M \ {Pick(M)}]
  BY <1>1, <1>5
<1> QED  BY <1>2, <1>4, <1>6

\* There is a function that unfolds.
LEMMA UnfoldingExists ==
    ASSUME NEW f, NEW S, IsFiniteSet(S)
    PROVE  \E g : g = Unfolded(f, g, S)
<1> DEFINE Has(T) == \E g : g = Unfolded(f, g, T)
           D == {T \in SUBSET S : ~Has(T)}
<1> SUFFICES ASSUME D # {}  PROVE FALSE
  OBVIOUS
<1>1. PICK M \in D : \A T \in D : T \subseteq M => T = M
  <2>1. D \in SUBSET SUBSET S
    OBVIOUS
  <2> HIDE DEF D
  <2> QED  BY <2>1, SmallestSubset
<1>2. M \in SUBSET S /\ ~Has(M)
  OBVIOUS
<1>3. \A T \in SUBSET M : T # M => Has(T)
  BY <1>1, <1>2
<1> DEFINE G(T) == CHOOSE g : g = Unfolded(f, g, T)
           Value(T) == IF T = {} THEN 0 ELSE f[Pick(T)] + G(T \ {Pick(T)})[T \ {Pick(T)}]
           h == [T \in SUBSET M |-> Value(T)]
<1>4. ASSUME NEW T \in SUBSET M, T # M  PROVE G(T)[T] = Value(T) /\ G(T) = Unfolded(f, G(T), T)
  <2>1. G(T) = Unfolded(f, G(T), T)
    <3> HIDE DEF D
    <3> QED  BY <1>3, <1>4
  <2>2. CASE T = {}
    BY <2>1, <2>2 DEF Unfolded
  <2>3. CASE T # {}
    <3> DEFINE R == T \ {Pick(T)}
    <3>1. R \in SUBSET T /\ R # T /\ R \in SUBSET M /\ R # M
      BY <1>4, <2>3, PickIsMember
    <3>2. G(R) = Unfolded(f, G(R), R)
      <4> HIDE DEF D, R
      <4> QED  BY <1>3, <3>1
    <3>3. IsFiniteSet(T)
      BY <1>2, FS_Subset
    <3>4. G(T)[R] = G(R)[R]
      <4> HIDE DEF G, R, D
      <4> QED  BY <2>1, <3>1, <3>2, <3>3, UnfoldingIsUnique
    <3>5. G(T)[T] = f[Pick(T)] + G(T)[R]
      <4> DEFINE g == G(T)
      <4>1. g = Unfolded(f, g, T)
        BY <2>1
      <4> HIDE DEF g
      <4>2. g[T] = f[Pick(T)] + g[R]
        BY <2>3, <4>1 DEF Unfolded
      <4> QED  BY <4>2 DEF g
    <3> HIDE DEF G
    <3> QED  BY <2>1, <2>3, <3>4, <3>5
  <2> QED  BY <2>1, <2>2, <2>3
<1>5. h = Unfolded(f, h, M)
  <2>1. ASSUME NEW T \in SUBSET M, T # {}
        PROVE  h[T] = f[Pick(T)] + h[T \ {Pick(T)}]
    <3> DEFINE R == T \ {Pick(T)}
    <3>1. R \in SUBSET M /\ R # M
      BY <2>1, PickIsMember
    <3>2. h[T] = f[Pick(T)] + G(R)[R] /\ h[R] = Value(R)
      <4> HIDE DEF G, D
      <4> QED  BY <2>1, <3>1
    <3> HIDE DEF G, Value, R, h, D
    <3>3. G(R)[R] = Value(R)
      BY <1>4, <3>1
    <3>4. h[T] = f[Pick(T)] + h[R]
      BY <3>2, <3>3
    <3> QED  BY <3>4 DEF R
  <2>2. h[{}] = 0
    OBVIOUS
  <2>3. h = [T \in SUBSET M |-> h[T]]
    OBVIOUS
  <2>4. \A T \in SUBSET M : h[T] = IF T = {} THEN 0 ELSE f[Pick(T)] + h[T \ {Pick(T)}]
    <3> HIDE DEF h, D
    <3> QED  BY <2>1, <2>2
  <2> HIDE DEF h, D
  <2> QED  BY <2>3, <2>4 DEF Unfolded
<1> HIDE DEF h, D, Value, G
<1> QED  BY <1>2, <1>5

\* The sum over a finite set, unfolded once.
LEMMA SumUnfolds ==
    ASSUME NEW f, NEW S, IsFiniteSet(S)
    PROVE  /\ SumFunctionOnSet(f, {}) = 0
           /\ S # {} => SumFunctionOnSet(f, S)
                          = f[Pick(S)] + SumFunctionOnSet(f, S \ {Pick(S)})
<1> DEFINE G(T) == CHOOSE g : g = Unfolded(f, g, T)
<1>1. \A T : SumFunctionOnSet(f, T) = G(T)[T]
  BY DEF SumFunctionOnSet, FoldFunctionOnSet, MapThenFoldSet, Unfolded, Pick
<1>2. ASSUME NEW T \in SUBSET S  PROVE G(T) = Unfolded(f, G(T), T)
  <2>1. IsFiniteSet(T)
    BY FS_Subset
  <2>2. \E g : g = Unfolded(f, g, T)
    BY <2>1, UnfoldingExists
  <2> QED  BY <2>2
<1> HIDE DEF G
<1>3. G({})[{}] = 0
  BY <1>2 DEF Unfolded
<1>4. ASSUME S # {}  PROVE G(S)[S] = f[Pick(S)] + G(S \ {Pick(S)})[S \ {Pick(S)}]
  <2> DEFINE R == S \ {Pick(S)}
  <2>1. R \in SUBSET S
    OBVIOUS
  <2>2. G(S)[S] = f[Pick(S)] + G(S)[R]
    BY <1>2, <1>4 DEF Unfolded
  <2>3. G(S) = Unfolded(f, G(S), S) /\ G(R) = Unfolded(f, G(R), R)
    <3> HIDE DEF R
    <3> QED  BY <1>2, <2>1
  <2>4. G(S)[R] = G(R)[R]
    <3> HIDE DEF R
    <3> QED  BY <2>1, <2>3, UnfoldingIsUnique
  <2> QED  BY <2>2, <2>4
<1> QED  BY <1>1, <1>3, <1>4

\* What is summed up are numbers.
Numbers(f, S) == \A x \in S : f[x] \in Int

\* A sum of numbers is one.
LEMMA SumIsNumber ==
    ASSUME NEW f, NEW S, IsFiniteSet(S), Numbers(f, S)
    PROVE  SumFunctionOnSet(f, S) \in Int
<1> DEFINE D == {T \in SUBSET S : SumFunctionOnSet(f, T) \notin Int}
<1> SUFFICES ASSUME D # {}  PROVE FALSE
  OBVIOUS
<1>1. PICK M \in D : \A T \in D : T \subseteq M => T = M
  <2>1. D \in SUBSET SUBSET S
    OBVIOUS
  <2> HIDE DEF D
  <2> QED  BY <2>1, SmallestSubset
<1>2. M \in SUBSET S /\ SumFunctionOnSet(f, M) \notin Int /\ IsFiniteSet(M)
  BY FS_Subset
<1>3. M # {}
  <2>1. SumFunctionOnSet(f, {}) = 0
    BY SumUnfolds
  <2> QED  BY <1>2, <2>1
<1> DEFINE R == M \ {Pick(M)}
<1>4. Pick(M) \in M /\ R # M /\ R \subseteq M /\ R \in SUBSET S
  BY <1>2, <1>3, PickIsMember
<1>5. SumFunctionOnSet(f, R) \in Int
  BY <1>1, <1>4
<1>6. SumFunctionOnSet(f, M) = f[Pick(M)] + SumFunctionOnSet(f, R)
  BY <1>2, <1>3, SumUnfolds
<1>7. f[Pick(M)] \in Int
  BY <1>2, <1>4 DEF Numbers
<1> QED  BY <1>2, <1>5, <1>6, <1>7

\* Any element may be taken out of a sum.
LEMMA SumTakesOut ==
    ASSUME NEW f, NEW S, IsFiniteSet(S), Numbers(f, S), NEW x \in S
    PROVE  SumFunctionOnSet(f, S) = f[x] + SumFunctionOnSet(f, S \ {x})
<1> DEFINE sum(T) == SumFunctionOnSet(f, T)
           D == {T \in SUBSET S : \E y \in T : sum(T) # f[y] + sum(T \ {y})}
<1> SUFFICES ASSUME D # {}  PROVE FALSE
  OBVIOUS
<1>1. PICK M \in D : \A T \in D : T \subseteq M => T = M
  <2>1. D \in SUBSET SUBSET S
    OBVIOUS
  <2> HIDE DEF D
  <2> QED  BY <2>1, SmallestSubset
<1>2. M \in SUBSET S /\ IsFiniteSet(M)
  BY FS_Subset
<1>3. PICK y \in M : sum(M) # f[y] + sum(M \ {y})
  OBVIOUS
<1>4. \A T \in SUBSET M : T # M => \A z \in T : sum(T) = f[z] + sum(T \ {z})
  BY <1>1, <1>2
<1>5. \A T \in SUBSET M : sum(T) \in Int
  <2> SUFFICES ASSUME NEW T \in SUBSET M  PROVE sum(T) \in Int
    OBVIOUS
  <2>1. IsFiniteSet(T) /\ Numbers(f, T)
    BY <1>2, FS_Subset DEF Numbers
  <2> QED  BY <2>1, SumIsNumber
<1> DEFINE p == Pick(M)
<1>6. p \in M /\ sum(M) = f[p] + sum(M \ {p})
  BY <1>2, <1>3, SumUnfolds, PickIsMember
<1>7. p # y
  BY <1>3, <1>6
<1> HIDE DEF p, sum, D
<1>8. sum(M \ {p}) = f[y] + sum((M \ {p}) \ {y})
  BY <1>4, <1>6, <1>7
<1>9. sum(M \ {y}) = f[p] + sum((M \ {y}) \ {p})
  BY <1>4, <1>6, <1>7
<1>10. (M \ {y}) \ {p} = (M \ {p}) \ {y}
  OBVIOUS
<1>11. f[p] \in Int /\ f[y] \in Int /\ sum((M \ {p}) \ {y}) \in Int
  BY <1>2, <1>5, <1>6 DEF Numbers
<1>12. sum(M \ {y}) = f[p] + sum((M \ {p}) \ {y})
  BY <1>9, <1>10
<1>13. sum(M) = f[p] + (f[y] + sum((M \ {p}) \ {y}))
  BY <1>6, <1>8
<1> QED  BY <1>3, <1>11, <1>12, <1>13

\* Sums that agree element by element agree.
LEMMA SumsAgree ==
    ASSUME NEW f, NEW g, NEW S, IsFiniteSet(S), \A x \in S : f[x] = g[x]
    PROVE  SumFunctionOnSet(f, S) = SumFunctionOnSet(g, S)
<1> DEFINE D == {T \in SUBSET S : SumFunctionOnSet(f, T) # SumFunctionOnSet(g, T)}
<1> SUFFICES ASSUME D # {}  PROVE FALSE
  OBVIOUS
<1>1. PICK M \in D : \A T \in D : T \subseteq M => T = M
  <2>1. D \in SUBSET SUBSET S
    OBVIOUS
  <2> HIDE DEF D
  <2> QED  BY <2>1, SmallestSubset
<1>2. M \in SUBSET S /\ IsFiniteSet(M) /\ SumFunctionOnSet(f, M) # SumFunctionOnSet(g, M)
  BY FS_Subset
<1>3. M # {}
  BY <1>2, SumUnfolds
<1> DEFINE R == M \ {Pick(M)}
<1>4. Pick(M) \in M /\ R # M /\ R \subseteq M /\ R \in SUBSET S
  BY <1>2, <1>3, PickIsMember
<1>5. SumFunctionOnSet(f, R) = SumFunctionOnSet(g, R)
  BY <1>1, <1>4
<1>6. /\ SumFunctionOnSet(f, M) = f[Pick(M)] + SumFunctionOnSet(f, R)
      /\ SumFunctionOnSet(g, M) = g[Pick(M)] + SumFunctionOnSet(g, R)
  BY <1>2, <1>3, SumUnfolds
<1> QED  BY <1>2, <1>4, <1>5, <1>6

\* A sum over two sets that have nothing in common.
LEMMA SumSplits ==
    ASSUME NEW f, NEW S, NEW T, IsFiniteSet(S), IsFiniteSet(T), S \cap T = {},
           Numbers(f, S), Numbers(f, T)
    PROVE  SumFunctionOnSet(f, S \cup T) = SumFunctionOnSet(f, S) + SumFunctionOnSet(f, T)
<1> DEFINE sum(R) == SumFunctionOnSet(f, R)
           D == {R \in SUBSET S : sum(R \cup T) # sum(R) + sum(T)}
<1> SUFFICES ASSUME D # {}  PROVE FALSE
  OBVIOUS
<1>1. PICK M \in D : \A R \in D : R \subseteq M => R = M
  <2>1. D \in SUBSET SUBSET S
    OBVIOUS
  <2> HIDE DEF D
  <2> QED  BY <2>1, SmallestSubset
<1>2. M \in SUBSET S /\ IsFiniteSet(M) /\ sum(M \cup T) # sum(M) + sum(T)
  BY FS_Subset
<1>3. sum(T) \in Int /\ sum(M) \in Int
  <2>1. Numbers(f, M)
    BY <1>2 DEF Numbers
  <2> QED  BY <1>2, <2>1, SumIsNumber
<1>4. M # {}
  <2>1. ASSUME M = {}  PROVE FALSE
    <3>1. sum(M) = 0 /\ M \cup T = T
      BY <1>2, <2>1, SumUnfolds
    <3> HIDE DEF sum
    <3> QED  BY <1>2, <1>3, <3>1
  <2> QED  BY <2>1
<1>5. PICK x \in M : TRUE
  BY <1>4
<1> DEFINE R == M \ {x}
<1>6. R \in SUBSET S /\ R # M /\ R \subseteq M /\ (M \cup T) \ {x} = R \cup T
  BY <1>2
<1>7. sum(R \cup T) = sum(R) + sum(T)
  BY <1>1, <1>6
<1>8. IsFiniteSet(M \cup T) /\ Numbers(f, M \cup T) /\ Numbers(f, M) /\ Numbers(f, R)
  BY <1>2, FS_Union DEF Numbers
<1>9. sum(M \cup T) = f[x] + sum((M \cup T) \ {x}) /\ sum(M) = f[x] + sum(R)
  BY <1>2, <1>8, SumTakesOut
<1>10. f[x] \in Int /\ sum(R) \in Int
  <2>1. IsFiniteSet(R)
    BY <1>2, FS_Subset
  <2>2. f[x] \in Int
    BY <1>2 DEF Numbers
  <2> QED  BY <1>8, <2>1, <2>2, SumIsNumber
<1>11. sum(M \cup T) = f[x] + (sum(R) + sum(T)) /\ sum(M) = f[x] + sum(R)
  BY <1>6, <1>7, <1>9
<1> HIDE DEF sum, R, D
<1> QED  BY <1>2, <1>3, <1>10, <1>11

\* One number changes.
LEMMA SumChanges ==
    ASSUME NEW f, NEW g, NEW S, IsFiniteSet(S), Numbers(f, S), NEW x \in S,
           g[x] \in Int, \A y \in S \ {x} : g[y] = f[y]
    PROVE  SumFunctionOnSet(g, S) = SumFunctionOnSet(f, S) - f[x] + g[x]
<1> DEFINE R == S \ {x}
<1>1. IsFiniteSet(R)
  BY FS_Subset
<1>2. SumFunctionOnSet(f, R) = SumFunctionOnSet(g, R)
  BY <1>1, SumsAgree
<1>3. Numbers(g, S) /\ Numbers(f, R) /\ f[x] \in Int
  BY DEF Numbers
<1>4. /\ SumFunctionOnSet(f, S) = f[x] + SumFunctionOnSet(f, R)
      /\ SumFunctionOnSet(g, S) = g[x] + SumFunctionOnSet(g, R)
  BY <1>3, SumTakesOut
<1>5. SumFunctionOnSet(f, R) \in Int
  BY <1>1, <1>3, SumIsNumber
<1> HIDE DEF R
<1> QED  BY <1>2, <1>3, <1>4, <1>5

\* Nothing but zeros.
LEMMA SumOfZeros ==
    ASSUME NEW f, NEW S, IsFiniteSet(S), \A x \in S : f[x] = 0
    PROVE  SumFunctionOnSet(f, S) = 0
<1> DEFINE D == {T \in SUBSET S : SumFunctionOnSet(f, T) # 0}
<1> SUFFICES ASSUME D # {}  PROVE FALSE
  OBVIOUS
<1>1. PICK M \in D : \A T \in D : T \subseteq M => T = M
  <2>1. D \in SUBSET SUBSET S
    OBVIOUS
  <2> HIDE DEF D
  <2> QED  BY <2>1, SmallestSubset
<1>2. M \in SUBSET S /\ IsFiniteSet(M) /\ SumFunctionOnSet(f, M) # 0
  BY FS_Subset
<1>3. M # {}
  BY <1>2, SumUnfolds
<1> DEFINE R == M \ {Pick(M)}
<1>4. Pick(M) \in M /\ R # M /\ R \subseteq M /\ R \in SUBSET S
  BY <1>2, <1>3, PickIsMember
<1>5. SumFunctionOnSet(f, R) = 0
  BY <1>1, <1>4
<1>6. SumFunctionOnSet(f, M) = f[Pick(M)] + SumFunctionOnSet(f, R)
  BY <1>2, <1>3, SumUnfolds
<1> QED  BY <1>2, <1>4, <1>5, <1>6

-----------------------------------------------------------------------------
(* The ledger. *)

\* What an operation still has to enter for an answer of ingestion, and what all
\* of them have.
Due(o) == IF doing[o] = "settling" THEN carried[o] ELSE 0
Owed == InSettlement(Operations)

LedgerInv ==
    /\ answered \in Int
    /\ unlogged \in Int
    /\ twice \in Int
    /\ LedgerIsComplete

LEMMA FinitelyMany ==
  /\ IsFiniteSet(Operations) /\ IsFiniteSet(Trackers)
  /\ \A S : IsFiniteSet(S \cap Settling)
<1>1. IsFiniteSet(Operations) /\ IsFiniteSet(Trackers)
  BY SpendingAssumption, FS_Union, FS_Singleton DEF Operations, Trackers
<1>2. ASSUME NEW S PROVE IsFiniteSet(S \cap Settling)
  <2>1. S \cap Settling \subseteq Operations
    BY DEF Settling
  <2>2. QED
    BY <1>1, <2>1, FS_Subset
<1>3. QED
  BY <1>1, <1>2

\* What is owed by some operations, or entered through trackers, is a number.
LEMMA OwedIsNumber ==
  ASSUME BudgetTyped, NEW S
  PROVE  InSettlement(S) \in Int
<1>1. Numbers(carried, S \cap Settling)
  BY SpendingAssumption DEF BudgetTyped, Settling, Numbers, Costs
<1>2. QED
  BY <1>1, FinitelyMany, SumIsNumber DEF InSettlement

LEMMA TotalIsNumber ==
  ASSUME NEW f \in [Trackers -> Nat]
  PROVE  Total(f) \in Int
<1>1. Numbers(f, Trackers) /\ DOMAIN f = Trackers
  BY DEF Numbers
<1>2. QED
  BY <1>1, FinitelyMany, SumIsNumber DEF Total, SumFunction

\* The operation that moves on changes what is owed by what it is due itself.
LEMMA SettlementStep ==
  ASSUME BudgetTyped, BudgetTyped', NEW o \in Operations, NEW stage,
         doing' = [doing EXCEPT ![o] = stage],
         \A p \in Operations \ {o} : carried'[p] = carried[p]
  PROVE  /\ Owed' = Owed - Due(o) + Due(o)'
         /\ Owed \in Int /\ Owed' \in Int /\ Due(o) \in Int /\ Due(o)' \in Int
<1> DEFINE others == Settling \ {o}
<1>1. /\ IsFiniteSet(others) /\ IsFiniteSet(Settling) /\ IsFiniteSet(Settling')
      /\ Operations \cap Settling = Settling /\ Operations \cap Settling' = Settling'
  <2>1. Settling \subseteq Operations /\ Settling' \subseteq Operations
    BY DEF Settling
  <2>2. QED
    BY <2>1, FinitelyMany, FS_Subset
<1>2. others = Settling' \ {o} /\ o \notin others
  BY DEF Settling, BudgetTyped
<1>3. /\ Numbers(carried, Settling) /\ Numbers(carried', Settling')
      /\ Numbers(carried, others)
      /\ Due(o) \in Int /\ Due(o)' \in Int
  BY SpendingAssumption DEF BudgetTyped, Settling, Numbers, Costs, Due
<1>4. SumFunctionOnSet(carried, others) = SumFunctionOnSet(carried', others)
  <2>1. \A p \in others : carried[p] = carried'[p]
    BY DEF Settling
  <2>2. QED
    BY <1>1, <2>1, SumsAgree
<1>5. SumFunctionOnSet(carried, others) \in Int
  BY <1>1, <1>3, SumIsNumber
<1>6. SumFunctionOnSet(carried, Settling) = Due(o) + SumFunctionOnSet(carried, others)
  <2>1. CASE o \in Settling
    BY <1>1, <1>3, <2>1, SumTakesOut DEF Due, Settling
  <2>2. CASE o \notin Settling
    <3>1. Settling = others /\ Due(o) = 0
      BY <2>2 DEF Due, Settling
    <3>2. QED
      BY <1>5, <3>1
  <2>3. QED BY <2>1, <2>2
<1>7. SumFunctionOnSet(carried', Settling') = Due(o)' + SumFunctionOnSet(carried', others)
  <2>1. CASE o \in Settling'
    <3>1. SumFunctionOnSet(carried', Settling')
            = carried'[o] + SumFunctionOnSet(carried', Settling' \ {o})
      BY <1>1, <1>3, <2>1, SumTakesOut
    <3>2. Due(o)' = carried'[o]
      BY <2>1 DEF Due, Settling
    <3>3. QED
      BY <1>2, <3>1, <3>2
  <2>2. CASE o \notin Settling'
    <3>1. Settling' = others /\ Due(o)' = 0
      BY <1>2, <2>2 DEF Due, Settling
    <3>2. QED
      BY <1>4, <1>5, <3>1
  <2>3. QED BY <2>1, <2>2
<1>8. Owed = SumFunctionOnSet(carried, Settling) /\ Owed' = SumFunctionOnSet(carried', Settling')
  BY <1>1 DEF Owed, InSettlement
<1> HIDE DEF others
<1>9. QED
  BY <1>3, <1>4, <1>5, <1>6, <1>7, <1>8

\* An entry adds up, be it in the log or lost.
LEMMA EntryAddsUp ==
  ASSUME BudgetTyped, NEW o \in Operations, NEW amount \in Nat, LogUsage(o, amount)
  PROVE  /\ Total(charged') = Total(charged) + amount
         /\ file' - Total(charged') + Total(lost') = file - Total(charged) + Total(lost)
         /\ Total(charged) \in Int /\ Total(lost) \in Int /\ Total(lost') \in Int
<1> DEFINE t == Tracker(o)
<1>1. t \in Trackers
  BY DEF Tracker, Trackers, Operations
<1>2. ASSUME NEW f \in [Trackers -> Nat], NEW g, g = [f EXCEPT ![t] = @ + amount]
      PROVE  Total(g) = Total(f) + amount
  <2>1. /\ Numbers(f, Trackers) /\ DOMAIN f = Trackers /\ DOMAIN g = Trackers
        /\ f[t] \in Int /\ g[t] = f[t] + amount /\ g[t] \in Int
        /\ \A u \in Trackers \ {t} : g[u] = f[u]
    BY <1>1, <1>2 DEF Numbers
  <2>2. SumFunctionOnSet(g, Trackers) = SumFunctionOnSet(f, Trackers) - f[t] + g[t]
    BY <1>1, <2>1, FinitelyMany, SumChanges
  <2>3. SumFunctionOnSet(f, Trackers) \in Int
    BY <2>1, FinitelyMany, SumIsNumber
  <2>4. QED
    BY <2>1, <2>2, <2>3 DEF Total, SumFunction
<1>4. Total(charged') = Total(charged) + amount
  BY <1>2 DEF LogUsage, BudgetTyped
<1>5. \/ file' = file /\ lost' = [lost EXCEPT ![t] = @ + amount]
      \/ file' = file + amount /\ lost' = lost
  BY DEF LogUsage, Appended
<1>6. \/ file' = file /\ Total(lost') = Total(lost) + amount
      \/ file' = file + amount /\ Total(lost') = Total(lost)
  BY <1>2, <1>5 DEF BudgetTyped
<1>7. Total(charged) \in Int /\ Total(lost) \in Int /\ file \in Int
  BY TotalIsNumber DEF BudgetTyped
<1>8. QED
  BY <1>4, <1>6, <1>7

\* An operation moves on, enters an amount or nothing, and the bill changes by
\* what was entered and what has become due.
LEMMA LedgerStep ==
  ASSUME BudgetInv, BudgetInv', LedgerInv, NEW o \in Operations,
         NEW k, NEW stage, Stage(o, k, stage),
         \A p \in Operations \ {o} : carried'[p] = carried[p],
         NEW amount \in Nat, LogUsage(o, amount) \/ (amount = 0 /\ UNCHANGED ledger),
         answered' \in Int, twice' \in Int, unlogged' \in Int,
         answered' + twice' - unlogged'
           = answered + twice - unlogged + amount - Due(o) + Due(o)'
  PROVE  LedgerInv'
<1>1. /\ Owed' = Owed - Due(o) + Due(o)'
      /\ Owed \in Int /\ Owed' \in Int /\ Due(o) \in Int /\ Due(o)' \in Int
  BY SettlementStep DEF BudgetInv, Stage
<1>2. /\ answered + twice = Total(charged) + unlogged + Owed
      /\ file = Total(charged) - Total(lost)
      /\ answered \in Int /\ twice \in Int /\ unlogged \in Int
      /\ file \in Int /\ file' \in Int
  BY DEF LedgerInv, LedgerIsComplete, Owed, BudgetInv, BudgetTyped
<1>3. Total(charged) \in Int /\ Total(lost) \in Int
  BY TotalIsNumber DEF BudgetInv, BudgetTyped
<1>4. /\ Total(charged') = Total(charged) + amount
      /\ file' = Total(charged') - Total(lost')
  <2>1. CASE LogUsage(o, amount)
    <3>1. /\ Total(charged') = Total(charged) + amount
          /\ file' - Total(charged') + Total(lost') = file - Total(charged) + Total(lost)
          /\ Total(lost') \in Int
      BY <2>1, EntryAddsUp DEF BudgetInv
    <3>2. QED
      BY <1>2, <1>3, <3>1
  <2>2. CASE amount = 0 /\ UNCHANGED ledger
    BY <1>2, <1>3, <2>2 DEF ledger
  <2>3. QED BY <2>1, <2>2
<1>5. answered' + twice' = Total(charged') + unlogged' + Owed'
  <2>1. answered' + twice' - unlogged' = (Total(charged) + amount) + Owed'
    BY <1>1, <1>2, <1>3
  <2>2. QED
    BY <1>1, <1>3, <1>4, <2>1
<1>6. LedgerIsComplete'
  BY <1>4, <1>5 DEF LedgerIsComplete, Owed, Total
<1>7. QED
  BY <1>6 DEF LedgerInv

\* Nothing is owed, entered or billed.
LEMMA IdleLedgerStep ==
  ASSUME BudgetInv, BudgetInv', LedgerInv, NEW o \in Operations,
         NEW k, NEW stage, Stage(o, k, stage), doing[o] # "settling", stage # "settling",
         \A p \in Operations \ {o} : carried'[p] = carried[p],
         UNCHANGED <<ledger, bill>>
  PROVE  LedgerInv'
<1>1. doing'[o] = stage
  BY DEF Stage, BudgetInv, BudgetTyped
<1>2. Due(o) = 0 /\ Due(o)' = 0
  BY <1>1 DEF Due
<1>3. /\ answered' = answered /\ twice' = twice /\ unlogged' = unlogged
      /\ answered \in Int /\ twice \in Int /\ unlogged \in Int
      /\ UNCHANGED ledger /\ 0 \in Nat
  BY DEF bill, LedgerInv
<1>4. answered' + twice' - unlogged'
        = answered + twice - unlogged + 0 - Due(o) + Due(o)'
  BY <1>2, <1>3
<1>5. QED
  BY <1>3, <1>4, LedgerStep

\* Nothing that the ledger depends on changes.
LEMMA LedgerRests ==
  ASSUME LedgerInv, UNCHANGED <<doing, carried, ledger, bill>>
  PROVE  LedgerInv'
<1>1. UNCHANGED <<doing, carried, file, charged, lost, answered, unlogged, twice>>
  BY DEF ledger, bill
<1>2. Settling' = Settling
  BY <1>1 DEF Settling
<1>3. InSettlement(Operations)' = InSettlement(Operations)
  BY <1>1, <1>2 DEF InSettlement
<1>4. QED
  BY <1>1, <1>3 DEF LedgerInv, LedgerIsComplete, Total

\* The steps of one operation.
LEMMA OperationLedgerStep ==
  ASSUME BudgetInv, BudgetInv', LedgerInv, NEW o \in Operations,
         \/ BeginIngest(o) \/ BeginCompound(o) \/ BeginQuery(o)
         \/ BeginPass(o) \/ BeginExtract(o)
         \/ NextCluster(o) \/ NextFinding(o) \/ NextPage(o) \/ NoMoreItems(o)
         \/ ExpansionFails(o) \/ CallFails(o)
  PROVE  LedgerInv'
<1>1. ASSUME NEW k, NEW stage \in {"idle", "loop", "expanding", "asking"},
             Becomes(o, k, stage), doing[o] # "settling"
      PROVE  LedgerInv'
  BY <1>1, IdleLedgerStep DEF Becomes
<1>2. ASSUME NEW k, NEW stage \in {"idle", "loop", "expanding", "asking"}, Begin(o, k, stage)
      PROVE  LedgerInv'
  BY <1>1, <1>2, LedgerRests DEF Begin
<1>3. CASE BeginIngest(o) \/ BeginCompound(o) \/ BeginQuery(o)
  BY <1>2, <1>3 DEF BeginIngest, BeginCompound, BeginQuery
<1>4. CASE BeginPass(o) \/ BeginExtract(o)
  BY <1>1, <1>4 DEF BeginPass, BeginExtract
<1>5. CASE NextCluster(o) \/ NextFinding(o) \/ NextPage(o) \/ NoMoreItems(o)
  BY <1>1, <1>5 DEF NextCluster, NextFinding, NextPage, NoMoreItems, NextItem, InLoop
<1>6. ASSUME NEW stage \in {"idle", "loop", "asking"}, Goes(o, stage, 0),
             doing[o] # "settling", UNCHANGED <<ledger, bill>>
      PROVE  LedgerInv'
  BY <1>6, IdleLedgerStep DEF Goes, BudgetInv, BudgetTyped
<1>7. CASE ExpansionFails(o) \/ CallFails(o)
  BY <1>6, <1>7 DEF ExpansionFails, CallFails
<1>8. QED
  BY <1>3, <1>4, <1>5, <1>7

\* The steps of one operation that answer a call, enter it, or never will.
LEMMA AnswerLedgerStep ==
  ASSUME BudgetInv, BudgetInv', LedgerInv, NEW o \in Operations,
         \/ Settled(o) \/ SettledEmpty(o) \/ SettlingThrows(o)
         \/ \E c \in Costs :
               \/ ExpansionAnswered(o, c) \/ QueryAnswered(o, c) \/ IngestAnswered(o, c)
               \/ ClusterAnswered(o, c) \/ FindingAnswered(o, c) \/ FactsAnswered(o, c)
  PROVE  LedgerInv'
<1>1. /\ Costs \subseteq Nat /\ carried[o] \in Nat
      /\ answered \in Int /\ twice \in Int /\ unlogged \in Int
  BY SpendingAssumption DEF Costs, BudgetInv, BudgetTyped, LedgerInv
<1>2. ASSUME NEW stage, NEW sum, Goes(o, stage, sum)
      PROVE  /\ Stage(o, kind[o], stage)
             /\ \A p \in Operations \ {o} : carried'[p] = carried[p]
             /\ Due(o)' = IF stage = "settling" THEN sum ELSE 0
  BY <1>2 DEF Goes, Stage, Due, BudgetInv, BudgetTyped
<1>3. CASE Settled(o) \/ SettledEmpty(o)
  <2> DEFINE stage == IF kind[o] = "compound" THEN "loop" ELSE "idle"
  <2>1. Goes(o, stage, 0) /\ Due(o) = carried[o] /\ UNCHANGED bill
    BY <1>3 DEF Settled, SettledEmpty, Due
  <2>2. LogUsage(o, carried[o]) \/ (carried[o] = 0 /\ UNCHANGED ledger)
    BY <1>1, <1>3 DEF Settled, SettledEmpty
  <2>3. /\ Stage(o, kind[o], stage) /\ Due(o)' = 0
        /\ \A p \in Operations \ {o} : carried'[p] = carried[p]
    BY <1>2, <2>1
  <2>4. answered' = answered /\ twice' = twice /\ unlogged' = unlogged
    BY <2>1 DEF bill
  <2>5. answered' + twice' - unlogged'
          = answered + twice - unlogged + carried[o] - Due(o) + Due(o)'
    BY <1>1, <2>1, <2>3, <2>4
  <2>6. QED
    BY <1>1, <2>2, <2>3, <2>4, <2>5, LedgerStep
<1>4. CASE SettlingThrows(o)
  <2>1. /\ Goes(o, "idle", 0) /\ Due(o) = carried[o] /\ UNCHANGED ledger
        /\ answered' = answered /\ twice' = twice /\ unlogged' = unlogged + carried[o]
    BY <1>4 DEF SettlingThrows, Due
  <2>2. /\ Stage(o, kind[o], "idle") /\ Due(o)' = 0
        /\ \A p \in Operations \ {o} : carried'[p] = carried[p]
    BY <1>2, <2>1
  <2>3. /\ answered' + twice' - unlogged'
             = answered + twice - unlogged + 0 - Due(o) + Due(o)'
        /\ answered' \in Int /\ twice' \in Int /\ unlogged' \in Int /\ 0 \in Nat
    BY <1>1, <2>1, <2>2
  <2>4. QED
    BY <2>1, <2>2, <2>3, LedgerStep
<1>5. ASSUME NEW c \in Costs, IngestAnswered(o, c) \/ ClusterAnswered(o, c) PROVE LedgerInv'
  <2>1. /\ Goes(o, "settling", c) /\ Due(o) = 0 /\ UNCHANGED ledger
        /\ answered' = answered + c /\ twice' = twice /\ unlogged' = unlogged
    BY <1>5 DEF IngestAnswered, ClusterAnswered, PutToUse, Billed, Due
  <2>2. /\ Stage(o, kind[o], "settling") /\ Due(o)' = c
        /\ \A p \in Operations \ {o} : carried'[p] = carried[p]
    BY <1>2, <2>1
  <2>3. /\ answered' + twice' - unlogged'
             = answered + twice - unlogged + 0 - Due(o) + Due(o)'
        /\ answered' \in Int /\ twice' \in Int /\ unlogged' \in Int /\ 0 \in Nat
    BY <1>1, <2>1, <2>2
  <2>4. QED
    BY <2>1, <2>2, <2>3, LedgerStep
<1>6. ASSUME NEW c \in Costs, ExpansionAnswered(o, c) PROVE LedgerInv'
  <2>1. PICK stage \in {"asking", "idle"}, sum \in {0, c} :
               Goes(o, stage, IF stage = "idle" THEN 0 ELSE sum)
    BY <1>6 DEF ExpansionAnswered
  <2>2. /\ Due(o) = 0 /\ LogUsage(o, c)
        /\ answered' = answered + c /\ twice' = twice /\ unlogged' = unlogged
    BY <1>6 DEF ExpansionAnswered, Billed, Due
  <2>3. /\ Stage(o, kind[o], stage) /\ Due(o)' = 0
        /\ \A p \in Operations \ {o} : carried'[p] = carried[p]
    BY <1>2, <2>1
  <2>4. /\ answered' + twice' - unlogged'
             = answered + twice - unlogged + c - Due(o) + Due(o)'
        /\ answered' \in Int /\ twice' \in Int /\ unlogged' \in Int /\ c \in Nat
    BY <1>1, <2>2, <2>3
  <2>5. QED
    BY <2>2, <2>3, <2>4, LedgerStep
<1>7. ASSUME NEW c \in Costs, NEW k, NEW stage \in {"idle", "loop"}, Answered(o, k, c, stage)
      PROVE  LedgerInv'
  <2>1. /\ Goes(o, stage, 0) /\ Due(o) = 0 /\ LogUsage(o, c + carried[o])
        /\ answered' = answered + c /\ twice' = twice + carried[o] /\ unlogged' = unlogged
    BY <1>7 DEF Answered, Billed, Due
  <2>2. /\ Stage(o, kind[o], stage) /\ Due(o)' = 0
        /\ \A p \in Operations \ {o} : carried'[p] = carried[p]
    BY <1>2, <2>1
  <2>3. /\ answered' + twice' - unlogged'
             = answered + twice - unlogged + (c + carried[o]) - Due(o) + Due(o)'
        /\ answered' \in Int /\ twice' \in Int /\ unlogged' \in Int /\ c + carried[o] \in Nat
    BY <1>1, <2>1, <2>2
  <2>4. QED
    BY <2>1, <2>2, <2>3, LedgerStep
<1>8. QED
  BY <1>3, <1>4, <1>5, <1>6, <1>7
    DEF QueryAnswered, FindingAnswered, FactsAnswered

\* What is owed by those who die will never be entered.
LEMMA DeathLedgerStep ==
  ASSUME BudgetInv, BudgetInv', LedgerInv, NEW S \in SUBSET Operations, NEW t, Dies(S, t)
  PROVE  LedgerInv'
<1> DEFINE others == Settling \ S
<1>1. /\ IsFiniteSet(others) /\ IsFiniteSet(S \cap Settling)
      /\ Operations \cap Settling = (S \cap Settling) \cup others
      /\ (S \cap Settling) \cap others = {}
  <2>1. IsFiniteSet(Settling) /\ Settling \subseteq Operations
    <3>1. Settling \subseteq Operations
      BY DEF Settling
    <3>2. QED
      BY <3>1, FinitelyMany, FS_Subset
  <2>2. QED
    BY <2>1, FS_Subset
<1>2. /\ doing' = [o \in Operations |-> IF o \in S THEN "idle" ELSE doing[o]]
      /\ carried' = [o \in Operations |-> IF o \in S THEN 0 ELSE carried[o]]
      /\ unlogged' = unlogged + InSettlement(S)
      /\ UNCHANGED <<ledger, answered, twice>>
  BY DEF Dies
<1>3. Operations \cap Settling' = others /\ \A o \in others : carried[o] = carried'[o]
  BY <1>2 DEF Settling
<1>4. /\ Numbers(carried, S \cap Settling) /\ Numbers(carried, others)
  BY SpendingAssumption DEF BudgetInv, BudgetTyped, Settling, Numbers, Costs
<1>5. InSettlement(Operations) = InSettlement(S) + SumFunctionOnSet(carried, others)
  BY <1>1, <1>4, SumSplits DEF InSettlement
<1>6. InSettlement(Operations)' = SumFunctionOnSet(carried, others)
  <2>1. InSettlement(Operations)' = SumFunctionOnSet(carried', others)
    BY <1>3 DEF InSettlement
  <2>2. SumFunctionOnSet(carried, others) = SumFunctionOnSet(carried', others)
    BY <1>1, <1>3, SumsAgree
  <2>3. QED
    BY <2>1, <2>2
<1>7. /\ InSettlement(S) \in Int /\ SumFunctionOnSet(carried, others) \in Int
      /\ unlogged \in Int /\ answered \in Int /\ twice \in Int
  BY <1>1, <1>4, OwedIsNumber, SumIsNumber DEF LedgerInv, BudgetInv
<1>8. UNCHANGED <<file, charged, lost, answered, twice>>
  BY <1>2 DEF ledger
<1> HIDE DEF others
<1>9. Total(charged) \in Int
  BY TotalIsNumber DEF BudgetInv, BudgetTyped
<1>10. /\ answered + twice = Total(charged) + unlogged + InSettlement(Operations)
       /\ file = Total(charged) - Total(lost)
  BY DEF LedgerInv, LedgerIsComplete
<1>11. answered' + twice' = Total(charged') + unlogged' + InSettlement(Operations)'
  <2>1. answered + twice
          = Total(charged) + (unlogged + InSettlement(S)) + SumFunctionOnSet(carried, others)
    BY <1>5, <1>7, <1>9, <1>10
  <2>2. QED
    BY <1>2, <1>6, <1>8, <2>1
<1>12. file' = Total(charged') - Total(lost') /\ unlogged' \in Int
  BY <1>2, <1>7, <1>8, <1>10
<1>13. QED
  BY <1>7, <1>8, <1>11, <1>12 DEF LedgerInv, LedgerIsComplete, Total

\* A new day starts with what is owed.
LEMMA MidnightLedgerStep ==
  ASSUME BudgetInv, BudgetInv', LedgerInv, NewDay
  PROVE  LedgerInv'
<1>1. /\ UNCHANGED <<doing, carried>>
      /\ file' = 0 /\ unlogged' = 0 /\ twice' = 0
      /\ answered' = InSettlement(Operations)
      /\ charged' = [t \in Trackers |-> 0] /\ lost' = [t \in Trackers |-> 0]
  BY DEF NewDay
<1>2. Total(charged)' = 0 /\ Total(lost)' = 0
  BY <1>1, FinitelyMany, SumOfZeros DEF Total, SumFunction
<1>3. InSettlement(Operations)' = InSettlement(Operations)
  <2>1. Settling' = Settling
    BY <1>1 DEF Settling
  <2>2. QED
    BY <1>1, <2>1 DEF InSettlement
<1>4. InSettlement(Operations) \in Int
  BY OwedIsNumber DEF BudgetInv
<1>5. QED
  BY <1>1, <1>2, <1>3, <1>4 DEF LedgerInv, LedgerIsComplete

\* Whatever a call of the day cost is entered, is about to be, or is accounted
\* for as never entered; what was entered twice is; and the log holds what was
\* entered and not lost.
THEOREM LedgerStaysComplete == Spec => []LedgerIsComplete
<1>1. Init => LedgerInv
  <2> SUFFICES ASSUME Init PROVE LedgerInv
    OBVIOUS
  <2>1. Total(charged) = 0 /\ Total(lost) = 0
    BY FinitelyMany, SumOfZeros DEF Init, Total, SumFunction
  <2>2. InSettlement(Operations) = 0
    <3>1. Operations \cap Settling = {}
      BY DEF Init, Settling
    <3>2. QED
      BY <3>1, FS_EmptySet, SumOfZeros DEF InSettlement
  <2>3. QED
    BY <2>1, <2>2 DEF Init, LedgerInv, LedgerIsComplete
<1>2. LedgerInv /\ BudgetInv /\ BudgetInv' /\ [Next]_vars => LedgerInv'
  <2> SUFFICES ASSUME LedgerInv, BudgetInv, BudgetInv', [Next]_vars PROVE LedgerInv'
    OBVIOUS
  <2>1. CASE DaemonDies \/ \E p \in Passes : PassDies(p)
    BY <2>1, DeathLedgerStep DEF DaemonDies, PassDies, Operations
  <2>2. CASE NewDay
    BY <2>2, MidnightLedgerStep
  <2>3. CASE UNCHANGED vars
    BY <2>3, LedgerRests DEF vars, ledger, bill
  <2>4. QED
    BY <2>1, <2>2, <2>3, OperationLedgerStep, AnswerLedgerStep DEF Next
<1>3. LedgerInv => LedgerIsComplete
  BY DEF LedgerInv
<1>4. QED
  BY <1>1, <1>2, <1>3, BudgetIsKept, PTL DEF Spec
=============================================================================
