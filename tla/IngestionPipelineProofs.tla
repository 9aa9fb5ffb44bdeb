------------------------ MODULE IngestionPipelineProofs ------------------------
(***************************************************************************)
(* Theorems about IngestionPipeline for any set of files, batch size,      *)
(* length of the queue, budget, faults, and number of saves and restarts.  *)
(*                                                                         *)
(* Both are about what may still be under way.  An edit that the agent has *)
(* not been shown is in an event, in the debounce window or in a batch     *)
(* that has not begun; a deletion that has not reached the wiki is in one  *)
(* of these too, and in a place behind every add of its path.              *)
(***************************************************************************)
EXTENDS IngestionPipeline, SequenceTheorems, TLAPS

Batches == [adds : SUBSET Files, deletes : SUBSET Files]
Running == job.stage # "idle"

FlowTypes ==
    /\ present \subseteq Files /\ unreported \subseteq Files
    /\ version \in [Files -> Nat] /\ hashes \in [Files -> Nat] /\ answered \in [Files -> Nat]
    /\ \A f \in Files : hashes[f] <= version[f]
    /\ pending \in Batches /\ queue \in Seq(Batches)
    /\ job \in [stage : Stages, seen : [Files -> Nat], left : SUBSET Files]
    /\ page \in [Files -> [from : Nat, status : {"none", "active", "orphaned"}]]

\* A batch is worked off at the head of the queue: what it shows and writes are
\* paths it adds, and what it notes is archived.
JobInv ==
    /\ ~Running => job = Idle
    /\ Running =>
        /\ queue # <<>>
        /\ \A f \in Files : job.seen[f] # 0 => f \in Batch.adds
        /\ job.stage = "write" => job.left \subseteq Batch.adds
        /\ job.stage = "note" => \A g \in job.left : page[g].status = "orphaned"

\* What f holds now is still to be put to the agent.
Waiting == {i \in 1 .. Len(queue) : i > 1 \/ ~Running}
Announced(f) ==
    \/ f \in unreported /\ hashes[f] # version[f]
    \/ f \in pending.adds
    \/ \E i \in Waiting : f \in queue[i].adds

ShownInv ==
    \A f \in present \ unsettled :
        /\ Running /\ f \in Batch.adds => Announced(f) \/ job.seen[f] = version[f]
        /\ f \in processed =>
              Announced(f) \/ answered[f] = version[f] \/ (Running /\ f \in Batch.adds)

\* The deletion of f is under way, behind the first n batches.
Unlinked(f, n) ==
    \/ f \in unreported \cup pending.deletes
    \/ \E j \in 1 .. Len(queue) : j > n /\ f \in queue[j].deletes

\* A batch whose deletions have been carried out.
Archived == IF job.stage = "note" THEN 1 ELSE 0

DeletionInv ==
    \A f \in Files \ (present \cup dropped) :
        /\ f \in pending.adds => f \in unreported
        /\ \A i \in 1 .. Len(queue) : f \in queue[i].adds => Unlinked(f, i)
        /\ <<f, f>> \in attributed /\ page[f].status = "active" => Unlinked(f, Archived)

PipelineInv == FlowTypes /\ JobInv /\ ShownInv /\ DeletionInv
-----------------------------------------------------------------------------
\* What a step of the watcher does to the batches: it adds the paths of A, which
\* supersede deletions, and deletes those of D, which supersede adds.  Some
\* batches may reach their cap on the way, and join the queue.
Joined == (Len(queue) + 1) .. Len(queue')
Grown(A, D) ==
    /\ pending' \in Batches /\ queue' \in Seq(Batches)
    /\ Len(queue) <= Len(queue')
    /\ \A i \in 1 .. Len(queue) : queue'[i] = queue[i]
    /\ pending'.adds \cup UNION {queue'[i].adds : i \in Joined} = (pending.adds \ D) \cup A
    /\ (pending.deletes \ A) \cup D
         \subseteq pending'.deletes \cup UNION {queue'[i].deletes : i \in Joined}

LEMMA NotGrown ==
  ASSUME FlowTypes, UNCHANGED <<pending, queue>>
  PROVE  Grown({}, {})
<1>1. Len(queue) \in Nat /\ Joined = {}
  BY DEF FlowTypes, Joined
<1> QED
  BY <1>1 DEF FlowTypes, Grown

LEMMA FlushGrown ==
  ASSUME FlowTypes, NEW b \in Batches, pending' = NoPaths, queue' = Append(queue, b)
  PROVE  /\ pending' \in Batches /\ queue' \in Seq(Batches) /\ Len(queue) <= Len(queue')
         /\ \A i \in 1 .. Len(queue) : queue'[i] = queue[i]
         /\ Joined = {Len(queue')} /\ queue'[Len(queue')] = b
<1>1. queue \in Seq(Batches) /\ Len(queue) \in Nat
  BY DEF FlowTypes
<1>2. /\ queue' \in Seq(Batches) /\ Len(queue') = Len(queue) + 1
      /\ \A i \in 1 .. Len(queue) : queue'[i] = queue[i]
      /\ queue'[Len(queue) + 1] = b
  BY <1>1, AppendProperties
<1>3. Joined = {Len(queue')}
  BY <1>1, <1>2 DEF Joined
<1>4. pending' \in Batches
  BY DEF NoPaths, Batches
<1> QED
  BY <1>1, <1>2, <1>3, <1>4

\* registerEvent(), for one path.
LEMMA RegisteredGrown ==
  ASSUME FlowTypes, NEW A \in SUBSET Files, NEW D \in SUBSET Files, A \cap D = {},
         Adopted(Registered([pending |-> [adds |-> (pending.adds \ D) \cup A,
                                          deletes |-> (pending.deletes \ A) \cup D],
                             queue |-> queue]))
  PROVE  Grown(A, D)
<1> DEFINE b == [adds |-> (pending.adds \ D) \cup A, deletes |-> (pending.deletes \ A) \cup D]
<1>1. b \in Batches
  BY DEF FlowTypes, Batches
<1>2. \/ pending' = b /\ queue' = queue
      \/ pending' = NoPaths /\ queue' = Append(queue, b)
  BY DEF Adopted, Registered
<1>3. CASE pending' = b /\ queue' = queue
  <2>1. Len(queue) \in Nat /\ Joined = {}
    BY <1>3 DEF FlowTypes, Joined
  <2> QED
    BY <1>1, <1>3, <2>1 DEF FlowTypes, Grown
<1>4. CASE pending' = NoPaths /\ queue' = Append(queue, b)
  BY <1>1, <1>4, FlushGrown DEF Grown, NoPaths
<1> QED
  BY <1>2, <1>3, <1>4

LEMMA FlushGrows ==
  ASSUME FlowTypes, Flush
  PROVE  Grown({}, {})
<1>1. pending \in Batches /\ pending' = NoPaths /\ queue' = Append(queue, pending)
  BY DEF Flush, FlowTypes
<1>2. /\ pending' \in Batches /\ queue' \in Seq(Batches) /\ Len(queue) <= Len(queue')
      /\ \A i \in 1 .. Len(queue) : queue'[i] = queue[i]
      /\ Joined = {Len(queue')} /\ queue'[Len(queue')] = pending
  BY <1>1, FlushGrown
<1>3. /\ UNION {queue'[i].adds : i \in Joined} = pending.adds
      /\ UNION {queue'[i].deletes : i \in Joined} = pending.deletes
  BY <1>2
<1> QED
  BY <1>1, <1>2, <1>3 DEF Grown, NoPaths

\* startReconciliation(): no file falls between two batches.
LEMMA ReconcileGrows ==
  ASSUME FlowTypes, Reconcile
  PROVE  Grown(Unprocessed, {})
<1> DEFINE taken(turn, i) == {f \in Unprocessed : turn[f] = i}
           batch(turn, i) == IF i = 1
                             THEN [adds |-> pending.adds \cup taken(turn, 1),
                                   deletes |-> pending.deletes \ taken(turn, 1)]
                             ELSE [adds |-> taken(turn, i), deletes |-> {}]
<1>1. PICK n \in 0 .. Cardinality(Unprocessed) : \E turn \in [Unprocessed -> 1 .. n + 1] :
          /\ queue' = queue \o [i \in 1 .. n |-> batch(turn, i)]
          /\ pending' = batch(turn, n + 1)
  BY DEF Reconcile
<1>2. PICK turn \in [Unprocessed -> 1 .. n + 1] :
          /\ queue' = queue \o [i \in 1 .. n |-> batch(turn, i)]
          /\ pending' = batch(turn, n + 1)
  BY <1>1
<1> DEFINE bt == [i \in 1 .. n + 1 |-> batch(turn, i)]
           more == [i \in 1 .. n |-> bt[i]]
<1>3. Unprocessed \subseteq Files
  BY DEF Unprocessed, FlowTypes
<1>4. n \in Nat /\ queue \in Seq(Batches) /\ Len(queue) \in Nat
  BY DEF FlowTypes
<1>5. \A i \in 1 .. n + 1 : bt[i] = batch(turn, i)
  OBVIOUS
<1>6. \A i \in 1 .. n + 1 :
         /\ bt[i] \in Batches
         /\ taken(turn, i) \subseteq bt[i].adds
         /\ bt[i].adds \subseteq pending.adds \cup Unprocessed
         /\ i = 1 => /\ pending.adds \subseteq bt[i].adds
                     /\ pending.deletes \ Unprocessed \subseteq bt[i].deletes
  BY <1>3, <1>5 DEF FlowTypes, Batches
<1>7. queue' = queue \o more /\ pending' = bt[n + 1]
  <2>1. [i \in 1 .. n |-> batch(turn, i)] = more
    BY <1>4, <1>5
  <2>2. n + 1 \in 1 .. n + 1
    BY <1>4
  <2> HIDE DEF batch, bt, more
  <2>3. batch(turn, n + 1) = bt[n + 1]
    BY <1>5, <2>2
  <2> QED
    BY <1>2, <2>1, <2>3
<1>8. \A f \in Unprocessed : turn[f] \in 1 .. n + 1 /\ f \in taken(turn, turn[f])
  OBVIOUS
<1> HIDE DEF bt, batch, taken
<1>9. more \in Seq(Batches) /\ Len(more) = n /\ \A i \in 1 .. n : more[i] = bt[i]
  <2>1. more \in [1 .. n -> Batches]
    BY <1>4, <1>6
  <2> QED
    BY <1>4, <2>1
<1> HIDE DEF more
<1>10. /\ queue' \in Seq(Batches) /\ Len(queue') = Len(queue) + n
       /\ \A i \in 1 .. Len(queue) : queue'[i] = queue[i]
       /\ \A i \in Joined : i - Len(queue) \in 1 .. n /\ queue'[i] = more[i - Len(queue)]
  <2>1. /\ queue' \in Seq(Batches) /\ Len(queue') = Len(queue) + n
        /\ \A i \in 1 .. Len(queue) + n :
              queue'[i] = IF i <= Len(queue) THEN queue[i] ELSE more[i - Len(queue)]
    BY <1>4, <1>7, <1>9, ConcatProperties
  <2>2. \A i \in Joined : i \in 1 .. Len(queue) + n /\ i > Len(queue) /\ i - Len(queue) \in 1 .. n
    BY <1>4, <2>1 DEF Joined
  <2>3. \A i \in Joined : queue'[i] = more[i - Len(queue)]
    BY <1>4, <2>1, <2>2
  <2>4. \A i \in 1 .. Len(queue) : queue'[i] = queue[i]
    BY <1>4, <2>1
  <2> QED
    BY <2>1, <2>2, <2>3, <2>4
<1>11. \A i \in Joined : queue'[i] = bt[i - Len(queue)]
  BY <1>9, <1>10
<1>12. \A i \in 1 .. n : Len(queue) + i \in Joined /\ queue'[Len(queue) + i] = bt[i]
  <2> SUFFICES ASSUME NEW i \in 1 .. n
               PROVE  Len(queue) + i \in Joined /\ queue'[Len(queue) + i] = bt[i]
    OBVIOUS
  <2>1. Len(queue) + i \in Joined
    BY <1>4, <1>10 DEF Joined
  <2>2. queue'[Len(queue) + i] = bt[(Len(queue) + i) - Len(queue)]
    BY <1>11, <2>1
  <2>3. (Len(queue) + i) - Len(queue) = i
    BY <1>4
  <2> QED
    BY <2>1, <2>2, <2>3
<1> DEFINE adds == pending'.adds \cup UNION {queue'[i].adds : i \in Joined}
           deletes == pending'.deletes \cup UNION {queue'[i].deletes : i \in Joined}
<1>13. \A i \in 1 .. n + 1 : bt[i].adds \subseteq adds /\ bt[i].deletes \subseteq deletes
  <2> SUFFICES ASSUME NEW i \in 1 .. n + 1
               PROVE  bt[i].adds \subseteq adds /\ bt[i].deletes \subseteq deletes
    OBVIOUS
  <2>1. CASE i = n + 1
    BY <1>7, <2>1
  <2>2. CASE i \in 1 .. n
    <3>1. Len(queue) + i \in Joined /\ queue'[Len(queue) + i] = bt[i]
      BY <1>12, <2>2
    <3> QED
      BY <3>1
  <2> QED
    BY <1>4, <2>1, <2>2
<1>14. adds \subseteq pending.adds \cup Unprocessed
  <2>1. pending'.adds \subseteq pending.adds \cup Unprocessed
    BY <1>4, <1>6, <1>7
  <2>2. ASSUME NEW i \in Joined
        PROVE  queue'[i].adds \subseteq pending.adds \cup Unprocessed
    <3>1. i - Len(queue) \in 1 .. n + 1 /\ queue'[i] = bt[i - Len(queue)]
      BY <1>4, <1>10, <1>11
    <3> QED
      BY <1>6, <3>1
  <2> QED
    BY <2>1, <2>2
<1>15. pending.adds \cup Unprocessed \subseteq adds
  <2> HIDE DEF adds
  <2>1. 1 \in 1 .. n + 1
    BY <1>4
  <2> QED
    BY <1>6, <1>8, <1>13, <2>1
<1>16. pending.deletes \ Unprocessed \subseteq deletes
  <2> HIDE DEF deletes
  <2>1. 1 \in 1 .. n + 1
    BY <1>4
  <2> QED
    BY <1>6, <1>13, <2>1
<1>17. pending' \in Batches
  BY <1>4, <1>6, <1>7
<1> QED
  BY <1>4, <1>10, <1>14, <1>15, <1>16, <1>17 DEF Grown
-----------------------------------------------------------------------------
\* The invariant over a step of the watcher or of the user: what holds of an edit
\* or a deletion that the step announces, and what it has to leave as it is for
\* the others.
LEMMA WatchKeeps ==
  ASSUME PipelineInv, NEW A \in SUBSET Files, NEW D \in SUBSET Files, Grown(A, D),
         A \subseteq present', D \cap present' = {}, present' \subseteq Files,
         UNCHANGED ingestVars, UNCHANGED processed,
         \A f \in present' \ unsettled' :
            \/ f \in A
            \/ f \in unreported' /\ hashes'[f] # version'[f]
            \/ /\ f \in present \ unsettled /\ version'[f] = version[f]
               /\ ~(f \in unreported /\ hashes[f] # version[f]),
         \A f \in Files \ (present' \cup dropped') :
            \/ f \in D \cup unreported'
            \/ f \notin present \cup dropped \cup unreported
  PROVE  JobInv' /\ ShownInv' /\ DeletionInv'
<1>1. FlowTypes /\ JobInv /\ ShownInv /\ DeletionInv
  BY DEF PipelineInv
<1>2. /\ queue \in Seq(Batches) /\ Len(queue) \in Nat
      /\ queue' \in Seq(Batches) /\ Len(queue') \in Nat /\ Len(queue) <= Len(queue')
      /\ \A i \in 1 .. Len(queue) : queue'[i] = queue[i]
  BY <1>1 DEF FlowTypes, Grown
<1>3. UNCHANGED <<job, page, attributed, answered, processed>>
  BY DEF ingestVars, wikiVars
<1>4. /\ Running' = Running
      /\ Running => queue # <<>> /\ queue' # <<>> /\ Batch' = Batch /\ 1 <= Len(queue)
  <2>1. Running => Len(queue) >= 1 /\ Len(queue') >= 1
    BY <1>1, <1>2 DEF JobInv
  <2>2. Running => queue'[1] = queue[1]
    BY <1>2, <2>1
  <2> QED
    BY <1>2, <1>3, <2>1, <2>2 DEF Running, Batch
<1>5. JobInv'
  BY <1>1, <1>3, <1>4 DEF JobInv, Idle, Nothing
<1>6. Waiting \subseteq Waiting' /\ Joined \subseteq Waiting'
  BY <1>2, <1>4 DEF Waiting, Joined
<1>7. ASSUME NEW f \in (pending.adds \ D) \cup A
      PROVE  Announced(f)'
  <2>1. f \in pending'.adds \/ \E i \in Joined : f \in queue'[i].adds
    BY <1>7 DEF Grown
  <2> QED
    BY <1>6, <2>1 DEF Announced
<1>8. ShownInv'
  <2> SUFFICES ASSUME NEW f \in present' \ unsettled'
               PROVE  \/ Announced(f)'
                      \/ /\ Running /\ f \in Batch.adds => job.seen[f] = version'[f]
                         /\ f \in processed => answered[f] = version'[f]
                                                  \/ (Running /\ f \in Batch.adds)
    BY <1>3, <1>4 DEF ShownInv
  <2>1. CASE f \in A
    BY <1>7, <2>1
  <2>2. CASE f \in unreported' /\ hashes'[f] # version'[f]
    BY <2>2 DEF Announced
  <2>3. CASE /\ f \in present \ unsettled /\ version'[f] = version[f]
             /\ ~(f \in unreported /\ hashes[f] # version[f])
    <3>1. Announced(f) => Announced(f)'
      <4>1. f \notin D
        OBVIOUS
      <4>2. CASE f \in pending.adds
        BY <1>7, <4>1, <4>2
      <4>3. CASE \E i \in Waiting : f \in queue[i].adds
        <5>1. PICK i \in Waiting : f \in queue[i].adds
          BY <4>3
        <5>2. i \in Waiting' /\ queue'[i] = queue[i]
          BY <1>2, <1>6 DEF Waiting
        <5> QED
          BY <5>1, <5>2 DEF Announced
      <4> QED
        BY <2>3, <4>2, <4>3 DEF Announced
    <3> QED
      BY <1>1, <2>3, <3>1 DEF ShownInv
  <2> QED
    BY <2>1, <2>2, <2>3
<1>9. DeletionInv'
  <2> SUFFICES ASSUME NEW f \in Files \ (present' \cup dropped')
               PROVE  /\ f \in pending'.adds => f \in unreported'
                      /\ \A i \in 1 .. Len(queue') : f \in queue'[i].adds => Unlinked(f, i)'
                      /\ <<f, f>> \in attributed /\ page[f].status = "active"
                            => Unlinked(f, Archived)'
    BY <1>3 DEF DeletionInv
  <2>1. Archived' = Archived /\ Archived \in Nat /\ Archived <= Len(queue)
    BY <1>2, <1>3, <1>4 DEF Archived, Running
  <2>2. /\ f \in pending'.adds => f \in pending.adds \ D
        /\ \A i \in Joined : f \in queue'[i].adds => f \in pending.adds \ D
    BY DEF Grown
  <2>3. CASE f \in unreported'
    BY <2>1, <2>3 DEF Unlinked
  <2>4. CASE f \in D
    <3>1. \A n \in 0 .. Len(queue) : Unlinked(f, n)'
      <4>1. f \in pending'.deletes \/ \E j \in Joined : f \in queue'[j].deletes
        BY <2>4 DEF Grown
      <4>2. \A j \in Joined : j \in 1 .. Len(queue') /\ j > Len(queue)
        BY <1>2 DEF Joined
      <4> QED
        BY <1>2, <4>1, <4>2 DEF Unlinked
    <3>2. \A i \in 1 .. Len(queue') : f \in queue'[i].adds => i \in 1 .. Len(queue)
      BY <1>2, <2>2, <2>4 DEF Joined
    <3> QED
      BY <1>2, <2>1, <2>2, <2>4, <3>1, <3>2
  <2>5. CASE f \notin present \cup dropped \cup unreported
    <3>1. f \notin pending.adds
      BY <1>1, <2>5 DEF DeletionInv
    <3>2. \A i \in 1 .. Len(queue') : f \in queue'[i].adds
             => i \in 1 .. Len(queue) /\ f \in queue[i].adds
      BY <1>2, <2>2, <3>1 DEF Joined
    <3>3. ASSUME NEW n \in 0 .. Len(queue), Unlinked(f, n)
          PROVE  Unlinked(f, n)'
      <4>1. CASE f \in pending.deletes
        <5>1. f \in pending'.deletes \/ \E j \in Joined : f \in queue'[j].deletes
          BY <4>1 DEF Grown
        <5>2. \A j \in Joined : j \in 1 .. Len(queue') /\ j > n
          BY <1>2 DEF Joined
        <5> QED
          BY <5>1, <5>2 DEF Unlinked
      <4>2. CASE \E j \in 1 .. Len(queue) : j > n /\ f \in queue[j].deletes
        BY <1>2, <4>2 DEF Unlinked
      <4> QED
        BY <2>5, <3>3, <4>1, <4>2 DEF Unlinked
    <3> QED
      BY <1>1, <1>2, <2>1, <2>2, <2>5, <3>1, <3>2, <3>3 DEF DeletionInv
  <2> QED
    BY <2>3, <2>4, <2>5
<1> QED
  BY <1>5, <1>8, <1>9

\* Every step of the watcher and of the user is one of these.
LEMMA WatchStep ==
  ASSUME PipelineInv, UNCHANGED ingestVars,
         \/ \E f \in Files : Save(f) \/ Touch(f) \/ Remove(f)
         \/ \E f \in Files : Notice(f) \/ Miss(f)
         \/ Flush \/ Reconcile
  PROVE  PipelineInv'
<1>1. FlowTypes
  BY DEF PipelineInv
<1> DEFINE Good(A, D) ==
      /\ A \subseteq Files /\ D \subseteq Files /\ Grown(A, D)
      /\ A \subseteq present' /\ D \cap present' = {}
      /\ UNCHANGED processed
      /\ \A f \in present' \ unsettled' :
            \/ f \in A
            \/ f \in unreported' /\ hashes'[f] # version'[f]
            \/ /\ f \in present \ unsettled /\ version'[f] = version[f]
               /\ ~(f \in unreported /\ hashes[f] # version[f])
      /\ \A f \in Files \ (present' \cup dropped') :
            \/ f \in D \cup unreported'
            \/ f \notin present \cup dropped \cup unreported
      /\ present' \subseteq Files /\ unreported' \subseteq Files
      /\ version' \in [Files -> Nat] /\ hashes' \in [Files -> Nat]
      /\ \A f \in Files : hashes'[f] <= version'[f]
<1>2. ASSUME NEW A, NEW D, Good(A, D)
      PROVE  PipelineInv'
  <2>1. FlowTypes'
    BY <1>1, <1>2 DEF FlowTypes, Grown, ingestVars, wikiVars
  <2>2. JobInv' /\ ShownInv' /\ DeletionInv'
    BY <1>2, WatchKeeps
  <2> QED
    BY <2>1, <2>2 DEF PipelineInv
<1>3. ASSUME NEW f \in Files, Save(f)
      PROVE  Good({}, {})
  <2>1. Grown({}, {})
    BY <1>1, <1>3, NotGrown DEF Save
  <2> QED
    BY <1>1, <1>3, <2>1 DEF Save, FlowTypes
<1>4. ASSUME NEW f \in Files, Touch(f)
      PROVE  Good({}, {})
  <2>1. Grown({}, {})
    BY <1>1, <1>4, NotGrown DEF Touch
  <2> QED
    BY <1>1, <1>4, <2>1 DEF Touch, rawVars, FlowTypes
<1>5. ASSUME NEW f \in Files, Remove(f)
      PROVE  Good({}, {})
  <2>1. Grown({}, {})
    BY <1>1, <1>5, NotGrown DEF Remove
  <2> QED
    BY <1>1, <1>5, <2>1 DEF Remove, FlowTypes
<1>6. ASSUME NEW f \in Files, HandleAddOrChange(f), IsNews(f)
      PROVE  Good({f}, {})
  <2>1. Grown({f}, {})
    <3>1. Adopted(Registered([pending |-> Pushed(pending, f), queue |-> queue]))
      BY <1>6 DEF HandleAddOrChange
    <3>2. Pushed(pending, f) = [adds |-> (pending.adds \ {}) \cup {f},
                                deletes |-> (pending.deletes \ {f}) \cup {}]
      BY DEF Pushed
    <3> QED
      BY <1>1, <3>1, <3>2, RegisteredGrown
  <2>2. /\ f \in present /\ unreported' = unreported \ {f} /\ unsettled' = unsettled \ {f}
        /\ hashes' = [hashes EXCEPT ![f] = version[f]]
        /\ UNCHANGED <<present, version, processed, dropped>>
    BY <1>6 DEF HandleAddOrChange, rawVars
  <2> QED
    BY <1>1, <2>1, <2>2 DEF FlowTypes
<1>7. ASSUME NEW f \in Files, HandleAddOrChange(f), ~IsNews(f)
      PROVE  Good({}, {})
  <2>1. /\ unreported' = unreported \ {f} /\ hashes' = [hashes EXCEPT ![f] = version[f]]
        /\ f \in present
        /\ UNCHANGED <<present, version, processed, dropped, pending, queue, unsettled>>
    BY <1>7 DEF HandleAddOrChange, rawVars
  <2>2. Grown({}, {})
    BY <1>1, <2>1, NotGrown
  <2> QED
    BY <1>1, <1>7, <2>1, <2>2 DEF FlowTypes, IsNews
<1>8. ASSUME NEW f \in Files, HandleUnlink(f)
      PROVE  Good({}, {f})
  <2>1. Grown({}, {f})
    <3>1. Adopted(Registered([pending |-> PushedDelete(pending, f), queue |-> queue]))
      BY <1>8 DEF HandleUnlink
    <3>2. PushedDelete(pending, f) = [adds |-> (pending.adds \ {f}) \cup {},
                                      deletes |-> (pending.deletes \ {}) \cup {f}]
      BY DEF PushedDelete
    <3> QED
      BY <1>1, <3>1, <3>2, RegisteredGrown
  <2>2. /\ f \notin present /\ unreported' = unreported \ {f} /\ dropped' = dropped \ {f}
        /\ hashes' = [hashes EXCEPT ![f] = 0]
        /\ UNCHANGED <<present, version, processed, unsettled>>
    BY <1>8 DEF HandleUnlink, rawVars
  <2> QED
    BY <1>1, <2>1, <2>2 DEF FlowTypes
<1>9. ASSUME NEW f \in Files, ForgetUnannounced(f)
      PROVE  Good({}, {})
  <2>1. Grown({}, {})
    BY <1>1, <1>9, NotGrown DEF ForgetUnannounced
  <2> QED
    BY <1>1, <1>9, <2>1 DEF ForgetUnannounced, rawVars, FlowTypes
<1>10. ASSUME NEW f \in Files, Miss(f)
       PROVE  Good({}, {})
  <2>1. Grown({}, {})
    BY <1>1, <1>10, NotGrown DEF Miss
  <2>2. /\ f \in present /\ unreported' = unreported \ {f}
        /\ unsettled' = IF IsNews(f) THEN unsettled \cup {f} ELSE unsettled
        /\ UNCHANGED <<present, version, hashes, processed, dropped>>
    BY <1>10 DEF Miss, rawVars
  <2> QED
    BY <1>1, <2>1, <2>2 DEF FlowTypes, IsNews
<1>11. CASE Flush
  <2>1. Grown({}, {})
    BY <1>1, <1>11, FlushGrows
  <2>2. Good({}, {})
    BY <1>1, <1>11, <2>1 DEF Flush, rawVars, FlowTypes
  <2> QED
    BY <1>2, <2>2
<1>12. CASE Reconcile
  <2>1. Grown(Unprocessed, {})
    BY <1>1, <1>12, ReconcileGrows
  <2>2. Good(Unprocessed, {})
    BY <1>1, <1>12, <2>1 DEF Reconcile, rawVars, FlowTypes, Unprocessed
  <2> QED
    BY <1>2, <2>2
<1> HIDE DEF Good
<1> QED
  BY <1>2, <1>3, <1>4, <1>5, <1>6, <1>7, <1>8, <1>9, <1>10, <1>11, <1>12 DEF Notice
-----------------------------------------------------------------------------
\* The head of the queue is answered: the next batch is behind it, and so is
\* every deletion that is still to come.
LEMMA AnswerKeeps ==
  ASSUME PipelineInv, queue # <<>>, NEW retain \in BOOLEAN, Answer(retain), Running \/ retain,
         UNCHANGED <<present, version, unreported, hashes, pending, page>>,
         dropped \subseteq dropped',
         \A f \in Batch.deletes : f \in dropped' \/ job.stage = "note",
         \A f \in Files : <<f, f>> \in attributed' /\ page[f].status = "active"
                             => <<f, f>> \in attributed
  PROVE  PipelineInv'
<1>1. FlowTypes /\ JobInv /\ ShownInv /\ DeletionInv
  BY DEF PipelineInv
<1>2. /\ queue \in Seq(Batches) /\ Len(queue) \in Nat /\ Len(queue) >= 1 /\ queue' = Tail(queue)
      /\ queue' \in Seq(Batches) /\ Len(queue') = Len(queue) - 1
      /\ \A i \in 1 .. Len(queue') : queue'[i] = queue[i + 1]
      /\ Batch = queue[1] /\ Batch \in Batches
  BY <1>1, HeadTailProperties DEF FlowTypes, Answer, Batch
<1>3. job' = Idle /\ ~Running'
  BY DEF Answer, Idle, Running
<1>4. Idle \in [stage : Stages, seen : [Files -> Nat], left : SUBSET Files]
  BY DEF Idle, Stages, Nothing
<1>5. answered' \in [Files -> Nat]
  BY <1>1, <1>2 DEF Answer, FlowTypes
<1>6. FlowTypes'
  BY <1>1, <1>2, <1>3, <1>4, <1>5 DEF FlowTypes
<1>7. JobInv'
  BY <1>3 DEF JobInv
<1>8. ShownInv'
  <2> SUFFICES ASSUME NEW f \in present \ unsettled', f \in processed'
               PROVE  Announced(f)' \/ answered'[f] = version[f]
    BY <1>3 DEF ShownInv
  <2>1. /\ f \in present \ unsettled /\ f \in Files
        /\ ~retain /\ f \in Batch.adds => answered'[f] = job.seen[f]
        /\ f \notin Batch.adds => answered'[f] = answered[f] /\ f \in processed
        /\ retain => f \notin Batch.adds
    BY <1>1, <1>2 DEF Answer, FlowTypes
  <2>2. Announced(f) => Announced(f)' \/ f \in Batch.adds
    <3>1. ASSUME NEW i \in Waiting, f \in queue[i].adds, f \notin Batch.adds
          PROVE  i - 1 \in Waiting' /\ f \in queue'[i - 1].adds
      <4>1. i # 1 /\ i \in 1 .. Len(queue)
        BY <1>2, <3>1 DEF Waiting
      <4>2. i - 1 \in 1 .. Len(queue') /\ queue'[i - 1] = queue[(i - 1) + 1] /\ (i - 1) + 1 = i
        BY <1>2, <4>1
      <4> QED
        BY <1>3, <3>1, <4>2 DEF Waiting
    <3> QED
      BY <3>1 DEF Announced
  <2>3. CASE f \notin Batch.adds
    BY <1>1, <2>1, <2>2, <2>3 DEF ShownInv
  <2>4. CASE f \in Batch.adds
    <3>1. Running /\ ~retain /\ answered'[f] = job.seen[f]
      BY <2>1, <2>4
    <3>2. Announced(f) \/ job.seen[f] = version[f]
      BY <1>1, <2>1, <2>4, <3>1 DEF ShownInv
    <3>3. ASSUME NEW i \in Waiting, f \in queue[i].adds
          PROVE  i - 1 \in Waiting' /\ f \in queue'[i - 1].adds
      <4>1. i # 1 /\ i \in 1 .. Len(queue)
        BY <3>1 DEF Waiting
      <4>2. i - 1 \in 1 .. Len(queue') /\ queue'[i - 1] = queue[(i - 1) + 1] /\ (i - 1) + 1 = i
        BY <1>2, <4>1
      <4> QED
        BY <1>3, <3>3, <4>2 DEF Waiting
    <3> QED
      BY <3>1, <3>2, <3>3 DEF Announced
  <2> QED
    BY <2>3, <2>4
<1>9. DeletionInv'
  <2> SUFFICES ASSUME NEW f \in Files \ (present \cup dropped')
               PROVE  /\ f \in pending.adds => f \in unreported
                      /\ \A i \in 1 .. Len(queue') : f \in queue'[i].adds => Unlinked(f, i)'
                      /\ <<f, f>> \in attributed' /\ page[f].status = "active"
                            => Unlinked(f, 0)'
    BY <1>3 DEF DeletionInv, Archived, Idle
  <2>1. ASSUME NEW n \in Nat, NEW m \in Nat, Unlinked(f, m), n + 1 = m \/ (n = 0 /\ m = Archived)
        PROVE  Unlinked(f, n)'
    <3>1. CASE f \in unreported \cup pending.deletes
      BY <3>1 DEF Unlinked
    <3>2. CASE \E j \in 1 .. Len(queue) : j > m /\ f \in queue[j].deletes
      <4>1. PICK j \in 1 .. Len(queue) : j > m /\ f \in queue[j].deletes
        BY <3>2
      <4>2. j # 1
        BY <1>2, <2>1, <4>1 DEF Archived
      <4>3. /\ j - 1 \in 1 .. Len(queue') /\ j - 1 > n
            /\ queue'[j - 1] = queue[(j - 1) + 1] /\ (j - 1) + 1 = j
        BY <1>2, <2>1, <4>1, <4>2
      <4> QED
        BY <4>1, <4>3 DEF Unlinked
    <3> QED
      BY <2>1, <3>1, <3>2 DEF Unlinked
  <2>2. ASSUME NEW i \in 1 .. Len(queue'), f \in queue'[i].adds
        PROVE  Unlinked(f, i)'
    <3>1. i + 1 \in 1 .. Len(queue) /\ f \in queue[i + 1].adds
      BY <1>2, <2>2
    <3>2. Unlinked(f, i + 1)
      BY <1>1, <3>1 DEF DeletionInv
    <3> QED
      BY <1>2, <2>1, <3>2
  <2>3. ASSUME <<f, f>> \in attributed', page[f].status = "active"
        PROVE  Unlinked(f, 0)'
    <3>1. Unlinked(f, Archived) /\ Archived \in Nat
      BY <1>1, <2>3 DEF DeletionInv, Archived
    <3> QED
      BY <2>1, <3>1
  <2> QED
    BY <1>1, <2>2, <2>3 DEF DeletionInv
<1> QED
  BY <1>6, <1>7, <1>8, <1>9 DEF PipelineInv

\* The running batch goes on: no event, no batch and nothing shown changes.
LEMMA WorkKeeps ==
  ASSUME PipelineInv, Running, Running', UNCHANGED <<watchVars, answered>>,
         job'.seen = job.seen, FlowTypes', JobInv',
         \A f \in Files \ (present \cup dropped) :
            <<f, f>> \in attributed' /\ page'[f].status = "active" => Unlinked(f, Archived')
  PROVE  PipelineInv'
<1>1. UNCHANGED <<present, version, unreported, hashes, pending, processed, queue, unsettled,
                  dropped, answered>>
  BY DEF watchVars, rawVars, watcherVars
<1>2. /\ Waiting' = Waiting /\ Batch' = Batch /\ \A f : Announced(f)' = Announced(f)
      /\ \A f, n : Unlinked(f, n)' = Unlinked(f, n)
  BY <1>1 DEF Waiting, Batch, Announced, Unlinked
<1>3. ShownInv'
  BY <1>1, <1>2 DEF PipelineInv, ShownInv
<1>4. DeletionInv'
  BY <1>1, <1>2 DEF PipelineInv, DeletionInv, Unlinked
<1> QED
  BY <1>3, <1>4 DEF PipelineInv

\* The steps of process(), and what becomes of its outcome.
LEMMA ProcessKeeps ==
  ASSUME PipelineInv, ProcessStep
  PROVE  PipelineInv'
<1>1. FlowTypes /\ JobInv /\ ShownInv /\ DeletionInv
  BY DEF PipelineInv
<1>2. queue # <<>> => /\ Batch \in Batches /\ Len(queue) >= 1 /\ Batch = queue[1]
                      /\ 1 \in 1 .. Len(queue)
  BY <1>1 DEF FlowTypes, Batch
<1>3. Running => queue # <<>>
  BY <1>1 DEF JobInv
<1>4. /\ job = [stage |-> job.stage, seen |-> job.seen, left |-> job.left]
      /\ job.stage \in Stages /\ job.seen \in [Files -> Nat] /\ job.left \subseteq Files
  BY <1>1 DEF FlowTypes
<1>5. CASE StartDeletes
  <2>1. /\ ~Running /\ queue # <<>> /\ Batch.adds = {}
        /\ job' = [stage |-> "archive", seen |-> job.seen, left |-> job.left]
        /\ UNCHANGED <<watchVars, wikiVars, spent, restarts, answered>>
    BY <1>4, <1>5 DEF StartDeletes, Running
  <2>2. UNCHANGED <<present, version, unreported, hashes, pending, processed, queue, unsettled,
                    dropped, answered, page, attributed>>
    BY <2>1 DEF watchVars, rawVars, watcherVars, wikiVars
  <2>3. FlowTypes'
    BY <1>1, <1>4, <2>1, <2>2 DEF FlowTypes, Stages
  <2>4. job.seen = Nothing
    BY <1>1, <2>1 DEF JobInv, Idle
  <2>5. JobInv'
    BY <2>1, <2>2, <2>4 DEF JobInv, Running, Nothing, Batch
  <2>6. \A f : Announced(f) => Announced(f)'
    BY <1>1, <1>2, <2>1, <2>2 DEF Announced, Waiting, FlowTypes, Running
  <2>7. ShownInv'
    BY <1>1, <2>1, <2>2, <2>6 DEF ShownInv, Batch
  <2>8. DeletionInv'
    BY <1>1, <2>1, <2>2 DEF DeletionInv, Unlinked, Archived, Running
  <2> QED
    BY <2>3, <2>5, <2>7, <2>8 DEF PipelineInv
<1>6. CASE StartAdds
  <2> DEFINE seen == [f \in Files |-> IF f \in Batch.adds THEN Contents(f) ELSE 0]
  <2>1. /\ ~Running /\ queue # <<>>
        /\ job' = [stage |-> "invoke", seen |-> seen, left |-> job.left]
        /\ unsettled' = unsettled \ Batch.adds
        /\ UNCHANGED <<present, version, unreported, hashes, pending, processed, queue,
                       dropped, answered, page, attributed>>
    BY <1>4, <1>6 DEF StartAdds, Running, rawVars, watcherVars, wikiVars
  <2>2. seen \in [Files -> Nat]
    BY <1>1 DEF FlowTypes, Contents
  <2>3. FlowTypes'
    BY <1>1, <1>4, <2>1, <2>2 DEF FlowTypes, Stages
  <2>4. JobInv'
    BY <2>1 DEF JobInv, Running, Batch
  <2>5. Running' /\ Batch' = Batch
    BY <2>1 DEF Running, Batch
  <2>6. ASSUME NEW f, Announced(f), f \notin Batch.adds
        PROVE  Announced(f)'
    BY <1>1, <1>2, <2>1, <2>5, <2>6 DEF Announced, Waiting, FlowTypes
  <2>7. ShownInv'
    <3> SUFFICES ASSUME NEW f \in present \ unsettled'
                 PROVE  /\ f \in Batch.adds => job'.seen[f] = version[f]
                        /\ f \in processed => Announced(f)' \/ answered[f] = version[f]
                                                \/ f \in Batch.adds
      BY <2>1, <2>5 DEF ShownInv
    <3>1. f \in Batch.adds => job'.seen[f] = version[f]
      BY <1>1, <2>1 DEF Contents, FlowTypes
    <3>2. f \notin Batch.adds => f \in present \ unsettled
      BY <2>1
    <3> QED
      BY <1>1, <2>1, <2>6, <3>1, <3>2 DEF ShownInv
  <2>8. DeletionInv'
    BY <1>1, <2>1 DEF DeletionInv, Unlinked, Archived, Running
  <2> QED
    BY <2>3, <2>4, <2>7, <2>8 DEF PipelineInv
<1>7. CASE SkipForBudget
  <2>1. /\ queue # <<>> /\ Answer(TRUE) /\ dropped' = dropped \cup Batch.deletes
        /\ UNCHANGED <<present, version, unreported, hashes, pending, page, attributed>>
    BY <1>7 DEF SkipForBudget, rawVars, wikiVars
  <2> QED
    BY <2>1, AnswerKeeps
<1>8. CASE AgentFails \/ ReplyEmpty \/ ProcessThrows
  <2>1. /\ Running /\ \E retain \in BOOLEAN : Answer(retain)
        /\ dropped' = dropped \cup Batch.deletes
        /\ UNCHANGED <<present, version, unreported, hashes, pending, page, attributed>>
    BY <1>8 DEF AgentFails, ReplyEmpty, ProcessThrows, AnswerError, Running, rawVars, wikiVars
  <2> QED
    BY <1>3, <2>1, AnswerKeeps
<1>9. CASE Reply
  <2>1. /\ job.stage = "invoke"
        /\ job' = [stage |-> "write", seen |-> job.seen, left |-> Written]
        /\ UNCHANGED <<watchVars, answered, page, attributed>>
    BY <1>4, <1>9 DEF Reply, wikiVars
  <2>2. queue' = queue /\ Batch' = Batch /\ Running /\ Running'
    BY <2>1 DEF watchVars, Batch, Running
  <2>3. FlowTypes'
    BY <1>1, <1>4, <2>1 DEF FlowTypes, Stages, Written, watchVars, rawVars, watcherVars
  <2>4. JobInv'
    BY <1>1, <2>1, <2>2 DEF JobInv, Running, Written
  <2>5. Archived = 0 /\ Archived' = 0
    BY <2>1 DEF Archived
  <2> QED
    BY <1>1, <2>1, <2>2, <2>3, <2>4, <2>5, WorkKeeps DEF DeletionInv
<1>10. ASSUME NEW g \in Files, WritePage(g) PROVE PipelineInv'
  <2>1. /\ job.stage = "write" /\ g \in job.left
        /\ page' = [page EXCEPT ![g] = [from |-> job.seen[g], status |-> "active"]]
        /\ job' = [stage |-> "write", seen |-> job.seen, left |-> job.left \ {g}]
        /\ UNCHANGED <<watchVars, answered, attributed>>
    BY <1>4, <1>10 DEF WritePage
  <2>2. queue' = queue /\ Batch' = Batch /\ Running /\ Running'
    BY <2>1 DEF watchVars, Batch, Running
  <2>3. FlowTypes'
    BY <1>1, <1>4, <2>1 DEF FlowTypes, Stages, watchVars, rawVars, watcherVars
  <2>4. JobInv'
    BY <1>1, <2>1, <2>2 DEF JobInv, Running
  <2>5. Archived = 0 /\ Archived' = 0 /\ g \in Batch.adds
    BY <1>1, <2>1, <2>2 DEF Archived, JobInv
  <2>6. ASSUME NEW f \in Files \ (present \cup dropped), <<f, f>> \in attributed,
               page'[f].status = "active"
        PROVE  Unlinked(f, 0)
    <3>1. CASE f = g
      <4>1. Unlinked(f, 1)
        BY <1>1, <1>2, <1>3, <2>2, <2>5, <3>1 DEF DeletionInv
      <4> QED
        BY <4>1 DEF Unlinked
    <3>2. CASE f # g
      <4>1. page'[f] = page[f]
        BY <1>1, <2>1, <3>2 DEF FlowTypes
      <4> QED
        BY <1>1, <2>5, <2>6, <4>1 DEF DeletionInv
    <3> QED
      BY <3>1, <3>2
  <2> QED
    BY <2>1, <2>2, <2>3, <2>4, <2>5, <2>6, WorkKeeps
<1>11. CASE Record
  <2>1. /\ job.stage = "write"
        /\ job' = [stage |-> "commit", seen |-> job.seen, left |-> job.left]
        /\ UNCHANGED <<watchVars, answered, page>>
        /\ \A f \in Files : <<f, f>> \in attributed' => <<f, f>> \in attributed \/ f \in Batch.adds
    BY <1>4, <1>11 DEF Record
  <2>2. queue' = queue /\ Batch' = Batch /\ Running /\ Running'
    BY <2>1 DEF watchVars, Batch, Running
  <2>3. FlowTypes'
    BY <1>1, <1>4, <2>1 DEF FlowTypes, Stages, watchVars, rawVars, watcherVars
  <2>4. JobInv'
    BY <1>1, <2>1, <2>2 DEF JobInv, Running
  <2>5. Archived = 0 /\ Archived' = 0
    BY <2>1 DEF Archived
  <2>6. ASSUME NEW f \in Files \ (present \cup dropped), f \in Batch.adds
        PROVE  Unlinked(f, 0)
    <3>1. Unlinked(f, 1)
      BY <1>1, <1>2, <1>3, <2>2, <2>6 DEF DeletionInv
    <3> QED
      BY <3>1 DEF Unlinked
  <2>7. \A f \in Files \ (present \cup dropped) :
           <<f, f>> \in attributed' /\ page'[f].status = "active" => Unlinked(f, Archived')
    BY <1>1, <2>1, <2>5, <2>6 DEF DeletionInv
  <2> QED
    BY <2>1, <2>2, <2>3, <2>4, <2>7, WorkKeeps
<1>12. CASE Commit /\ Batch.deletes = {}
  <2>1. /\ Running /\ Answer(FALSE)
        /\ UNCHANGED <<present, version, unreported, hashes, pending, page, attributed, dropped>>
    BY <1>12 DEF Commit, Running, rawVars, wikiVars
  <2> QED
    BY <1>3, <1>12, <2>1, AnswerKeeps
<1>13. CASE Commit /\ Batch.deletes # {}
  <2>1. /\ job.stage = "commit"
        /\ job' = [stage |-> "archive", seen |-> job.seen, left |-> job.left]
        /\ UNCHANGED <<watchVars, answered, page, attributed>>
    BY <1>4, <1>13 DEF Commit, watchVars, watcherVars, wikiVars
  <2>2. queue' = queue /\ Batch' = Batch /\ Running /\ Running'
    BY <2>1 DEF watchVars, Batch, Running
  <2>3. FlowTypes'
    BY <1>1, <1>4, <2>1 DEF FlowTypes, Stages, watchVars, rawVars, watcherVars
  <2>4. JobInv'
    BY <1>1, <2>1, <2>2 DEF JobInv, Running
  <2>5. Archived = 0 /\ Archived' = 0
    BY <2>1 DEF Archived
  <2> QED
    BY <1>1, <2>1, <2>2, <2>3, <2>4, <2>5, WorkKeeps DEF DeletionInv
<1>14. CASE Archive
  <2>1. /\ job.stage = "archive"
        /\ page' = [g \in Files |->
                      IF g \in Affected THEN [page[g] EXCEPT !.status = "orphaned"] ELSE page[g]]
        /\ job' = [stage |-> "note", seen |-> job.seen, left |-> Affected]
        /\ UNCHANGED <<watchVars, answered, attributed>>
    BY <1>4, <1>14 DEF Archive
  <2>2. queue' = queue /\ Batch' = Batch /\ Running /\ Running'
    BY <2>1 DEF watchVars, Batch, Running
  <2>3. Affected \subseteq Files
    BY DEF Affected, Pages
  <2>4. ASSUME NEW g \in Files
        PROVE  /\ page'[g] \in [from : Nat, status : {"none", "active", "orphaned"}]
               /\ g \in Affected => page'[g].status = "orphaned"
               /\ g \notin Affected => page'[g] = page[g]
    <3>1. page[g] \in [from : Nat, status : {"none", "active", "orphaned"}]
      BY <1>1 DEF FlowTypes
    <3>2. g \in Affected => page'[g] = [page[g] EXCEPT !.status = "orphaned"]
      BY <2>1
    <3>3. [page[g] EXCEPT !.status = "orphaned"]
            \in [from : Nat, status : {"none", "active", "orphaned"}]
      BY <3>1
    <3>4. [page[g] EXCEPT !.status = "orphaned"].status = "orphaned"
      BY <3>1
    <3>5. g \notin Affected => page'[g] = page[g]
      BY <2>1
    <3> QED
      BY <3>1, <3>2, <3>3, <3>4, <3>5
  <2>5. page' \in [Files -> [from : Nat, status : {"none", "active", "orphaned"}]]
    BY <2>1, <2>4
  <2>6. FlowTypes'
    BY <1>1, <1>4, <2>1, <2>3, <2>5 DEF FlowTypes, Stages, watchVars, rawVars, watcherVars
  <2>7. JobInv'
    BY <1>1, <2>1, <2>2, <2>3, <2>4 DEF JobInv, Running
  <2>8. Archived = 0 /\ Archived' = 1
    BY <2>1 DEF Archived
  <2>9. ASSUME NEW f \in Files \ (present \cup dropped), <<f, f>> \in attributed,
               page'[f].status = "active"
        PROVE  Unlinked(f, 1)
    <3>1. f \in Affected => page'[f].status = "orphaned"
      BY <2>4
    <3>2. f \notin Affected /\ page'[f] = page[f]
      BY <2>4, <2>9, <3>1
    <3>3. page[f] # NoPage
      BY <2>9, <3>2 DEF NoPage
    <3>4. f \notin Batch.deletes
      BY <2>9, <3>2, <3>3 DEF Affected, Pages
    <3>5. Unlinked(f, 0)
      BY <1>1, <2>8, <2>9, <3>2 DEF DeletionInv
    <3> QED
      BY <1>1, <1>2, <1>3, <2>2, <3>4, <3>5 DEF Unlinked, FlowTypes
  <2> QED
    BY <2>1, <2>2, <2>6, <2>7, <2>8, <2>9, WorkKeeps
<1>15. CASE NoteArchive
  <2>1. /\ job.stage = "note" /\ Answer(FALSE)
        /\ UNCHANGED <<present, version, unreported, hashes, pending, page, dropped>>
        /\ \A f \in Files : <<f, f>> \in attributed' => <<f, f>> \in attributed \/ f \in job.left
    BY <1>15 DEF NoteArchive, rawVars
  <2>2. Running
    BY <2>1 DEF Running
  <2>3. \A g \in job.left : page[g].status = "orphaned"
    BY <1>1, <2>1, <2>2 DEF JobInv
  <2> QED
    BY <1>3, <2>1, <2>2, <2>3, AnswerKeeps
<1> QED
  BY <1>5, <1>6, <1>7, <1>8, <1>9, <1>10, <1>11, <1>12, <1>13, <1>14, <1>15 DEF ProcessStep
-----------------------------------------------------------------------------
LEMMA InitPipeline == Init => PipelineInv
<1> SUFFICES ASSUME Init PROVE PipelineInv
  OBVIOUS
<1>1. /\ present = {} /\ unreported = {} /\ processed = {} /\ dropped = {}
      /\ version = Nothing /\ hashes = Nothing /\ answered = Nothing
      /\ pending = NoPaths /\ queue = <<>> /\ job = Idle
      /\ page = [f \in Files |-> NoPage] /\ attributed = {}
  BY DEF Init
<1>2. FlowTypes
  BY <1>1 DEF FlowTypes, Nothing, NoPaths, Idle, NoPage, Batches, Stages
<1>3. JobInv /\ ShownInv
  BY <1>1 DEF JobInv, ShownInv, Running, Idle
<1>4. DeletionInv
  BY <1>1 DEF DeletionInv, NoPaths
<1> QED
  BY <1>2, <1>3, <1>4 DEF PipelineInv

\* A restart forgets what was under way, and so what it would have to account for.
LEMMA RestartKeeps ==
  ASSUME PipelineInv, Restart
  PROVE  PipelineInv'
<1>1. /\ unreported' = present /\ hashes' = [f \in Files |-> 0] /\ pending' = NoPaths
      /\ processed' = {} /\ queue' = <<>> /\ unsettled' = {}
      /\ dropped' = dropped \cup (Files \ present)
      /\ job' = Idle /\ answered' = Nothing
      /\ UNCHANGED <<present, version, page, attributed>>
  BY DEF Restart, WatcherRestarted, rawVars, wikiVars
<1>2. FlowTypes
  BY DEF PipelineInv
<1>3. FlowTypes'
  BY <1>1, <1>2 DEF FlowTypes, Nothing, NoPaths, Idle, Batches, Stages
<1>4. JobInv' /\ ShownInv'
  BY <1>1 DEF JobInv, ShownInv, Running, Idle
<1>5. DeletionInv'
  BY <1>1 DEF DeletionInv
<1> QED
  BY <1>3, <1>4, <1>5 DEF PipelineInv

LEMMA StepPipeline == PipelineInv /\ [Next]_vars => PipelineInv'
<1> SUFFICES ASSUME PipelineInv, [Next]_vars PROVE PipelineInv'
  OBVIOUS
<1>1. CASE NewDay \/ UNCHANGED vars
  <2>1. UNCHANGED <<watchVars, job, page, attributed, answered>>
    BY <1>1 DEF NewDay, vars, ingestVars, wikiVars
  <2>2. UNCHANGED <<present, version, unreported, hashes, pending, processed, queue, unsettled,
                    dropped>>
    BY <2>1 DEF watchVars, rawVars, watcherVars
  <2> QED
    BY <2>1, <2>2 DEF PipelineInv, FlowTypes, JobInv, ShownInv, DeletionInv, Running, Batch,
       Announced, Waiting, Unlinked, Archived
<1> QED
  BY <1>1, WatchStep, ProcessKeeps, RestartKeeps DEF Next

LEMMA PipelineInvariant == Spec => []PipelineInv
  BY InitPipeline, StepPipeline, PTL DEF Spec

\* What the agent has been shown of a processed file is what the file holds, once
\* nothing is under way: for any interleaving of saves, events, reconciliations,
\* failures, budget skips and restarts (watcher/index.ts, ingestion/queue.ts).
THEOREM NothingIsLeftBehind == Spec => []NothingLeftBehind
<1>1. PipelineInv => NothingLeftBehind
  BY DEF PipelineInv, FlowTypes, JobInv, ShownInv, NothingLeftBehind, Quiet, NoPaths, Announced,
     Waiting, Running
<1> QED
  BY <1>1, PipelineInvariant, PTL

\* A deletion reaches the page that the chain attributes to the deleted path, or
\* is lost in one of the ways that the queue and the daemon lose deletions.
THEOREM DeletionsArrive == Spec => []DeletionsOrphanTheirPages
<1>1. PipelineInv => DeletionsOrphanTheirPages
  BY DEF PipelineInv, FlowTypes, DeletionInv, DeletionsOrphanTheirPages, Quiet, NoPaths, Pages,
     Unlinked
<1> QED
  BY <1>1, PipelineInvariant, PTL
=============================================================================
