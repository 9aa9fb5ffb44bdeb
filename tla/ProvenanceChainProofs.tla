------------------------ MODULE ProvenanceChainProofs ------------------------
(***************************************************************************)
(* Proofs about ProvenanceChain, for every set of objects and callers, any *)
(* number of objects open at once, every bound and every choice of faults. *)
(***************************************************************************)
EXTENDS ProvenanceChain, FiniteSetTheorems, SequenceTheorems, TLAPS

\* A finite nonempty set of integers has a greatest element.  (The library's
\* induction takes an operator, so the argument goes by a minimal "upper
\* part" of the set.)
LEMMA GreatestExists ==
  ASSUME NEW n \in Nat, NEW R \in SUBSET (1 .. n), R # {}
  PROVE  \E k \in R : \A j \in R : j <= k
<1> DEFINE Upper(k) == {j \in R : k <= j}
           Uppers == {Upper(k) : k \in R}
           Order == StrictSubsetOrdering(R)
<1>0. IsFiniteSet(1 .. n)
  <2> HIDE DEF Uppers, Order
  <2> QED BY FS_Interval
<1>1. IsFiniteSet(R)
  <2> HIDE DEF Uppers, Order
  <2> QED BY <1>0, FS_Subset
<1>2. IsWellFoundedOn(Order, SUBSET R)
  <2> HIDE DEF Uppers
  <2> QED BY <1>1, FS_StrictSubsetOrderingWellFounded, FS_FiniteSubsetsOfFinite
<1>3. Uppers \subseteq SUBSET R /\ Uppers # {}
  OBVIOUS
<1>4. PICK u \in Uppers : \A v \in Uppers : <<v, u>> \notin Order
  <2> HIDE DEF Uppers, Order
  <2> QED BY <1>2, <1>3, WFMin
<1>5. PICK k \in R : u = Upper(k)
  BY <1>4
<1>6. ASSUME NEW j \in R, ~(j <= k) PROVE FALSE
  <2>0. j \in Nat /\ k \in Nat /\ R \subseteq Nat
    OBVIOUS
  <2>1. Upper(j) \in Uppers /\ Upper(j) \in SUBSET R /\ u \in SUBSET R
    BY <1>3
  <2>2. Upper(j) \subseteq Upper(k) /\ k \in Upper(k) /\ k \notin Upper(j)
    <3>1. k \in Int /\ j \in Int /\ R \subseteq Int /\ k < j
      BY <2>0, <1>6
    <3>2. \A x \in R : j <= x => k <= x
      BY <3>1
    <3>3. Upper(j) \subseteq Upper(k)
      BY <3>2
    <3>4. k <= k /\ ~(j <= k)
      BY <3>1
    <3> QED BY <3>3, <3>4
  <2>3. <<Upper(j), u>> \in Order
    <3> HIDE DEF Upper, Uppers
    <3> QED BY <2>1, <2>2, <1>5 DEF StrictSubsetOrdering
  <2> QED BY <2>1, <2>3, <1>4
<1> QED BY <1>6
-----------------------------------------------------------------------------
(***************************************************************************)
(* Part 1: types and the lock.                                             *)
(***************************************************************************)

\* The caller between the computation of its record and the end of append()
\* is the one at the head of its object's lock queue.
LockHeld == \A c \in Callers : pc[c] \in Holding => HasLock(c)

LEMMA NoRecordIsNotRecord == NoRecord \notin Record /\ NoRecord \in Line
  BY DEF NoRecord, Record, Line

LEMMA LineFields ==
  ASSUME NEW r \in Line
  PROVE  r.seq \in Nat /\ r.id \in Nat /\ r.prev \in Nat
  BY DEF Line, Record, NoRecord

LEMMA LastRecordType ==
  ASSUME NEW f \in Seq(Line)
  PROVE  /\ LastRecord(f, DOMAIN f) \in Line
         /\ Cardinality(Readable(f, DOMAIN f)) \in Nat
<1> DEFINE R == Readable(f, DOMAIN f)
<1>1. Len(f) \in Nat /\ R \in SUBSET (1 .. Len(f))
  BY DEF Readable
<1>2. IsFiniteSet(R) /\ Cardinality(R) \in Nat
  <2>1. IsFiniteSet(1 .. Len(f))
    BY <1>1, FS_Interval
  <2> HIDE DEF R
  <2> QED BY <1>1, <2>1, FS_Subset, FS_CardinalityType
<1>3. CASE R = {}
  BY <1>2, <1>3, NoRecordIsNotRecord DEF LastRecord
<1>4. CASE R # {}
  <2>1. \E k \in R : \A j \in R : j <= k
    BY <1>1, <1>4, GreatestExists
  <2> QED BY <1>1, <1>2, <1>4, <2>1 DEF LastRecord
<1> QED BY <1>3, <1>4

LEMMA WrittenType ==
  ASSUME NEW f \in Seq(Line), NEW open \in BOOLEAN, NEW line \in Line
  PROVE  Written(f, open, line) \in Seq(Line)
<1>1. CASE open /\ Len(f) \in 1 .. Len(f)
  <2>1. [f EXCEPT ![Len(f)] = NoRecord] \in Seq(Line)
    BY <1>1, ExceptSeq, NoRecordIsNotRecord
  <2> QED BY <1>1, <2>1 DEF Written
<1>2. CASE open /\ Len(f) \notin 1 .. Len(f)
  <2>1. f = <<>>
    BY <1>2
  <2>2. [f EXCEPT ![Len(f)] = NoRecord] = <<>>
    BY <2>1
  <2> QED BY <1>2, <2>1, <2>2, EmptySeq DEF Written
<1>3. CASE ~open
  BY <1>3 DEF Written
<1> QED BY <1>1, <1>2, <1>3

LEMMA ReleaseSafe ==
  ASSUME TypeOK, LockHeld, NEW c \in Callers, pc[c] \in Holding, Release(c)
  PROVE  /\ queue' \in [Instances -> Seq(Callers)]
         /\ pc' \in [Callers -> {"idle", "queued"} \cup Holding]
         /\ draft' \in [Callers -> Line]
         /\ LockHeld'
<1> DEFINE i == ChainOf[c]
<1>1. i \in Instances /\ \A d \in Callers : ChainOf[d] \in Instances
  BY ChainAssumption
<1>2. queue[i] # <<>> /\ Head(queue[i]) = c /\ queue[i] \in Seq(Callers)
  BY <1>1 DEF LockHeld, HasLock, TypeOK
<1>3. Tail(queue[i]) \in Seq(Callers)
  BY <1>2, HeadTailProperties
<1>4. queue' \in [Instances -> Seq(Callers)]
  BY <1>1, <1>3 DEF Release, TypeOK
<1>5. /\ pc' \in [Callers -> {"idle", "queued"} \cup Holding]
      /\ draft' \in [Callers -> Line]
  BY NoRecordIsNotRecord DEF Release, TypeOK
<1>6. ASSUME NEW d \in Callers, pc'[d] \in Holding PROVE HasLock(d)'
  <2>1. d # c /\ pc[d] \in Holding
    BY <1>6 DEF Release, TypeOK, Holding
  <2>2. queue[ChainOf[d]] # <<>> /\ Head(queue[ChainOf[d]]) = d
    BY <2>1 DEF LockHeld, HasLock
  <2>3. ChainOf[d] # i
    BY <1>2, <2>1, <2>2
  <2> QED BY <1>1, <2>2, <2>3 DEF Release, HasLock, TypeOK
<1> QED BY <1>4, <1>5, <1>6 DEF LockHeld

LEMMA ForgetSafe ==
  ASSUME TypeOK, LockHeld, NEW i \in Instances, Forget(i)
  PROVE  /\ phase' \in [Instances -> Phases]
         /\ view' \in [Instances -> [missing : BOOLEAN, count : Nat, last : Line]]
         /\ nextSeq' \in [Instances -> Nat \ {0}]
         /\ lastId' \in [Instances -> Nat]
         /\ queue' \in [Instances -> Seq(Callers)]
         /\ pc' \in [Callers -> {"idle", "queued"} \cup Holding]
         /\ draft' \in [Callers -> Line]
         /\ LockHeld'
<1>1. /\ phase' \in [Instances -> Phases]
      /\ nextSeq' \in [Instances -> Nat \ {0}]
      /\ lastId' \in [Instances -> Nat]
      /\ queue' \in [Instances -> Seq(Callers)]
  BY DEF Forget, TypeOK, Phases
<1>4. view' \in [Instances -> [missing : BOOLEAN, count : Nat, last : Line]]
  BY NoRecordIsNotRecord DEF Forget, TypeOK, Unread
<1>2. /\ pc' \in [Callers -> {"idle", "queued"} \cup Holding]
      /\ draft' \in [Callers -> Line]
  BY NoRecordIsNotRecord DEF Forget, TypeOK
<1>3. ASSUME NEW d \in Callers, pc'[d] \in Holding PROVE HasLock(d)'
  <2>1. ChainOf[d] # i /\ pc[d] \in Holding
    BY <1>3 DEF Forget, CallersOf, Holding
  <2> QED BY <2>1, ChainAssumption DEF Forget, LockHeld, HasLock, TypeOK
<1> QED BY <1>1, <1>2, <1>3, <1>4 DEF LockHeld

LEMMA HistoryTypes ==
  ASSUME TypeOK
  PROVE  /\ \A S \in SUBSET Instances : LeaveBehind(S) => adrift' \subseteq Instances
         /\ \A c \in Callers : NoteDrift(c) => drifted' \in SUBSET Nat
<1>1. \A c \in Callers : draft[c].id \in Nat
  BY LineFields DEF TypeOK
<1> QED BY <1>1 DEF TypeOK, LeaveBehind, NoteDrift

LEMMA TypeAndLockInit == Init => TypeOK /\ LockHeld
<1> SUFFICES ASSUME Init PROVE TypeOK /\ LockHeld
  OBVIOUS
<1>1. <<>> \in Seq(Line) /\ <<>> \in Seq(Callers)
  OBVIOUS
<1>2. Unread \in [missing : BOOLEAN, count : Nat, last : Line]
  BY NoRecordIsNotRecord DEF Unread
<1>3. /\ view \in [Instances -> [missing : BOOLEAN, count : Nat, last : Line]]
      /\ draft \in [Callers -> Line]
  BY <1>2, NoRecordIsNotRecord DEF Init
<1>4. /\ phase \in [Instances -> Phases]
      /\ nextSeq \in [Instances -> Nat \ {0}]
      /\ lastId \in [Instances -> Nat]
      /\ queue \in [Instances -> Seq(Callers)]
      /\ pc \in [Callers -> {"idle", "queued"} \cup Holding]
  BY <1>1 DEF Init, Phases
<1>5. LockHeld
  BY DEF Init, LockHeld, Holding
<1> QED
  BY <1>1, <1>3, <1>4, <1>5 DEF Init, TypeOK

\* One step per action; what the helpers above settle is cited from them.
LEMMA TypeAndLockNext ==
  ASSUME TypeOK, LockHeld, [Next]_vars
  PROVE  (TypeOK /\ LockHeld)'
<1> USE DEF diskVars, objectVars, callVars, history
<1>0. /\ \A c \in Callers : ChainOf[c] \in Instances
      /\ \A c \in Callers : draft[c] \in Line /\ queue[ChainOf[c]] \in Seq(Callers)
  BY ChainAssumption DEF TypeOK
<1>1. ASSUME NEW i \in Instances, Construct(i) PROVE (TypeOK /\ LockHeld)'
  <2>1. /\ LastRecord(file, DOMAIN file) \in Line
        /\ Cardinality(Readable(file, DOMAIN file)) \in Nat
    BY LastRecordType DEF TypeOK
  <2>2. view' \in [Instances -> [missing : BOOLEAN, count : Nat, last : Line]]
    BY <1>1, <2>1 DEF Construct, TypeOK
  <2>3. TypeOK'
    BY <1>1, <2>2 DEF Construct, TypeOK, Phases
  <2>4. LockHeld'
    BY <1>1 DEF Construct, LockHeld, HasLock
  <2> QED BY <2>3, <2>4
<1>2. ASSUME NEW i \in Instances, Adopt(i) PROVE (TypeOK /\ LockHeld)'
  <2>1. view[i].count \in Nat /\ view[i].last.seq + 1 \in Nat \ {0} /\ view[i].last.id \in Nat
    BY LineFields DEF TypeOK
  <2>2. view' \in [Instances -> [missing : BOOLEAN, count : Nat, last : Line]]
    BY <1>2, NoRecordIsNotRecord DEF Adopt, TypeOK, Unread
  <2>3. TypeOK'
    BY <1>2, <2>1, <2>2 DEF Adopt, TypeOK, Phases
  <2>4. LockHeld'
    BY <1>2 DEF Adopt, LockHeld, HasLock
  <2> QED BY <2>3, <2>4
<1>3. ASSUME NEW i \in Instances, VerifyOnStartup(i) PROVE (TypeOK /\ LockHeld)'
  BY <1>3 DEF VerifyOnStartup, TypeOK, Phases, LockHeld, HasLock
<1>4. ASSUME NEW i \in Instances, Exit(i) PROVE (TypeOK /\ LockHeld)'
  <2>1. Forget(i)
    BY <1>4 DEF Exit
  <2>2. TypeOK'
    BY <1>4, <2>1, ForgetSafe DEF Exit, Forget, TypeOK
  <2> QED BY <2>1, <2>2, ForgetSafe
<1>5. ASSUME NEW c \in Callers, Call(c) PROVE (TypeOK /\ LockHeld)'
  <2>1. Append(queue[ChainOf[c]], c) \in Seq(Callers)
    BY <1>0
  <2>2. TypeOK'
    BY <1>0, <1>5, <2>1 DEF Call, TypeOK
  <2>3. ASSUME NEW d \in Callers, pc'[d] \in Holding PROVE HasLock(d)'
    <3>1. pc[d] \in Holding /\ HasLock(d)
      BY <1>5, <2>3 DEF Call, TypeOK, Holding, LockHeld
    <3>2. CASE ChainOf[d] = ChainOf[c]
      <4> DEFINE q == queue[ChainOf[c]]
      <4>1. q \in Seq(Callers) /\ q # <<>> /\ Head(q) = d
        BY <1>0, <3>1, <3>2 DEF HasLock
      <4>2. Append(q, c) # <<>> /\ Head(Append(q, c)) = Head(q)
        <5> HIDE DEF q
        <5> QED BY <4>1, AppendProperties
      <4>3. queue'[ChainOf[d]] = Append(q, c)
        BY <1>0, <1>5, <3>2 DEF Call, TypeOK
      <4> QED BY <4>1, <4>2, <4>3 DEF HasLock
    <3>3. CASE ChainOf[d] # ChainOf[c]
      BY <1>0, <1>5, <3>1, <3>3 DEF Call, HasLock, TypeOK
    <3> QED BY <3>2, <3>3
  <2> QED BY <2>2, <2>3 DEF LockHeld
<1>6. ASSUME NEW c \in Callers, Compute(c) PROVE (TypeOK /\ LockHeld)'
  <2>1. NextRecord(c) \in Line
    BY <1>0 DEF NextRecord, TypeOK, Line, Record
  <2>2. TypeOK'
    BY <1>6, <2>1 DEF Compute, TypeOK, Holding
  <2>3. LockHeld'
    BY <1>6 DEF Compute, LockHeld, HasLock, TypeOK
  <2> QED BY <2>2, <2>3
<1>7. ASSUME NEW c \in Callers, Write(c) PROVE (TypeOK /\ LockHeld)'
  <2>1. file' \in Seq(Line)
    BY <1>0, <1>7, WrittenType DEF Write, TypeOK
  <2>2. adrift' \subseteq Instances /\ drifted' \in SUBSET Nat
    BY <1>7, HistoryTypes DEF Write
  <2> QED BY <1>7, <2>1, <2>2 DEF Write, TypeOK, Holding, LockHeld, HasLock
<1>8. ASSUME NEW c \in Callers, Sync(c) PROVE (TypeOK /\ LockHeld)'
  BY <1>8 DEF Sync, TypeOK, Holding, LockHeld, HasLock
<1>9. ASSUME NEW c \in Callers, Commit(c) PROVE (TypeOK /\ LockHeld)'
  <2>1. Release(c) /\ pc[c] \in Holding
    BY <1>9 DEF Commit, Holding
  <2>2. draft[c].seq + 1 \in Nat \ {0} /\ draft[c].id \in Nat
    BY <1>0, LineFields
  <2>3. TypeOK'
    <3>1. nextSeq' \in [Instances -> Nat \ {0}] /\ lastId' \in [Instances -> Nat]
      BY <1>0, <1>9, <2>2 DEF Commit, AdvanceHead, TypeOK
    <3>3. acked' \in SUBSET Nat
      BY <1>9, <2>2 DEF Commit, TypeOK
    <3> QED BY <1>9, <2>1, <3>1, <3>3, ReleaseSafe DEF Commit, TypeOK
  <2> QED BY <2>1, <2>3, ReleaseSafe
<1>10. ASSUME NEW c \in Callers, WriteRejected(c) PROVE (TypeOK /\ LockHeld)'
  <2>1. Release(c) /\ pc[c] \in Holding
    BY <1>10 DEF WriteRejected, Holding
  <2>2. TypeOK'
    BY <1>10, <2>1, ReleaseSafe DEF WriteRejected, TypeOK
  <2> QED BY <2>1, <2>2, ReleaseSafe
<1>11. ASSUME NEW c \in Callers, Fragment(c)
       PROVE  /\ file' \in Seq(Line) /\ unterminated' \in BOOLEAN /\ exists' \in BOOLEAN
              /\ drifted' \in SUBSET Nat /\ torn' \in Nat
  <2>1. PICK line \in {draft[c], NoRecord} : file' = Written(file, unterminated, line)
    BY <1>11 DEF Fragment
  <2>2. line \in Line /\ file \in Seq(Line) /\ unterminated \in BOOLEAN
    BY <1>0, NoRecordIsNotRecord DEF TypeOK
  <2>3. drifted' \in SUBSET Nat /\ torn' \in Nat
    BY <1>11, HistoryTypes DEF Fragment, TypeOK
  <2> QED BY <1>11, <2>1, <2>2, <2>3, WrittenType DEF Fragment
<1>12. ASSUME NEW c \in Callers, WriteShort(c) PROVE (TypeOK /\ LockHeld)'
  <2>1. Fragment(c)
    BY <1>12 DEF WriteShort
  <2>2. TypeOK'
    <3>1. adrift' \subseteq Instances
      BY <1>12, HistoryTypes DEF WriteShort
    <3> QED BY <1>11, <1>12, <2>1, <3>1 DEF WriteShort, TypeOK, Holding
  <2>3. LockHeld'
    BY <1>12 DEF WriteShort, LockHeld, HasLock, Holding, TypeOK
  <2> QED BY <2>2, <2>3
<1>13. ASSUME NEW c \in Callers, WriteCut(c) PROVE (TypeOK /\ LockHeld)'
  <2>1. Fragment(c) /\ Forget(ChainOf[c])
    BY <1>13 DEF WriteCut
  <2>2. TypeOK'
    <3>1. adrift' \subseteq Instances
      BY <1>13 DEF WriteCut
    <3> QED BY <1>0, <1>11, <2>1, <3>1, ForgetSafe DEF Forget, TypeOK
  <2> QED BY <1>0, <2>1, <2>2, ForgetSafe
<1>14. ASSUME NEW c \in Callers, SyncFailed(c) PROVE (TypeOK /\ LockHeld)'
  <2>1. Release(c) /\ pc[c] \in Holding
    BY <1>14 DEF SyncFailed, Holding
  <2>2. TypeOK'
    <3>1. adrift' \subseteq Instances
      BY <1>0, <1>14, HistoryTypes DEF SyncFailed
    <3> QED BY <1>14, <2>1, <3>1, ReleaseSafe DEF SyncFailed, TypeOK
  <2> QED BY <2>1, <2>2, ReleaseSafe
<1>15. CASE UNCHANGED vars
  BY <1>15 DEF vars, TypeOK, LockHeld, HasLock
<1> QED
  BY <1>1, <1>2, <1>3, <1>4, <1>5, <1>6, <1>7, <1>8, <1>9, <1>10, <1>12, <1>13,
     <1>14, <1>15
  DEF Next, ObjectStep, Settle, FaultStep

\* Every variable has its type, whatever the faults and however many
\* processes write the file; the lock is what keeps the queues typed.
THEOREM TypeCorrect == Spec => []TypeOK
<1>1. Spec => [](TypeOK /\ LockHeld)
  BY TypeAndLockInit, TypeAndLockNext, PTL DEF Spec
<1> QED BY <1>1, PTL

\* Two callers of one chain object are never both between the computation of
\* a record and the end of append(): the promise-chained lock excludes them
\* (chain.ts:261), under every fault and with other processes writing too.
THEOREM LockExcludes ==
  Spec => [](\A c, d \in Callers :
               (pc[c] \in Holding /\ pc[d] \in Holding /\ ChainOf[c] = ChainOf[d]) => c = d)
<1>1. Spec => []LockHeld
  BY TypeAndLockInit, TypeAndLockNext, PTL DEF Spec
<1>2. LockHeld => \A c, d \in Callers :
        (pc[c] \in Holding /\ pc[d] \in Holding /\ ChainOf[c] = ChainOf[d]) => c = d
  BY DEF LockHeld, HasLock
<1> QED BY <1>1, <1>2, PTL
-----------------------------------------------------------------------------
(***************************************************************************)
(* Part 2: what append() writes and returns.                               *)
(***************************************************************************)

\* What append() is about to write, and what it has returned, are records.
RealRecords ==
    /\ \A c \in Callers : pc[c] \in Holding => draft[c] \in Record
    /\ 0 \notin acked

LEMMA RealRecordsNext ==
  ASSUME TypeOK, RealRecords, [Next]_vars
  PROVE  RealRecords'
<1>1. ASSUME UNCHANGED <<pc, draft, acked>>  PROVE RealRecords'
  BY <1>1 DEF RealRecords
<1>2. ASSUME NEW c \in Callers, NEW at \in {"idle", "queued", "write", "sync", "commit"},
             pc' = [pc EXCEPT ![c] = at], UNCHANGED <<draft, acked>>,
             at \in Holding => draft[c] \in Record
      PROVE  RealRecords'
  BY <1>2 DEF RealRecords, TypeOK, Holding
<1>3. ASSUME NEW c \in Callers, Release(c), acked' \subseteq acked \cup {draft[c].id},
             draft[c] \in Record
      PROVE  RealRecords'
  <2>1. draft[c].id # 0
    BY <1>3 DEF Record
  <2> QED  BY <1>3, <2>1 DEF RealRecords, Release, TypeOK, Holding
<1>4. ASSUME NEW i \in Instances, Forget(i)  PROVE RealRecords'
  BY <1>4 DEF RealRecords, Forget, TypeOK, Holding
<1>5. ASSUME NEW c \in Callers, pc[c] \in Holding  PROVE draft[c] \in Record
  BY <1>5 DEF RealRecords
<1>6. ASSUME NEW i \in Instances, ObjectStep(i)  PROVE RealRecords'
  <2>1. CASE Exit(i)
    BY <1>4, <2>1 DEF Exit
  <2>2. CASE Construct(i) \/ Adopt(i) \/ VerifyOnStartup(i)
    BY <1>1, <2>2 DEF Construct, Adopt, VerifyOnStartup, callVars
  <2> QED  BY <1>6, <2>1, <2>2 DEF ObjectStep
<1>7. ASSUME NEW c \in Callers, Compute(c)  PROVE RealRecords'
  <2>1. NextRecord(c) \in Record
    BY ChainAssumption DEF NextRecord, TypeOK, Record
  <2>2. /\ draft' = [draft EXCEPT ![c] = NextRecord(c)]
        /\ pc' = [pc EXCEPT ![c] = "write"] /\ acked' = acked
    BY <1>7 DEF Compute
  <2> HIDE DEF NextRecord
  <2> QED  BY <2>1, <2>2 DEF RealRecords, TypeOK, Holding
<1>8. ASSUME NEW c \in Callers, Write(c) \/ WriteShort(c) \/ Sync(c)  PROVE RealRecords'
  <2>1. pc[c] \in Holding
    BY <1>8 DEF Write, WriteShort, Sync, Holding
  <2> QED  BY <1>2, <1>5, <1>8, <2>1 DEF Write, WriteShort, Sync
<1>9. ASSUME NEW c \in Callers, WriteRejected(c) \/ SyncFailed(c) \/ Commit(c)
      PROVE  RealRecords'
  <2>1. pc[c] \in Holding
    BY <1>9 DEF WriteRejected, SyncFailed, Commit, Holding
  <2> QED  BY <1>3, <1>5, <1>9, <2>1 DEF WriteRejected, SyncFailed, Commit
<1>10. ASSUME NEW c \in Callers, Call(c)  PROVE RealRecords'
  BY <1>2, <1>10 DEF Call, Holding
<1>11. ASSUME NEW c \in Callers, WriteCut(c)  PROVE RealRecords'
  BY <1>4, <1>11, ChainAssumption DEF WriteCut
<1>12. CASE UNCHANGED vars
  BY <1>1, <1>12 DEF vars, callVars
<1> QED
  BY <1>6, <1>7, <1>8, <1>9, <1>10, <1>11, <1>12 DEF Next, Settle, FaultStep
-----------------------------------------------------------------------------
(***************************************************************************)
(* Part 3: the links of the chain.  The invariant says that what an object *)
(* holds in memory is the tail of the file, unless it was left behind:     *)
(* what init() read, the cached head when no call is past its write, the   *)
(* record a caller is about to write or has written.  An object that was   *)
(* left behind is only known by the ids it leaves in `drifted`.            *)
(***************************************************************************)
TailOfFile == LastRecord(file, DOMAIN file)

Calling == \A c \in Callers : pc[c] # "idle" => phase[ChainOf[c]] = "ready"

ReadIsCurrent ==
    \A i \in Instances : phase[i] = "reading" =>
        /\ nextSeq[i] = 1 /\ lastId[i] = 0
        /\ i \notin adrift =>
             /\ view[i].count = Cardinality(Readable(file, DOMAIN file))
             /\ view[i].last = TailOfFile

HeadIsCurrent ==
    \A i \in Instances \ adrift :
        /\ phase[i] \in {"verifying", "ready"}
        /\ \A c \in CallersOf(i) : pc[c] \notin {"sync", "commit"}
        => nextSeq[i] = TailOfFile.seq + 1 /\ lastId[i] = TailOfFile.id

DraftIsCurrent ==
    \A c \in Callers : ChainOf[c] \notin adrift =>
        /\ pc[c] = "write" => Continues(draft[c], TailOfFile)
        /\ pc[c] \in {"sync", "commit"} => draft[c] = TailOfFile

ChainInv ==
    /\ TypeOK /\ LockHeld /\ RealRecords
    /\ Calling /\ ReadIsCurrent /\ HeadIsCurrent /\ DraftIsCurrent
    /\ VerifyPasses /\ StartNeverRefused

\* Reading looks at the lines it is given only.
LEMMA SameReading ==
  ASSUME NEW f, NEW g, NEW n \in Nat, \A k \in 1 .. n : f[k] = g[k]
  PROVE  /\ Readable(f, 1 .. n) = Readable(g, 1 .. n)
         /\ LastRecord(f, 1 .. n) = LastRecord(g, 1 .. n)
<1> DEFINE R == Readable(f, 1 .. n)
<1>1. R = Readable(g, 1 .. n) /\ R \in SUBSET (1 .. n)
  BY DEF Readable
<1>2. CASE R = {}
  BY <1>1, <1>2 DEF LastRecord
<1>3. CASE R # {}
  <2> DEFINE m == CHOOSE k \in R : \A j \in R : j <= k
  <2>1. m \in R
    <3>1. \E k \in R : \A j \in R : j <= k
      <4> HIDE DEF R
      <4> QED BY <1>1, <1>3, GreatestExists
    <3> QED BY <3>1
  <2>2. f[m] = g[m]
    BY <1>1, <2>1
  <2>3. LastRecord(f, 1 .. n) = f[m] /\ LastRecord(g, 1 .. n) = g[m]
    BY <1>1, <1>3 DEF LastRecord
  <2> HIDE DEF m
  <2> QED BY <1>1, <2>2, <2>3
<1> QED BY <1>2, <1>3

\* A record at the end of what is read is the last record.
LEMMA EndIsLast ==
  ASSUME NEW f, NEW n \in Nat \ {0}, f[n] # NoRecord
  PROVE  LastRecord(f, 1 .. n) = f[n]
<1> DEFINE R == Readable(f, 1 .. n)
           m == CHOOSE k \in R : \A j \in R : j <= k
<1>1. R \in SUBSET (1 .. n) /\ n \in R
  BY DEF Readable
<1>2. \A j \in R : j <= n
  BY <1>1
<1>3. \A k \in R : n <= k => k = n
  BY <1>1
<1>4. LastRecord(f, 1 .. n) = f[m]
  BY <1>1 DEF LastRecord
<1>5. m = n
  <2> HIDE DEF R
  <2> QED BY <1>1, <1>2, <1>3
<1> HIDE DEF m
<1> QED BY <1>4, <1>5

\* Nothing readable was counted exactly if there is no last record.
LEMMA NoneCounted ==
  ASSUME NEW f \in Seq(Line), Cardinality(Readable(f, DOMAIN f)) = 0
  PROVE  LastRecord(f, DOMAIN f) = NoRecord /\ RecordIds(f) = {}
<1> DEFINE R == Readable(f, DOMAIN f)
<1>1. R \in SUBSET (1 .. Len(f)) /\ Len(f) \in Nat
  BY DEF Readable
<1>2. R = {}
  <2>1. IsFiniteSet(1 .. Len(f))
    BY <1>1, FS_Interval
  <2> HIDE DEF R
  <2>2. IsFiniteSet(R)
    BY <1>1, <2>1, FS_Subset
  <2>3. Cardinality(R) = 0
    BY DEF R
  <2> QED BY <2>2, <2>3, FS_EmptySet
<1> QED BY <1>2 DEF LastRecord, RecordIds

\* A line that is written changes none of the lines before it, and the last
\* one only if it was incomplete.
LEMMA WrittenLines ==
  ASSUME NEW f \in Seq(Line), NEW open \in BOOLEAN, NEW line \in Line,
         NEW g, g = Written(f, open, line), NEW n, n = Len(f)
  PROVE  /\ n \in Nat
         /\ open => /\ DOMAIN g = 1 .. n
                    /\ \A k \in 1 .. n : k # n => g[k] = f[k]
                    /\ n \in DOMAIN g => g[n] = NoRecord
         /\ ~open => /\ DOMAIN g = 1 .. (n + 1)
                     /\ \A k \in 1 .. n : g[k] = f[k]
                     /\ g[n + 1] = line
<1>1. n = Len(f) /\ n \in Nat /\ DOMAIN f = 1 .. Len(f)
  OBVIOUS
<1>2. CASE open
  <2>1. g = [f EXCEPT ![Len(f)] = NoRecord]
    BY <1>2 DEF Written
  <2> QED BY <1>1, <1>2, <2>1
<1>3. CASE ~open
  <2>1. g = Append(f, line)
    BY <1>3 DEF Written
  <2>2. /\ Len(g) = Len(f) + 1 /\ g \in Seq(Line)
        /\ \A k \in 1 .. Len(f) : g[k] = f[k]
        /\ g[Len(g)] = line
    BY <2>1, AppendProperties
  <2>3. DOMAIN g = 1 .. Len(g)
    BY <2>2
  <2> QED BY <1>1, <1>3, <2>2, <2>3
<1> QED BY <1>2, <1>3

\* What a caller writes, whole or in part, continues the chain, or its
\* object had been left behind and the history says so.
LEMMA WritingKeepsLinks ==
  ASSUME ChainInv, NEW c \in Callers, pc[c] = "write", NEW line \in {draft[c], NoRecord},
         file' = Written(file, unterminated, line), NoteDrift(c)
  PROVE  VerifyPasses'
<1> DEFINE n == Len(file)
<1>1. /\ file \in Seq(Line) /\ unterminated \in BOOLEAN /\ line \in Line
      /\ draft[c] \in Record /\ drifted \subseteq drifted'
      /\ n \in Nat /\ DOMAIN file = 1 .. n
  BY NoRecordIsNotRecord DEF ChainInv, TypeOK, NoteDrift, RealRecords, Holding
<1>7. file' = Written(file, unterminated, line) /\ n = Len(file)
  OBVIOUS
<1> HIDE DEF n
<1>6. /\ unterminated =>
           /\ DOMAIN file' = 1 .. n
           /\ \A j \in 1 .. n : j # n => file'[j] = file[j]
           /\ n \in DOMAIN file' => file'[n] = NoRecord
      /\ ~unterminated =>
           /\ DOMAIN file' = 1 .. (n + 1)
           /\ \A j \in 1 .. n : file'[j] = file[j]
           /\ file'[n + 1] = line
  <2>1. file \in Seq(Line) /\ unterminated \in BOOLEAN /\ line \in Line
    BY <1>1
  <2> QED BY ONLY <1>7, <2>1, WrittenLines
<1> SUFFICES ASSUME NEW k \in Readable(file', DOMAIN file')
             PROVE  \/ file'[k].id \in drifted'
                    \/ Continues(file'[k], LastRecord(file', 1 .. (k - 1)))
  BY DEF VerifyPasses, Continues
<1>2. CASE k \in 1 .. n /\ file'[k] = file[k]
             /\ \A j \in 1 .. (k - 1) : file'[j] = file[j]
  <2>1. k \in Readable(file, DOMAIN file) /\ k - 1 \in Nat
    BY <1>1, <1>2 DEF Readable
  <2>2. LastRecord(file', 1 .. (k - 1)) = LastRecord(file, 1 .. (k - 1))
    BY <1>2, <2>1, SameReading
  <2> QED BY <1>1, <1>2, <2>1, <2>2 DEF ChainInv, VerifyPasses
<1>3. CASE ~unterminated /\ k = n + 1
  <2>1. file'[k] = draft[c] /\ \A j \in 1 .. n : file'[j] = file[j]
    BY <1>1, <1>3, <1>6 DEF Readable
  <2>2. LastRecord(file', 1 .. (k - 1)) = TailOfFile
    <3>1. k - 1 = n
      BY <1>1, <1>3
    <3>2. LastRecord(file', 1 .. n) = LastRecord(file, 1 .. n)
      <4>1. n \in Nat /\ \A j \in 1 .. n : file'[j] = file[j]
        BY <1>1, <2>1
      <4> QED BY <4>1, SameReading
    <3> QED BY <1>1, <3>1, <3>2 DEF TailOfFile
  <2> QED BY <2>1, <2>2 DEF ChainInv, DraftIsCurrent, NoteDrift
<1>4. CASE unterminated
  <2>0. k \in DOMAIN file' /\ file'[k] # NoRecord
    BY DEF Readable
  <2>1. /\ k \in 1 .. n /\ k # n
        /\ \A j \in 1 .. n : j # n => file'[j] = file[j]
    BY <1>1, <1>4, <1>6, <2>0
  <2>2. \A j \in 1 .. (k - 1) : j \in 1 .. n /\ j # n
    BY <1>1, <2>1
  <2> QED BY <1>2, <2>1, <2>2
<1>5. CASE ~unterminated /\ k # n + 1
  <2>1. k \in 1 .. n /\ \A j \in 1 .. n : file'[j] = file[j]
    BY <1>1, <1>5, <1>6 DEF Readable
  <2>2. \A j \in 1 .. (k - 1) : j \in 1 .. n
    BY <1>1, <2>1
  <2> QED BY <1>2, <2>1, <2>2
<1> QED BY <1>3, <1>4, <1>5

LEMMA ChainInvInit == Init => ChainInv
<1> SUFFICES ASSUME Init PROVE ChainInv
  OBVIOUS
<1>1. TypeOK /\ LockHeld /\ RealRecords
  BY TypeAndLockInit DEF Init, RealRecords, Holding
<1>2. Calling /\ ReadIsCurrent /\ HeadIsCurrent /\ DraftIsCurrent /\ StartNeverRefused
  BY DEF Init, Calling, ReadIsCurrent, HeadIsCurrent, DraftIsCurrent, StartNeverRefused
<1>3. VerifyPasses
  BY DEF Init, VerifyPasses, Readable
<1> QED BY <1>1, <1>2, <1>3 DEF ChainInv

\* A step that leaves the file and the objects alone, and forgets none that
\* was left behind.
LEMMA ObjectsUnchanged ==
  ASSUME ChainInv, UNCHANGED <<file, drifted, phase, view, nextSeq, lastId>>,
         adrift \subseteq adrift'
  PROVE  /\ ReadIsCurrent' /\ VerifyPasses' /\ StartNeverRefused'
         /\ TailOfFile' = TailOfFile
<1>1. TailOfFile' = TailOfFile
  BY DEF TailOfFile
<1>2. ReadIsCurrent'
  BY <1>1 DEF ChainInv, ReadIsCurrent
<1>3. VerifyPasses' /\ StartNeverRefused'
  BY DEF ChainInv, VerifyPasses, StartNeverRefused
<1> QED BY <1>1, <1>2, <1>3

\* An object goes away; the others hold what they held.
LEMMA ExitKeeps ==
  ASSUME ChainInv, NEW i \in Instances, Exit(i)
  PROVE  /\ Calling' /\ ReadIsCurrent' /\ HeadIsCurrent' /\ DraftIsCurrent'
         /\ VerifyPasses' /\ StartNeverRefused'
<1>1. /\ file' = file /\ drifted' = drifted /\ adrift' = adrift \ {i}
      /\ TailOfFile' = TailOfFile
  BY DEF Exit, diskVars, TailOfFile
<1>2. \A j \in Instances : j # i =>
        /\ phase'[j] = phase[j] /\ view'[j] = view[j]
        /\ nextSeq'[j] = nextSeq[j] /\ lastId'[j] = lastId[j]
  BY DEF Exit, Forget, ChainInv, TypeOK
<1>3. phase'[i] = "closed"
  BY DEF Exit, Forget, ChainInv, TypeOK
<1>4. \A c \in Callers :
        /\ pc'[c] = IF ChainOf[c] = i THEN "idle" ELSE pc[c]
        /\ ChainOf[c] # i => draft'[c] = draft[c]
  BY DEF Exit, Forget, CallersOf
<1>5. Calling'
  BY <1>2, <1>4, ChainAssumption DEF ChainInv, Calling
<1>6. ReadIsCurrent'
  BY <1>1, <1>2, <1>3 DEF ChainInv, ReadIsCurrent
<1>7. HeadIsCurrent'
  <2> SUFFICES ASSUME NEW j \in Instances \ adrift', phase'[j] \in {"verifying", "ready"},
                      \A c \in CallersOf(j) : pc'[c] \notin {"sync", "commit"}
               PROVE  nextSeq'[j] = TailOfFile'.seq + 1 /\ lastId'[j] = TailOfFile'.id
    BY DEF HeadIsCurrent, CallersOf
  <2>1. j # i /\ j \notin adrift /\ phase'[j] = phase[j]
    BY <1>1, <1>2, <1>3
  <2>2. \A c \in CallersOf(j) : pc'[c] = pc[c]
    BY <1>4, <2>1 DEF CallersOf
  <2> QED BY <1>1, <1>2, <2>1, <2>2 DEF ChainInv, HeadIsCurrent
<1>8. DraftIsCurrent'
  BY <1>1, <1>4 DEF ChainInv, DraftIsCurrent, Continues
<1>9. VerifyPasses' /\ StartNeverRefused'
  BY <1>1, <1>2, <1>3 DEF ChainInv, VerifyPasses, StartNeverRefused
<1> QED BY <1>5, <1>6, <1>7, <1>8, <1>9

LEMMA ChainInvOpening ==
  ASSUME ChainInv, NEW i \in Instances, ObjectStep(i)
  PROVE  ChainInv'
<1> USE DEF diskVars, objectVars, callVars, history
<1>0. /\ TypeOK' /\ LockHeld' /\ RealRecords' /\ TypeOK
      /\ Calling /\ ReadIsCurrent /\ HeadIsCurrent /\ DraftIsCurrent
      /\ VerifyPasses /\ StartNeverRefused
  BY TypeAndLockNext, RealRecordsNext DEF ChainInv, Next
<1>1. CASE Construct(i)
  <2>1. /\ file' = file /\ drifted' = drifted /\ pc' = pc /\ draft' = draft
        /\ adrift' = adrift \ {i} /\ TailOfFile' = TailOfFile
    BY <1>1 DEF Construct, TailOfFile
  <2>2. \A j \in Instances : j # i =>
          /\ phase'[j] = phase[j] /\ view'[j] = view[j]
          /\ nextSeq'[j] = nextSeq[j] /\ lastId'[j] = lastId[j]
    BY <1>0, <1>1 DEF Construct, TypeOK
  <2>3. /\ phase'[i] = "reading" /\ nextSeq'[i] = 1 /\ lastId'[i] = 0
        /\ view'[i].count = Cardinality(Readable(file, DOMAIN file))
        /\ view'[i].last = TailOfFile
    BY <1>0, <1>1 DEF Construct, TypeOK, TailOfFile
  <2>4. \A c \in Callers : ChainOf[c] = i => pc[c] = "idle"
    BY <1>0, <1>1 DEF Calling, Construct, Open
  <2>5. Calling'
    BY <1>0, <2>1, <2>2, <2>4, ChainAssumption DEF Calling
  <2>6. ReadIsCurrent'
    BY <1>0, <2>1, <2>2, <2>3 DEF ReadIsCurrent
  <2>7. HeadIsCurrent'
    BY <1>0, <2>1, <2>2, <2>3 DEF HeadIsCurrent, CallersOf
  <2>8. DraftIsCurrent'
    BY <1>0, <2>1, <2>4 DEF DraftIsCurrent, Continues
  <2>9. VerifyPasses' /\ StartNeverRefused'
    BY <1>0, <2>1, <2>2, <2>3 DEF VerifyPasses, StartNeverRefused
  <2> QED BY <1>0, <2>5, <2>6, <2>7, <2>8, <2>9 DEF ChainInv
<1>2. CASE Adopt(i)
  <2>1. /\ file' = file /\ drifted' = drifted /\ pc' = pc /\ draft' = draft
        /\ adrift' = adrift /\ TailOfFile' = TailOfFile /\ phase[i] = "reading"
    BY <1>2 DEF Adopt, TailOfFile
  <2>2. \A j \in Instances : j # i =>
          /\ phase'[j] = phase[j] /\ view'[j] = view[j]
          /\ nextSeq'[j] = nextSeq[j] /\ lastId'[j] = lastId[j]
    BY <1>0, <1>2 DEF Adopt, TypeOK
  <2>3. phase'[i] \in {"refused", "verifying", "ready"}
    BY <1>0, <1>2 DEF Adopt, TypeOK
  <2>4. \A c \in Callers : ChainOf[c] = i => pc[c] = "idle"
    BY <1>0, <2>1 DEF Calling
  <2>5. file \in Seq(Line) /\ nextSeq[i] = 1 /\ lastId[i] = 0
    BY <1>0, <2>1 DEF TypeOK, ReadIsCurrent
  <2>6. i \notin adrift =>
          /\ view[i].last = TailOfFile
          /\ view[i].count = 0 => TailOfFile = NoRecord /\ RecordIds(file) = {}
    BY <1>0, <2>1, <2>5, NoneCounted DEF ReadIsCurrent, TailOfFile
  <2>7. HeadIsCurrent'
    <3>1. ASSUME i \notin adrift, phase'[i] # "refused"
          PROVE  nextSeq'[i] = TailOfFile.seq + 1 /\ lastId'[i] = TailOfFile.id
      <4>1. ~(~view[i].missing /\ view[i].count = 0 /\ file # <<>>)
        BY <1>0, <1>2, <3>1 DEF Adopt, TypeOK
      <4>2. CASE view[i].count = 0
        <5>1. nextSeq'[i] = 1 /\ lastId'[i] = 0 /\ TailOfFile = NoRecord
          BY <1>2, <2>5, <2>6, <3>1, <4>1, <4>2 DEF Adopt
        <5> QED BY <5>1 DEF NoRecord
      <4>3. CASE view[i].count # 0
        BY <1>0, <1>2, <2>6, <3>1, <4>1, <4>3 DEF Adopt, TypeOK
      <4> QED BY <4>2, <4>3
    <3>2. \A j \in Instances \ adrift' : j # i =>
            (/\ phase'[j] \in {"verifying", "ready"}
             /\ \A c \in CallersOf(j) : pc'[c] \notin {"sync", "commit"}
             => nextSeq'[j] = TailOfFile.seq + 1 /\ lastId'[j] = TailOfFile.id)
      BY <1>0, <2>1, <2>2 DEF HeadIsCurrent
    <3> QED BY <2>1, <3>1, <3>2 DEF HeadIsCurrent, CallersOf
  <2>8. Calling' /\ ReadIsCurrent' /\ DraftIsCurrent' /\ VerifyPasses'
    BY <1>0, <2>1, <2>2, <2>3, <2>4, ChainAssumption
    DEF Calling, ReadIsCurrent, DraftIsCurrent, VerifyPasses, Continues
  <2>9. StartNeverRefused'
    <3>1. phase'[i] = "refused" => i \in adrift \/ RecordIds(file) = {}
      BY <1>0, <1>2, <2>6 DEF Adopt, TypeOK
    <3> QED BY <1>0, <2>1, <2>2, <3>1 DEF StartNeverRefused
  <2> QED BY <1>0, <2>7, <2>8, <2>9 DEF ChainInv
<1>3. CASE VerifyOnStartup(i)
  <2>1. /\ file' = file /\ drifted' = drifted /\ pc' = pc /\ draft' = draft
        /\ adrift' = adrift /\ TailOfFile' = TailOfFile
        /\ view' = view /\ nextSeq' = nextSeq /\ lastId' = lastId
        /\ phase[i] = "verifying"
    BY <1>3 DEF VerifyOnStartup, TailOfFile
  <2>2. \A j \in Instances : j # i => phase'[j] = phase[j]
    BY <1>0, <1>3 DEF VerifyOnStartup, TypeOK
  <2>3. phase'[i] = IF VerifyOk(file) THEN "ready" ELSE "refused"
    BY <1>0, <1>3 DEF VerifyOnStartup, TypeOK
  <2>4. Calling' /\ ReadIsCurrent' /\ DraftIsCurrent' /\ VerifyPasses'
    BY <1>0, <2>1, <2>2, <2>3, ChainAssumption
    DEF Calling, ReadIsCurrent, DraftIsCurrent, VerifyPasses, Continues
  <2>5. HeadIsCurrent'
    BY <1>0, <2>1, <2>2, <2>3 DEF HeadIsCurrent, CallersOf
  <2>6. ~VerifyOk(file) => drifted \cap RecordIds(file) # {}
    BY <1>0 DEF VerifyOk, VerifyPasses, RecordIds
  <2>7. StartNeverRefused'
    BY <1>0, <2>1, <2>2, <2>3, <2>6 DEF StartNeverRefused
  <2> QED BY <1>0, <2>4, <2>5, <2>7 DEF ChainInv
<1>4. CASE Exit(i)
  BY <1>0, <1>4, ExitKeeps DEF ChainInv
<1> QED BY <1>1, <1>2, <1>3, <1>4 DEF ObjectStep

\* A caller goes from one point of append() to another without the file, the
\* head of its object or its record being touched.
LEMMA CallersMove ==
  ASSUME ChainInv, NEW c \in Callers, NEW at,
         UNCHANGED <<file, drifted, phase, view, nextSeq, lastId>>,
         adrift' \in {adrift, adrift \cup {ChainOf[c]}},
         \A d \in Callers : pc'[d] = IF d = c THEN at ELSE pc[d],
         \A d \in Callers : d # c => draft'[d] = draft[d],
         phase[ChainOf[c]] = "ready",
         \/ at \in {"idle", "queued"}
         \/ at = "commit" /\ pc[c] = "sync" /\ draft'[c] = draft[c],
         pc[c] \in {"sync", "commit"} /\ at # "commit" => adrift' # adrift \/ ChainOf[c] \in adrift
  PROVE  /\ Calling' /\ ReadIsCurrent' /\ HeadIsCurrent' /\ DraftIsCurrent'
         /\ VerifyPasses' /\ StartNeverRefused'
<1>1. /\ ReadIsCurrent' /\ VerifyPasses' /\ StartNeverRefused'
      /\ TailOfFile' = TailOfFile
  BY ObjectsUnchanged
<1>2. Calling'
  BY DEF ChainInv, Calling
<1>3. HeadIsCurrent'
  <2> SUFFICES ASSUME NEW j \in Instances \ adrift', phase'[j] \in {"verifying", "ready"},
                      \A d \in CallersOf(j) : pc'[d] \notin {"sync", "commit"}
               PROVE  nextSeq'[j] = TailOfFile'.seq + 1 /\ lastId'[j] = TailOfFile'.id
    BY DEF HeadIsCurrent, CallersOf
  <2>1. \A d \in CallersOf(j) : pc[d] \notin {"sync", "commit"}
    BY DEF CallersOf
  <2> QED BY <1>1, <2>1 DEF ChainInv, HeadIsCurrent
<1>4. DraftIsCurrent'
  BY <1>1 DEF ChainInv, DraftIsCurrent, Continues
<1> QED BY <1>1, <1>2, <1>3, <1>4

\* The file moves on: the objects that exist are left behind, but for `kept`,
\* whose caller c has just written the record that is now the last.
LEMMA FileMoves ==
  ASSUME ChainInv, NEW c \in Callers, NEW kept \in SUBSET {ChainOf[c]},
         pc[c] = "write", phase' = phase, view' = view, nextSeq' = nextSeq,
         lastId' = lastId, draft' = draft, VerifyPasses',
         \A d \in Callers : pc'[d] = IF d = c THEN "sync" ELSE pc[d],
         LeaveBehind(Instances \ kept),
         kept # {} => TailOfFile' = draft[c]
  PROVE  /\ Calling' /\ ReadIsCurrent' /\ HeadIsCurrent' /\ DraftIsCurrent'
         /\ StartNeverRefused'
<1>1. \A j \in Instances : phase[j] # "closed" /\ j \notin adrift' => j = ChainOf[c] /\ kept # {}
  BY DEF LeaveBehind
<1>2. phase[ChainOf[c]] = "ready"
  BY DEF ChainInv, Calling
<1>3. Calling'
  BY DEF ChainInv, Calling
<1>4. ReadIsCurrent'
  BY <1>1, <1>2 DEF ChainInv, ReadIsCurrent
<1>5. HeadIsCurrent'
  BY <1>1 DEF HeadIsCurrent, CallersOf
<1>6. DraftIsCurrent'
  <2> SUFFICES ASSUME NEW d \in Callers, ChainOf[d] \notin adrift', pc'[d] \in Holding
               PROVE  d = c /\ kept # {}
    BY DEF DraftIsCurrent, Holding
  <2>1. pc[d] \in Holding /\ pc[c] \in Holding /\ ChainOf[d] \in Instances
    BY ChainAssumption DEF Holding
  <2>2. phase[ChainOf[d]] = "ready"
    BY <2>1 DEF ChainInv, Calling, Holding
  <2>3. ChainOf[d] = ChainOf[c] /\ kept # {}
    BY <1>1, <2>1, <2>2
  <2> QED BY <2>1, <2>3 DEF ChainInv, LockHeld, HasLock
<1>7. StartNeverRefused'
  BY <1>1, <1>2 DEF StartNeverRefused
<1> QED BY <1>3, <1>4, <1>5, <1>6, <1>7

LEMMA ChainInvCalling ==
  ASSUME ChainInv, NEW c \in Callers, Call(c) \/ Settle(c) \/ FaultStep(c)
  PROVE  ChainInv'
<1> USE DEF diskVars, objectVars, callVars, history
<1> DEFINE i == ChainOf[c]
<1>0. /\ TypeOK' /\ LockHeld' /\ RealRecords' /\ TypeOK /\ LockHeld /\ i \in Instances
      /\ Calling /\ ReadIsCurrent /\ HeadIsCurrent /\ DraftIsCurrent
      /\ VerifyPasses /\ StartNeverRefused /\ file \in Seq(Line)
  BY TypeAndLockNext, RealRecordsNext, ChainAssumption DEF ChainInv, Next, TypeOK
<1>1. CASE Call(c)
  <2>1. \A d \in Callers : pc'[d] = IF d = c THEN "queued" ELSE pc[d]
    BY <1>0, <1>1 DEF Call, TypeOK
  <2>2. /\ UNCHANGED <<file, drifted, phase, view, nextSeq, lastId, adrift, draft>>
        /\ pc[c] = "idle" /\ phase[i] = "ready"
    BY <1>1 DEF Call
  <2> QED BY <1>0, <2>1, <2>2, CallersMove DEF ChainInv
<1>2. CASE Compute(c)
  <2>1. /\ UNCHANGED <<file, drifted, phase, view, nextSeq, lastId, adrift>>
        /\ pc[c] = "queued" /\ HasLock(c)
    BY <1>2 DEF Compute
  <2>2. \A d \in Callers : /\ pc'[d] = IF d = c THEN "write" ELSE pc[d]
                           /\ draft'[d] = IF d = c THEN NextRecord(c) ELSE draft[d]
    BY <1>0, <1>2 DEF Compute, TypeOK
  <2>3. /\ ReadIsCurrent' /\ VerifyPasses' /\ StartNeverRefused'
        /\ TailOfFile' = TailOfFile
    BY <2>1, ObjectsUnchanged
  <2>4. phase[i] = "ready" /\ Calling'
    BY <1>0, <2>1, <2>2 DEF Calling
  <2>5. \A d \in CallersOf(i) : pc[d] \notin {"sync", "commit"}
    BY <1>0, <2>1 DEF CallersOf, LockHeld, HasLock, Holding
  <2>6. i \notin adrift => Continues(NextRecord(c), TailOfFile)
    BY <1>0, <2>4, <2>5 DEF HeadIsCurrent, NextRecord, Continues
  <2>7. HeadIsCurrent'
    <3> SUFFICES ASSUME NEW j \in Instances \ adrift', phase'[j] \in {"verifying", "ready"},
                        \A d \in CallersOf(j) : pc'[d] \notin {"sync", "commit"}
                 PROVE  nextSeq'[j] = TailOfFile'.seq + 1 /\ lastId'[j] = TailOfFile'.id
      BY DEF HeadIsCurrent, CallersOf
    <3>1. \A d \in CallersOf(j) : pc[d] \notin {"sync", "commit"}
      BY <2>1, <2>2 DEF CallersOf
    <3> QED BY <1>0, <2>1, <2>3, <3>1 DEF HeadIsCurrent
  <2>8. DraftIsCurrent'
    BY <1>0, <2>1, <2>2, <2>3, <2>6 DEF DraftIsCurrent, Continues
  <2> QED BY <1>0, <2>3, <2>4, <2>7, <2>8 DEF ChainInv
<1>3. CASE Write(c)
  <2>1. VerifyPasses'
    BY <1>3, WritingKeepsLinks DEF Write
  <2>2. /\ UNCHANGED <<phase, view, nextSeq, lastId, draft>> /\ pc[c] = "write"
        /\ \A d \in Callers : pc'[d] = IF d = c THEN "sync" ELSE pc[d]
    BY <1>0, <1>3 DEF Write, TypeOK
  <2>3. CASE unterminated
    <3>1. LeaveBehind(Instances \ {})
      BY <1>3, <2>3 DEF Write
    <3> QED BY <1>0, <2>1, <2>2, <3>1, FileMoves DEF ChainInv
  <2>4. CASE ~unterminated
    <3>1. LeaveBehind(Instances \ {i})
      BY <1>3, <2>4 DEF Write
    <3>2. TailOfFile' = draft[c]
      <4>1. file' = Append(file, draft[c])
        BY <1>3, <2>4 DEF Write, Written
      <4>2. draft[c] \in Record /\ draft[c] \in Line
        BY <2>2 DEF ChainInv, RealRecords, Holding, Line
      <4>3. /\ Len(file) \in Nat /\ file' \in Seq(Line)
            /\ Len(file') = Len(file) + 1 /\ file'[Len(file')] = draft[c]
        BY <1>0, <4>1, <4>2, AppendProperties
      <4>4. /\ DOMAIN file' = 1 .. Len(file') /\ Len(file') \in Nat \ {0}
            /\ file'[Len(file')] # NoRecord
        BY <4>2, <4>3, NoRecordIsNotRecord
      <4>5. LastRecord(file', 1 .. Len(file')) = file'[Len(file')]
        BY <4>4, EndIsLast
      <4> QED BY <4>3, <4>4, <4>5 DEF TailOfFile
    <3> QED BY <1>0, <2>1, <2>2, <3>1, <3>2, FileMoves DEF ChainInv
  <2> QED BY <2>3, <2>4
<1>4. CASE Sync(c)
  <2>1. \A d \in Callers : pc'[d] = IF d = c THEN "commit" ELSE pc[d]
    BY <1>0, <1>4 DEF Sync, TypeOK
  <2>2. /\ UNCHANGED <<file, drifted, phase, view, nextSeq, lastId, adrift, draft>>
        /\ pc[c] = "sync"
    BY <1>4 DEF Sync
  <2>3. phase[i] = "ready"
    BY <1>0, <2>2 DEF Calling
  <2> QED BY <1>0, <2>1, <2>2, <2>3, CallersMove DEF ChainInv
<1>5. CASE Commit(c)
  <2>1. /\ UNCHANGED <<file, drifted, phase, view, adrift>> /\ pc[c] = "commit"
        /\ TailOfFile' = TailOfFile
    BY <1>5 DEF Commit, TailOfFile
  <2>2. /\ \A d \in Callers : pc'[d] = IF d = c THEN "idle" ELSE pc[d]
        /\ \A d \in Callers : d # c => draft'[d] = draft[d]
    BY <1>0, <1>5 DEF Commit, Release, TypeOK
  <2>3. /\ nextSeq'[i] = draft[c].seq + 1 /\ lastId'[i] = draft[c].id
        /\ \A j \in Instances : j # i => nextSeq'[j] = nextSeq[j] /\ lastId'[j] = lastId[j]
    BY <1>0, <1>5 DEF Commit, AdvanceHead, TypeOK
  <2>4. phase[i] = "ready"
    BY <1>0, <2>1 DEF Calling
  <2>5. i \notin adrift => draft[c] = TailOfFile
    BY <1>0, <2>1 DEF DraftIsCurrent
  <2>6. Calling' /\ DraftIsCurrent' /\ VerifyPasses' /\ StartNeverRefused'
    BY <1>0, <2>1, <2>2
    DEF Calling, DraftIsCurrent, VerifyPasses, StartNeverRefused, Continues
  <2>7. ReadIsCurrent'
    BY <1>0, <2>1, <2>3, <2>4 DEF ReadIsCurrent
  <2>8. HeadIsCurrent'
    <3> SUFFICES ASSUME NEW j \in Instances \ adrift', phase'[j] \in {"verifying", "ready"},
                        \A d \in CallersOf(j) : pc'[d] \notin {"sync", "commit"}
                 PROVE  nextSeq'[j] = TailOfFile'.seq + 1 /\ lastId'[j] = TailOfFile'.id
      BY DEF HeadIsCurrent, CallersOf
    <3>1. CASE j = i
      BY <2>1, <2>3, <2>5, <3>1
    <3>2. CASE j # i
      <4>1. \A d \in CallersOf(j) : pc[d] \notin {"sync", "commit"}
        BY <2>2, <3>2 DEF CallersOf
      <4> QED BY <1>0, <2>1, <2>3, <3>2, <4>1 DEF HeadIsCurrent
    <3> QED BY <3>1, <3>2
  <2> QED BY <1>0, <2>6, <2>7, <2>8 DEF ChainInv
<1>6. CASE WriteRejected(c)
  <2>1. /\ \A d \in Callers : pc'[d] = IF d = c THEN "idle" ELSE pc[d]
        /\ \A d \in Callers : d # c => draft'[d] = draft[d]
    BY <1>0, <1>6 DEF WriteRejected, Release, TypeOK
  <2>2. /\ UNCHANGED <<file, drifted, phase, view, nextSeq, lastId, adrift>>
        /\ pc[c] = "write"
    BY <1>6 DEF WriteRejected
  <2>3. phase[i] = "ready"
    BY <1>0, <2>2 DEF Calling
  <2> QED BY <1>0, <2>1, <2>2, <2>3, CallersMove DEF ChainInv
<1>7. CASE WriteShort(c)
  <2>1. PICK line \in {draft[c], NoRecord} : file' = Written(file, unterminated, line)
    BY <1>7 DEF WriteShort, Fragment
  <2>2. VerifyPasses'
    BY <1>7, <2>1, WritingKeepsLinks DEF WriteShort, Fragment
  <2>3. /\ UNCHANGED <<phase, view, nextSeq, lastId, draft>> /\ pc[c] = "write"
        /\ \A d \in Callers : pc'[d] = IF d = c THEN "sync" ELSE pc[d]
        /\ LeaveBehind(Instances \ {})
    BY <1>0, <1>7 DEF WriteShort, TypeOK
  <2> QED BY <1>0, <2>2, <2>3, FileMoves DEF ChainInv
<1>8. CASE WriteCut(c)
  <2>1. PICK line \in {draft[c], NoRecord} : file' = Written(file, unterminated, line)
    BY <1>8 DEF WriteCut, Fragment
  <2>2. VerifyPasses'
    BY <1>8, <2>1, WritingKeepsLinks DEF WriteCut, Fragment
  <2>3. /\ phase'[i] = "closed"
        /\ \A j \in Instances : j # i => phase'[j] = phase[j]
        /\ nextSeq' = [nextSeq EXCEPT ![i] = 1] /\ lastId' = [lastId EXCEPT ![i] = 0]
        /\ \A d \in Callers : pc'[d] = IF ChainOf[d] = i THEN "idle" ELSE pc[d]
        /\ adrift' = {j \in Instances \ {i} : phase[j] # "closed"}
    BY <1>0, <1>8 DEF WriteCut, Forget, TypeOK, CallersOf
  <2>4. Calling'
    BY <1>0, <2>3, ChainAssumption DEF Calling
  <2>5. ReadIsCurrent' /\ HeadIsCurrent' /\ StartNeverRefused'
    BY <1>0, <2>3 DEF ReadIsCurrent, HeadIsCurrent, StartNeverRefused, TypeOK
  <2>6. DraftIsCurrent'
    <3> SUFFICES ASSUME NEW d \in Callers, ChainOf[d] \notin adrift', pc'[d] # "idle"
                 PROVE  FALSE
      BY DEF DraftIsCurrent
    <3>1. ChainOf[d] # i /\ pc[d] # "idle" /\ ChainOf[d] \in Instances
      BY <2>3, ChainAssumption
    <3>2. phase[ChainOf[d]] = "ready"
      BY <1>0, <3>1 DEF Calling
    <3> QED BY <2>3, <3>1, <3>2
  <2> QED BY <1>0, <2>2, <2>4, <2>5, <2>6 DEF ChainInv
<1>9. CASE SyncFailed(c)
  <2>1. /\ \A d \in Callers : pc'[d] = IF d = c THEN "idle" ELSE pc[d]
        /\ \A d \in Callers : d # c => draft'[d] = draft[d]
    BY <1>0, <1>9 DEF SyncFailed, Release, TypeOK
  <2>2. /\ UNCHANGED <<file, drifted, phase, view, nextSeq, lastId>>
        /\ pc[c] = "sync"
    BY <1>9 DEF SyncFailed
  <2>3. phase[i] = "ready"
    BY <1>0, <2>2 DEF Calling
  <2>4. adrift' = adrift \cup {i}
    BY <1>0, <1>9, <2>3 DEF SyncFailed, LeaveBehind
  <2> QED BY <1>0, <2>1, <2>2, <2>3, <2>4, CallersMove DEF ChainInv
<1> QED
  BY <1>1, <1>2, <1>3, <1>4, <1>5, <1>6, <1>7, <1>8, <1>9 DEF Settle, FaultStep

LEMMA ChainInvNext ==
  ASSUME ChainInv, [Next]_vars
  PROVE  ChainInv'
<1>1. CASE Next
  BY <1>1, ChainInvOpening, ChainInvCalling DEF Next
<1>2. CASE UNCHANGED vars
  <2>1. TypeOK' /\ LockHeld' /\ RealRecords'
    BY <1>2, TypeAndLockNext, RealRecordsNext DEF ChainInv
  <2> QED BY <1>2, <2>1
    DEF vars, diskVars, objectVars, callVars, history, ChainInv, Calling, ReadIsCurrent,
        HeadIsCurrent, DraftIsCurrent, VerifyPasses, StartNeverRefused, TailOfFile, CallersOf
<1> QED BY <1>1, <1>2

\* Whatever is open at once and whatever fails, what an object holds is the
\* tail of the file unless the file has moved on without it.
LEMMA ChainInvariant == Spec => []ChainInv
  BY ChainInvInit, ChainInvNext, PTL DEF Spec

\* verify() finds every record to continue the one before it, but for those
\* of an object that was left behind: across concurrent callers, any number
\* of writers, every fault, crashes between any two steps, and restarts.
THEOREM ChainVerifies == Spec => []VerifyPasses
<1>1. ChainInv => VerifyPasses
  BY DEF ChainInv
<1> QED BY <1>1, ChainInvariant, PTL

\* A start is refused only on a chain that such a record has broken, on one
\* another object has appended to meanwhile, or on one without a record.
THEOREM StartsSucceed == Spec => []StartNeverRefused
<1>1. ChainInv => StartNeverRefused
  BY DEF ChainInv
<1> QED BY <1>1, ChainInvariant, PTL
-----------------------------------------------------------------------------
(***************************************************************************)
(* Part 4: what is lost, and the log of HashChain.  Each write of which a  *)
(* part reached the file pays for two records; what it has not yet cost    *)
(* stands in the last line as long as that is incomplete.                  *)
(***************************************************************************)

\* Records that append() has returned or is about to, and that are not in
\* the file.
Pending == {draft[c].id : c \in {d \in Callers : pc[d] \in {"sync", "commit"}}}
Gone == (acked \cup Pending) \ RecordIds(file)

\* What the next write may still spoil: itself, and the last line if that
\* is a record.
AtRisk ==
    IF ~unterminated THEN 0
    ELSE IF file[Len(file)] = NoRecord THEN 1 ELSE 2

LossBound ==
    /\ unterminated => file # <<>>
    /\ IsFiniteSet(Gone)
    /\ Cardinality(Gone) + AtRisk <= 2 * torn

LEMMA OneMore ==
  ASSUME NEW S, IsFiniteSet(S), NEW x, NEW T, T \subseteq S \cup {x}
  PROVE  /\ IsFiniteSet(T) /\ Cardinality(T) \in Nat /\ Cardinality(S) \in Nat
         /\ Cardinality(T) <= Cardinality(S) + 1
         /\ T \subseteq S => Cardinality(T) <= Cardinality(S)
<1>1. /\ IsFiniteSet(S \cup {x}) /\ Cardinality(S) \in Nat
      /\ Cardinality(S \cup {x}) \in {Cardinality(S), Cardinality(S) + 1}
  BY FS_AddElement, FS_CardinalityType
<1>2. /\ IsFiniteSet(T) /\ Cardinality(T) \in Nat
      /\ Cardinality(T) <= Cardinality(S \cup {x})
  BY <1>1, FS_Subset, FS_CardinalityType
<1>3. T \subseteq S => Cardinality(T) <= Cardinality(S)
  BY FS_Subset
<1> QED BY <1>1, <1>2, <1>3

\* A line that is written costs the file its last line if that was
\* incomplete, and gains it the record it carries, if it is alone on its line.
LEMMA WrittenIds ==
  ASSUME NEW f \in Seq(Line), NEW open \in BOOLEAN, NEW line \in Line,
         NEW g, g = Written(f, open, line)
  PROVE  /\ ~open /\ line # NoRecord => RecordIds(g) = RecordIds(f) \cup {line.id}
         /\ ~open /\ line = NoRecord => RecordIds(g) = RecordIds(f)
         /\ open => RecordIds(f) \ {f[Len(f)].id} \subseteq RecordIds(g)
         /\ open /\ f[Len(f)] = NoRecord => RecordIds(f) \subseteq RecordIds(g)
<1> DEFINE n == Len(f)
<1>1. n = Len(f) /\ n \in Nat /\ DOMAIN f = 1 .. n
  OBVIOUS
<1> HIDE DEF n
<1>2. /\ open => /\ DOMAIN g = 1 .. n
                 /\ \A k \in 1 .. n : k # n => g[k] = f[k]
      /\ ~open => /\ DOMAIN g = 1 .. (n + 1)
                  /\ \A k \in 1 .. n : g[k] = f[k]
                  /\ g[n + 1] = line
  BY <1>1, WrittenLines
<1>3. ASSUME ~open
      PROVE  Readable(g, DOMAIN g) =
               Readable(f, DOMAIN f) \cup (IF line = NoRecord THEN {} ELSE {n + 1})
  <2>1. 1 .. (n + 1) = (1 .. n) \cup {n + 1} /\ n + 1 \notin 1 .. n
    BY <1>1
  <2> QED BY <1>1, <1>2, <1>3, <2>1 DEF Readable
<1>4. ASSUME ~open PROVE \A k \in Readable(f, DOMAIN f) : g[k] = f[k]
  BY <1>1, <1>2, <1>4 DEF Readable
<1>5. ~open /\ line # NoRecord => RecordIds(g) = RecordIds(f) \cup {line.id}
  <2> SUFFICES ASSUME ~open, line # NoRecord
               PROVE  RecordIds(g) = RecordIds(f) \cup {line.id}
    OBVIOUS
  <2>1. Readable(g, DOMAIN g) = Readable(f, DOMAIN f) \cup {n + 1}
    BY <1>3
  <2>2. g[n + 1] = line /\ \A k \in Readable(f, DOMAIN f) : g[k] = f[k]
    BY <1>2, <1>4
  <2> QED BY <2>1, <2>2 DEF RecordIds
<1>6. ~open /\ line = NoRecord => RecordIds(g) = RecordIds(f)
  <2> SUFFICES ASSUME ~open, line = NoRecord PROVE RecordIds(g) = RecordIds(f)
    OBVIOUS
  <2>1. Readable(g, DOMAIN g) = Readable(f, DOMAIN f)
    BY <1>3
  <2> QED BY <1>4, <2>1 DEF RecordIds
<1>7. ASSUME open, NEW k \in Readable(f, DOMAIN f), k # n
      PROVE  f[k].id \in RecordIds(g)
  <2>1. k \in Readable(g, DOMAIN g) /\ g[k] = f[k]
    BY <1>1, <1>2, <1>7 DEF Readable
  <2> QED BY <2>1 DEF RecordIds
<1>8. open => RecordIds(f) \ {f[n].id} \subseteq RecordIds(g)
  BY <1>7 DEF RecordIds
<1>9. open /\ f[n] = NoRecord => RecordIds(f) \subseteq RecordIds(g)
  BY <1>7 DEF RecordIds, Readable
<1> QED BY <1>1, <1>5, <1>6, <1>8, <1>9

\* Nothing is written, and no record becomes one to account for.
LEMMA NothingWritten ==
  ASSUME TypeOK, LossBound, UNCHANGED <<file, unterminated, torn>>,
         acked' \cup Pending' \subseteq acked \cup Pending
  PROVE  LossBound'
<1>1. Gone' \subseteq Gone /\ AtRisk' = AtRisk
  BY DEF Gone, AtRisk, RecordIds
<1>2. IsFiniteSet(Gone') /\ Cardinality(Gone') <= Cardinality(Gone)
      /\ Cardinality(Gone') \in Nat /\ Cardinality(Gone) \in Nat
  BY <1>1, FS_Subset, FS_CardinalityType DEF LossBound
<1>3. AtRisk \in Nat /\ torn \in Nat
  BY DEF AtRisk, TypeOK
<1> QED BY <1>1, <1>2, <1>3 DEF LossBound

\* Something is written, at whatever length.
LEMMA SomethingWritten ==
  ASSUME TypeOK, RealRecords, LossBound, NEW c \in Callers, pc[c] = "write",
         NEW line \in {draft[c], NoRecord},
         file' = Written(file, unterminated, line), acked' = acked,
         Pending' \subseteq Pending \cup {draft[c].id},
         \/ line = draft[c] /\ unterminated' = FALSE /\ torn' = torn
         \/ unterminated' = TRUE /\ torn' = torn + 1
  PROVE  LossBound'
<1> DEFINE id == draft[c].id
           n == Len(file)
           lastId0 == file[n].id
<1>1. /\ file \in Seq(Line) /\ unterminated \in BOOLEAN /\ line \in Line
      /\ draft[c] \in Record /\ draft[c] # NoRecord /\ torn \in Nat
  BY NoRecordIsNotRecord DEF TypeOK, RealRecords, Holding, Line
<1>2. /\ ~unterminated /\ line # NoRecord => RecordIds(file') = RecordIds(file) \cup {line.id}
      /\ ~unterminated /\ line = NoRecord => RecordIds(file') = RecordIds(file)
      /\ unterminated => RecordIds(file) \ {lastId0} \subseteq RecordIds(file')
      /\ unterminated /\ file[n] = NoRecord => RecordIds(file) \subseteq RecordIds(file')
  BY <1>1, WrittenIds
<1>3. /\ unterminated => DOMAIN file' = 1 .. n /\ (n \in DOMAIN file' => file'[n] = NoRecord)
      /\ ~unterminated => DOMAIN file' = 1 .. (n + 1) /\ file'[n + 1] = line
      /\ n \in Nat /\ file' \in Seq(Line)
  <2>1. file' \in Seq(Line)
    BY <1>1, WrittenType
  <2>2. n = Len(file) /\ file' = Written(file, unterminated, line)
    OBVIOUS
  <2> HIDE DEF n
  <2> QED BY <1>1, <2>1, <2>2, WrittenLines
<1>4. /\ IsFiniteSet(Gone) /\ Cardinality(Gone) \in Nat
      /\ Cardinality(Gone) + AtRisk <= 2 * torn
      /\ unterminated => n \in 1 .. n
  BY <1>1, FS_CardinalityType DEF LossBound
<1>5. CASE ~unterminated
  <2>1. AtRisk = 0 /\ Len(file') = n + 1 /\ file' # <<>>
    BY <1>3, <1>5 DEF AtRisk
  <2>2. CASE line = draft[c]
    <3>1. Gone' \subseteq Gone
      BY <1>1, <1>2, <1>5, <2>2 DEF Gone
    <3>2. /\ IsFiniteSet(Gone') /\ Cardinality(Gone') \in Nat
          /\ Cardinality(Gone') <= Cardinality(Gone)
      BY <1>4, <3>1, FS_Subset, FS_CardinalityType
    <3>3. AtRisk' = IF unterminated' THEN 2 ELSE 0
      BY <1>1, <1>3, <1>5, <2>1, <2>2 DEF AtRisk
    <3> QED BY <1>1, <1>4, <2>1, <3>2, <3>3 DEF LossBound
  <2>3. CASE line # draft[c]
    <3>1. Gone' \subseteq Gone \cup {id}
      BY <1>1, <1>2, <1>5, <2>3 DEF Gone
    <3>2. /\ IsFiniteSet(Gone') /\ Cardinality(Gone') \in Nat
          /\ Cardinality(Gone') <= Cardinality(Gone) + 1
      <4>1. IsFiniteSet(Gone)
        BY <1>4
      <4> QED BY ONLY <3>1, <4>1, OneMore
    <3>3. AtRisk' = 1 /\ torn' = torn + 1
      BY <1>1, <1>3, <1>5, <2>1, <2>3 DEF AtRisk
    <3> QED BY <1>1, <1>4, <2>1, <3>2, <3>3 DEF LossBound
  <2> QED BY <2>2, <2>3
<1>6. CASE unterminated
  <2>1. /\ Len(file') = n /\ file' # <<>> /\ file'[n] = NoRecord
        /\ AtRisk' = IF unterminated' THEN 1 ELSE 0
    <3>1. DOMAIN file' = 1 .. n /\ n \in 1 .. n
      BY <1>3, <1>4, <1>6
    <3>2. file'[n] = NoRecord
      BY <1>3, <1>6, <3>1
    <3>3. Len(file') = n
      <4>1. DOMAIN file' = 1 .. Len(file') /\ Len(file') \in Nat /\ n \in Nat
        BY <1>3
      <4> HIDE DEF n
      <4> QED BY <3>1, <4>1
    <3> QED BY <3>1, <3>2, <3>3 DEF AtRisk
  <2>2. CASE file[n] = NoRecord
    <3>1. Gone' \subseteq Gone \cup {id}
      BY <1>1, <1>2, <1>6, <2>2 DEF Gone
    <3>2. /\ IsFiniteSet(Gone') /\ Cardinality(Gone') \in Nat
          /\ Cardinality(Gone') <= Cardinality(Gone) + 1
      <4>1. IsFiniteSet(Gone)
        BY <1>4
      <4> QED BY ONLY <3>1, <4>1, OneMore
    <3>3. AtRisk = 1
      BY <1>6, <2>2 DEF AtRisk
    <3> QED BY <1>1, <1>4, <2>1, <3>2, <3>3 DEF LossBound
  <2>3. CASE file[n] # NoRecord
    <3>1. Gone' \subseteq (Gone \cup {lastId0}) \cup {id}
      BY <1>1, <1>2, <1>6 DEF Gone
    <3>2. /\ IsFiniteSet(Gone \cup {lastId0}) /\ Cardinality(Gone \cup {lastId0}) \in Nat
          /\ Cardinality(Gone \cup {lastId0}) <= Cardinality(Gone) + 1
      BY <1>4, OneMore
    <3>3. /\ IsFiniteSet(Gone') /\ Cardinality(Gone') \in Nat
          /\ Cardinality(Gone') <= Cardinality(Gone \cup {lastId0}) + 1
      <4> DEFINE S == Gone \cup {lastId0}
      <4>1. IsFiniteSet(S) /\ Gone' \subseteq S \cup {id}
        BY <3>1, <3>2
      <4> HIDE DEF S
      <4>2. /\ IsFiniteSet(Gone') /\ Cardinality(Gone') \in Nat
            /\ Cardinality(Gone') <= Cardinality(S) + 1
        BY ONLY <4>1, OneMore
      <4> QED BY <4>2 DEF S
    <3>4. AtRisk = 2
      BY <1>6, <2>3 DEF AtRisk
    <3> QED BY <1>1, <1>4, <2>1, <3>2, <3>3, <3>4 DEF LossBound
  <2> QED BY <2>2, <2>3
<1> QED BY <1>5, <1>6

LEMMA LossBoundNext ==
  ASSUME TypeOK, RealRecords, LossBound, [Next]_vars
  PROVE  LossBound'
<1> USE DEF diskVars, objectVars, callVars, history
<1>1. ASSUME NEW i \in Instances, ObjectStep(i) PROVE LossBound'
  <2>1. UNCHANGED <<file, unterminated, torn, acked>>
    BY <1>1 DEF ObjectStep, Construct, Adopt, VerifyOnStartup, Exit, Forget
  <2>2. \A d \in Callers : pc'[d] \in {"sync", "commit"} => pc'[d] = pc[d] /\ draft'[d] = draft[d]
    BY <1>1 DEF ObjectStep, Construct, Adopt, VerifyOnStartup, Exit, Forget
  <2>3. Pending' \subseteq Pending
    BY <2>2 DEF Pending
  <2> QED BY <2>1, <2>3, NothingWritten
<1>2. ASSUME NEW c \in Callers,
             Call(c) \/ Compute(c) \/ Sync(c) \/ WriteRejected(c) \/ SyncFailed(c)
      PROVE  LossBound'
  <2>1. UNCHANGED <<file, unterminated, torn, acked>>
    BY <1>2 DEF Call, Compute, Sync, WriteRejected, SyncFailed
  <2>2. \A d \in Callers : pc'[d] \in {"sync", "commit"} =>
          pc[d] \in {"sync", "commit"} /\ draft'[d] = draft[d]
    BY <1>2 DEF Call, Compute, Sync, WriteRejected, SyncFailed, Release, TypeOK
  <2>3. Pending' \subseteq Pending
    BY <2>2 DEF Pending
  <2> QED BY <2>1, <2>3, NothingWritten
<1>3. ASSUME NEW c \in Callers, Commit(c) PROVE LossBound'
  <2>1. /\ UNCHANGED <<file, unterminated, torn>>
        /\ acked' = acked \cup {draft[c].id} /\ pc[c] = "commit"
    BY <1>3 DEF Commit
  <2>2. \A d \in Callers : pc'[d] \in {"sync", "commit"} =>
          pc[d] \in {"sync", "commit"} /\ draft'[d] = draft[d]
    BY <1>3 DEF Commit, Release, TypeOK
  <2>3. Pending' \subseteq Pending /\ draft[c].id \in Pending
    BY <2>1, <2>2 DEF Pending
  <2> QED BY <2>1, <2>3, NothingWritten
<1>4. ASSUME NEW c \in Callers, Write(c) \/ WriteShort(c) \/ WriteCut(c) PROVE LossBound'
  <2>1. PICK line \in {draft[c], NoRecord} :
          /\ file' = Written(file, unterminated, line)
          /\ \/ line = draft[c] /\ unterminated' = FALSE /\ torn' = torn
             \/ unterminated' = TRUE /\ torn' = torn + 1
    BY <1>4 DEF Write, WriteShort, WriteCut, Fragment
  <2>2. pc[c] = "write" /\ acked' = acked
    BY <1>4 DEF Write, WriteShort, WriteCut, Forget
  <2>3. \A d \in Callers : pc'[d] \in {"sync", "commit"} =>
          draft'[d] = draft[d] /\ (pc[d] \in {"sync", "commit"} \/ d = c)
    BY <1>4 DEF Write, WriteShort, WriteCut, Forget, TypeOK
  <2>4. Pending' \subseteq Pending \cup {draft[c].id}
    BY <2>3 DEF Pending
  <2> QED BY <2>1, <2>2, <2>4, SomethingWritten
<1>5. CASE UNCHANGED vars
  BY <1>5, NothingWritten DEF vars, Pending
<1> QED BY <1>1, <1>2, <1>3, <1>4, <1>5 DEF Next, Settle, FaultStep

LEMMA LossBoundInvariant == Spec => []LossBound
<1>1. Init => LossBound
  <2> SUFFICES ASSUME Init PROVE LossBound
    OBVIOUS
  <2>1. Gone = {} /\ AtRisk = 0 /\ torn = 0
    BY DEF Init, Gone, Pending, AtRisk
  <2> QED BY <2>1, FS_EmptySet DEF LossBound, Init
<1>2. Spec => []ChainInv
  BY ChainInvariant
<1>3. ChainInv => TypeOK /\ RealRecords
  BY DEF ChainInv
<1> QED BY <1>1, <1>2, <1>3, LossBoundNext, PTL DEF Spec

\* A record append() returned is in the file, but for two at most per write
\* that left a part of a line, whatever else fails and whoever writes.
THEOREM AckedNeverLost == Spec => []AckedDurable
<1>1. TypeOK /\ LossBound => AckedDurable
  <2> SUFFICES ASSUME TypeOK, LossBound
               PROVE  Cardinality(acked \ RecordIds(file)) <= 2 * torn
    BY DEF AckedDurable
  <2>1. acked \ RecordIds(file) \subseteq Gone /\ IsFiniteSet(Gone)
    BY DEF Gone, LossBound
  <2>2. /\ Cardinality(acked \ RecordIds(file)) <= Cardinality(Gone)
        /\ Cardinality(acked \ RecordIds(file)) \in Nat /\ Cardinality(Gone) \in Nat
    BY <2>1, FS_Subset, FS_CardinalityType
  <2>3. AtRisk \in Nat /\ torn \in Nat /\ Cardinality(Gone) + AtRisk <= 2 * torn
    BY DEF AtRisk, TypeOK, LossBound
  <2> QED BY <2>2, <2>3
<1> QED BY <1>1, LossBoundInvariant, TypeCorrect, PTL

\* As long as no write was cut short the file is whole, and as long as, too,
\* no object that was left behind has written, it is numbered through.
WholeInv ==
    torn = 0 =>
        /\ ~unterminated /\ file \in Seq(Record)
        /\ drifted = {} => \A k \in 1 .. Len(file) : file[k].seq = k

\* The tail of a file of records is its last line.
LEMMA WholeTail ==
  ASSUME file \in Seq(Record)
  PROVE  /\ Len(file) \in Nat /\ DOMAIN file = 1 .. Len(file)
         /\ file = <<>> => TailOfFile = NoRecord
         /\ file # <<>> => Len(file) \in 1 .. Len(file) /\ TailOfFile = file[Len(file)]
<1>1. Len(file) \in Nat /\ DOMAIN file = 1 .. Len(file)
  OBVIOUS
<1>2. file = <<>> => TailOfFile = NoRecord
  BY DEF TailOfFile, LastRecord, Readable
<1>3. ASSUME file # <<>>
      PROVE  Len(file) \in 1 .. Len(file) /\ TailOfFile = file[Len(file)]
  <2>1. Len(file) \in 1 .. Len(file) /\ Len(file) \in Nat \ {0}
    BY <1>1, <1>3
  <2>2. file[Len(file)] \in Record
    BY <2>1
  <2>3. file[Len(file)] # NoRecord
    BY <2>2, NoRecordIsNotRecord
  <2>4. LastRecord(file, 1 .. Len(file)) = file[Len(file)]
    BY <2>1, <2>3, EndIsLast
  <2> QED BY <1>1, <2>1, <2>4 DEF TailOfFile
<1> QED BY <1>1, <1>2, <1>3

\* What a write appends while nothing has gone wrong.
LEMMA WriteExtends ==
  ASSUME ChainInv, WholeInv, NEW c \in Callers, Write(c), torn = 0
  PROVE  /\ draft[c] \in Record /\ file \in Seq(Record) /\ file' = Append(file, draft[c])
         /\ file' \in Seq(Record) /\ Len(file) \in Nat /\ Len(file') = Len(file) + 1
         /\ \A k \in 1 .. Len(file) : file'[k] = file[k]
         /\ file'[Len(file) + 1] = draft[c]
         /\ drifted' = {} => /\ drifted = {} /\ Continues(draft[c], TailOfFile)
                             /\ draft[c].seq = Len(file) + 1
<1>1. file \in Seq(Record) /\ ~unterminated /\ pc[c] = "write"
  BY DEF WholeInv, Write
<1>2. draft[c] \in Record /\ file' = Append(file, draft[c])
  BY <1>1 DEF Write, Written, ChainInv, RealRecords, Holding
<1>3. /\ file' \in Seq(Record) /\ Len(file) \in Nat /\ Len(file') = Len(file) + 1
      /\ \A k \in 1 .. Len(file) : file'[k] = file[k]
      /\ file'[Len(file')] = draft[c]
  BY <1>1, <1>2, AppendProperties
<1>4. ASSUME drifted' = {}
      PROVE  /\ drifted = {} /\ Continues(draft[c], TailOfFile)
             /\ draft[c].seq = Len(file) + 1
  <2>1. drifted = {} /\ Continues(draft[c], TailOfFile)
    BY <1>1, <1>4 DEF Write, NoteDrift, ChainInv, DraftIsCurrent
  <2>2. TailOfFile.seq = Len(file)
    <3>1. CASE file = <<>>
      BY <1>1, <3>1, WholeTail DEF NoRecord
    <3>2. CASE file # <<>>
      BY <1>1, <2>1, <3>2, WholeTail DEF WholeInv
    <3> QED BY <3>1, <3>2
  <2> QED BY <2>1, <2>2 DEF Continues
<1> QED BY <1>1, <1>2, <1>3, <1>4

LEMMA WholeInvNext ==
  ASSUME ChainInv, WholeInv, [Next]_vars
  PROVE  WholeInv'
<1> USE DEF diskVars, objectVars, callVars, history
<1>1. ASSUME UNCHANGED <<file, unterminated, torn, drifted>> PROVE WholeInv'
  BY <1>1 DEF WholeInv
<1>2. ASSUME NEW i \in Instances, ObjectStep(i) PROVE WholeInv'
  BY <1>1, <1>2 DEF ObjectStep, Construct, Adopt, VerifyOnStartup, Exit
<1>3. ASSUME NEW c \in Callers,
             \/ Call(c) \/ Compute(c) \/ Sync(c) \/ Commit(c)
             \/ WriteRejected(c) \/ SyncFailed(c)
      PROVE  WholeInv'
  BY <1>1, <1>3 DEF Call, Compute, Sync, Commit, WriteRejected, SyncFailed
<1>4. ASSUME NEW c \in Callers, Write(c) PROVE WholeInv'
  <2> SUFFICES ASSUME torn = 0
               PROVE  /\ ~unterminated' /\ file' \in Seq(Record)
                      /\ drifted' = {} => \A k \in 1 .. Len(file') : file'[k].seq = k
    BY <1>4 DEF WholeInv, Write
  <2>1. ~unterminated'
    BY <1>4 DEF Write
  <2>2. file' \in Seq(Record)
    BY <1>4, WriteExtends
  <2>3. ASSUME drifted' = {}, NEW k \in 1 .. Len(file') PROVE file'[k].seq = k
    <3>1. k \in 1 .. Len(file) \/ k = Len(file) + 1
      BY <1>4, WriteExtends
    <3> QED BY <1>4, <2>3, <3>1, WriteExtends DEF WholeInv
  <2> QED BY <2>1, <2>2, <2>3
<1>5. ASSUME NEW c \in Callers, Fragment(c) PROVE WholeInv'
  BY <1>5 DEF Fragment, WholeInv, ChainInv, TypeOK
<1>6. CASE UNCHANGED vars
  BY <1>1, <1>6 DEF vars
<1> QED
  BY <1>2, <1>3, <1>4, <1>5, <1>6 DEF Next, Settle, FaultStep, WriteShort, WriteCut

\* Until an object that was left behind writes, or a write is cut short, the
\* objects together, with their locks, cached heads, crashes and restarts,
\* are the append-only log of module HashChain.
THEOREM Refinement == Spec => ImplementsHashChain
<1>1. Init => Promise!Init /\ WholeInv
  <2> SUFFICES ASSUME Init PROVE Promise!Init /\ WholeInv
    OBVIOUS
  <2>1. file = <<>> /\ Len(file) = 0 /\ file \in Seq(Record)
    BY DEF Init
  <2> QED BY <2>1 DEF Init, Promise!Init, WholeInv
<1>2. Spec => [](ChainInv /\ LossBound /\ WholeInv)
  BY <1>1, ChainInvariant, LossBoundInvariant, WholeInvNext, PTL DEF Spec
<1>3. ASSUME ChainInv, LossBound, WholeInv, [Next]_vars
      PROVE  [drifted' = {} /\ torn' = 0 => Promise!Next]_<<file, acked>>
  <2> USE DEF diskVars, objectVars, callVars, history
  <2> SUFFICES ASSUME drifted' = {}, torn' = 0
               PROVE  Promise!Next \/ UNCHANGED <<file, acked>>
    OBVIOUS
  <2>1. ASSUME NEW c \in Callers, Write(c) PROVE Promise!Extend
    <3>0. torn = 0
      BY <2>1 DEF Write
    <3>1. /\ draft[c] \in Record /\ file \in Seq(Record) /\ file' = Append(file, draft[c])
          /\ Len(file) \in Nat /\ Len(file') = Len(file) + 1
          /\ file'[Len(file')] = draft[c]
          /\ Continues(draft[c], TailOfFile) /\ draft[c].seq = Len(file) + 1
      BY <1>3, <2>1, <3>0, WriteExtends
    <3>2. TailOfFile.id = Promise!HeadId
      BY <3>1, WholeTail DEF Promise!HeadId, NoRecord
    <3>3. draft[c] \in Promise!Record
      BY <3>1 DEF Record, Promise!Record
    <3>4. acked' = acked
      BY <2>1 DEF Write
    <3> QED BY <3>1, <3>2, <3>3, <3>4 DEF Continues, Promise!Extend
  <2>2. ASSUME NEW c \in Callers, Commit(c) PROVE Promise!Acknowledge
    <3>1. torn = 0 /\ file' = file /\ pc[c] = "commit" /\ acked' = acked \cup {draft[c].id}
      BY <2>2 DEF Commit
    <3>2. draft[c].id \in RecordIds(file)
      <4>1. IsFiniteSet(Gone) /\ Cardinality(Gone) \in Nat
        BY <1>3, FS_CardinalityType DEF LossBound
      <4>2. AtRisk \in Nat /\ Cardinality(Gone) + AtRisk <= 0
        BY <1>3, <3>1 DEF LossBound, AtRisk
      <4>3. Gone = {}
        BY <4>1, <4>2, FS_EmptySet
      <4> QED BY <3>1, <4>3 DEF Gone, Pending
    <3>3. draft[c].id \in Promise!Ids
      BY <3>2 DEF Promise!Ids, RecordIds, Readable
    <3> QED BY <3>1, <3>3 DEF Promise!Acknowledge
  <2>3. ASSUME NEW i \in Instances, ObjectStep(i) PROVE UNCHANGED <<file, acked>>
    BY <2>3 DEF ObjectStep, Construct, Adopt, VerifyOnStartup, Exit, Forget
  <2>4. ASSUME NEW c \in Callers,
               Call(c) \/ Compute(c) \/ Sync(c) \/ WriteRejected(c) \/ SyncFailed(c)
        PROVE  UNCHANGED <<file, acked>>
    BY <2>4 DEF Call, Compute, Sync, WriteRejected, SyncFailed, Release
  <2>5. ASSUME NEW c \in Callers, WriteShort(c) \/ WriteCut(c) PROVE FALSE
    BY <1>3, <2>5 DEF WriteShort, WriteCut, Fragment, ChainInv, TypeOK
  <2>6. CASE UNCHANGED vars
    BY <2>6 DEF vars
  <2> QED
    BY <1>3, <2>1, <2>2, <2>3, <2>4, <2>5, <2>6
    DEF Next, Settle, FaultStep, Promise!Next
<1> QED
  BY <1>1, <1>2, <1>3, PTL DEF Spec, ImplementsHashChain
-----------------------------------------------------------------------------
(***************************************************************************)
(* Part 5: complete lines are not touched, and the id 0, which stands for  *)
(* GENESIS, is no record's: a loss cannot look like it.                    *)
(***************************************************************************)

\* No fault and no second writer changes a complete line (chain.ts opens the
\* file with flag "a" only, and never truncates it).
THEOREM LinesAreKept == Spec => CompleteLinesKept
<1> DEFINE Kept == \A k \in DOMAIN file :
                     (k < Len(file) \/ ~unterminated) => k \in DOMAIN file' /\ file'[k] = file[k]
<1>1. ASSUME TypeOK, NEW line, file' = Written(file, unterminated, line)  PROVE Kept
  <2>1. Len(file) \in Nat /\ DOMAIN file = 1 .. Len(file)
    BY <1>1 DEF TypeOK
  <2> SUFFICES ASSUME NEW k \in DOMAIN file, k < Len(file) \/ ~unterminated
               PROVE  k \in DOMAIN file' /\ file'[k] = file[k]
    OBVIOUS
  <2>2. CASE unterminated
    <3>1. file' = [file EXCEPT ![Len(file)] = NoRecord] /\ k # Len(file)
      BY <1>1, <2>1, <2>2 DEF Written
    <3> QED  BY <3>1
  <2>3. CASE ~unterminated
    <3>1. file' = Append(file, line)
      BY <1>1, <2>3 DEF Written
    <3> QED  BY <1>1, <2>1, <3>1 DEF TypeOK
  <2> QED  BY <2>2, <2>3
<1>2. TypeOK /\ [Next]_vars => [Kept]_diskVars
  <2> SUFFICES ASSUME TypeOK, [Next]_vars  PROVE Kept \/ UNCHANGED diskVars
    OBVIOUS
  <2>1. ASSUME NEW i \in Instances, ObjectStep(i)  PROVE Kept
    BY <2>1 DEF ObjectStep, Construct, Adopt, VerifyOnStartup, Exit, diskVars
  <2>2. ASSUME NEW c \in Callers, Write(c)  PROVE Kept
    BY <1>1, <2>2 DEF Write
  <2>3. ASSUME NEW c \in Callers, Fragment(c)  PROVE Kept
    BY <1>1, <2>3 DEF Fragment
  <2>4. ASSUME NEW c \in Callers,
               \/ Call(c) \/ Compute(c) \/ Sync(c) \/ Commit(c)
               \/ WriteRejected(c) \/ SyncFailed(c)
        PROVE  UNCHANGED diskVars
    BY <2>4 DEF Call, Compute, Sync, Commit, WriteRejected, SyncFailed
  <2>5. CASE UNCHANGED vars
    BY <2>5 DEF vars
  <2> QED
    BY <2>1, <2>2, <2>3, <2>4, <2>5 DEF Next, Settle, FaultStep, WriteShort, WriteCut
<1>3. QED
  BY <1>2, TypeCorrect, PTL DEF Spec, CompleteLinesKept

\* A record that is lost although append() returned it does not go unnoticed
\* once its successor is on disk, whatever the faults and the writers: the
\* record before that successor is another one, or there is none (verify()).
THEOREM LossesAreDetected == Spec => []LossIsDetected
<1>1. Init => RealRecords
  BY DEF Init, RealRecords, Holding
<1>2. TypeOK /\ RealRecords => LossIsDetected
  <2> SUFFICES ASSUME TypeOK, RealRecords, VerifyOk(file),
                      NEW k \in Readable(file, DOMAIN file)
               PROVE  file[k].prev \notin acked \ RecordIds(file)
    BY DEF LossIsDetected
  <2> DEFINE before == 1 .. (k - 1)
             R == Readable(file, before)
  <2>1. file[k].prev = LastRecord(file, before).id
    BY DEF VerifyOk, Continues
  <2>2. CASE R = {}
    BY <2>1, <2>2 DEF LastRecord, NoRecord, RealRecords
  <2>3. CASE R # {}
    <3>1. /\ Len(file) \in Nat /\ DOMAIN file = 1 .. Len(file) /\ k \in 1 .. Len(file)
          /\ R \in SUBSET (1 .. Len(file))
      BY DEF TypeOK, Readable
    <3>2. \E m \in R : \A j \in R : j <= m
      BY <2>3, <3>1, GreatestExists
    <3>3. PICK m \in R : LastRecord(file, before) = file[m]
      BY <2>3, <3>2 DEF LastRecord
    <3>4. file[m].id \in RecordIds(file)
      BY <3>1, <3>3 DEF RecordIds, Readable
    <3> QED  BY <2>1, <3>3, <3>4
  <2> QED  BY <2>2, <2>3
<1>3. QED
  BY <1>1, <1>2, TypeCorrect, RealRecordsNext, PTL DEF Spec
=============================================================================
