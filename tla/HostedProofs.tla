------------------------------ MODULE HostedProofs ------------------------------
(***************************************************************************)
(* Theorems about what only the hosted mode has: the keys of a workspace   *)
(* (WorkspaceKeys), the outbox of redaction events (RedactionOutbox) and   *)
(* the scheduler of the tenants' jobs (TenantScheduler), for any number of *)
(* keys, KEKs, events, batch sizes, attempts, crashes, tenants and limits. *)
(* The three share no state; each theorem is about one of them.            *)
(*                                                                         *)
(* Of the keys, OneActive and RunningDaemonVerifies hold whatever the      *)
(* operator does.                                                          *)
(* OneKek and NoDekLost need a disciplined operator: one who does not take *)
(* the rollback path of the runbook, and a revocation that spares the      *)
(* active key, so that the store never holds rows in use but no active one *)
(* (the daemon would provision a key under a KEK that rotate-kek is just   *)
(* replacing).                                                             *)
(***************************************************************************)
EXTENDS WorkspaceKeys, RedactionOutbox, TenantScheduler, FiniteSetTheorems,
        WellFoundedInduction, TLAPS

Disciplined == ~Rollback /\ "active" \notin RevokeFrom

\* The invariant needs, beside the properties, that a store in use has an
\* active key, that a daemon that has come up holds the current secret, and that
\* a rotation reported to the operator stays complete until the secrets are
\* swapped.
ActiveKept == Kept # {} => InState("active") # {}
DaemonHasSecret == phase \in {"provision", "init", "ready"} => kek = secret
RotationComplete == rotated => Kept # {} /\ \A k \in Kept : wrap[k] = staged
CacheCoversSigned == phase = "ready" => signed \subseteq dekCache

KeysInv == ActiveKept /\ DaemonHasSecret /\ OneKek /\ NoDekLost /\ RotationComplete
-----------------------------------------------------------------------------
\* Archiving, in the daemon or by hand, moves rotating rows only, and nothing but
\* their state.
LEMMA ArchivingStep ==
  ASSUME TypeOK, Sweep \/ ArchiveCommand
  PROVE  /\ UNCHANGED <<wrap, operatorVars, daemonVars, signed>>
         /\ keyState' \in [Keys -> KeyStates]
         /\ \A k \in Keys : \/ keyState'[k] = keyState[k]
                            \/ keyState[k] = "rotating" /\ keyState'[k] = "archived"
<1>1. PICK ks \in SUBSET InState("rotating") : keyState' = Archived(ks)
  BY DEF Sweep, ArchiveCommand
<1>2. QED
  BY <1>1 DEF Sweep, ArchiveCommand, Archived, InState, TypeOK, KeyStates

\* The variables keep their types, and exactly the rows that exist are wrapped.
THEOREM KeysTyped == Spec => []TypeOK
<1>1. Init => TypeOK
  BY KeysAssumption DEF Init, TypeOK, KeyStates, Phases
<1>2. TypeOK /\ [Next]_vars => TypeOK'
  <2> SUFFICES ASSUME TypeOK, [Next]_vars PROVE TypeOK'
    OBVIOUS
  <2> USE KeysAssumption DEF TypeOK, KeyStates, Phases
  <2>1. CASE Start
    BY <2>1 DEF Start, storeVars, operatorVars, InState
  <2>2. CASE Provision
    <3>1. CASE Blocked
      BY <2>2, <3>1 DEF Provision, storeVars, operatorVars
    <3>2. CASE ~Blocked
      BY <2>2, <3>2 DEF Provision, Inserted, operatorVars, InState
    <3>3. QED BY <3>1, <3>2
  <2>3. CASE InitChain
    BY <2>3 DEF InitChain, Checked, storeVars, operatorVars
  <2>4. CASE Sign
    BY <2>4 DEF Sign, storeVars, operatorVars, InState
  <2>5. CASE Down
    BY <2>5 DEF Down, storeVars, operatorVars
  <2>6. CASE Rotate
    <3>1. PICK n \in InState("none") : Inserted(n, secret, Demoted)
      BY <2>6 DEF Rotate
    <3>2. Demoted \in [Keys -> KeyStates]
      BY DEF Demoted
    <3>3. keyState' \in [Keys -> KeyStates] /\ wrap' \in [Keys -> Keks \cup {NoKek}]
      BY <3>1, <3>2 DEF Inserted, InState
    <3>4. ASSUME NEW k \in Keys PROVE keyState'[k] = "none" <=> wrap'[k] = NoKek
      BY <3>1 DEF Inserted, InState, Demoted
    <3>5. QED
      BY <2>6, <3>3, <3>4 DEF Rotate, operatorVars, daemonVars
  <2>7. CASE RotateKek
    <3>1. ASSUME NEW k \in Keys PROVE keyState'[k] = "none" <=> wrap'[k] = NoKek
      BY <2>7 DEF RotateKek, Rewrapped, Kept, operatorVars, daemonVars
    <3>2. wrap' \in [Keys -> Keks \cup {NoKek}]
      BY <2>7 DEF RotateKek, Rewrapped
    <3>3. QED
      BY <2>7, <3>1, <3>2 DEF RotateKek, operatorVars, daemonVars
  <2>8. CASE Sweep \/ ArchiveCommand
    BY <2>8, ArchivingStep DEF operatorVars, daemonVars
  <2>9. ASSUME NEW k \in Keys, Revoke(k) PROVE TypeOK'
    BY <2>9 DEF Revoke, operatorVars, daemonVars
  <2>10. ASSUME NEW n \in Keks, Stage(n) PROVE TypeOK'
    BY <2>10 DEF Stage, Redeployed, storeVars
  <2>11. CASE Swap
    BY <2>11 DEF Swap, Redeployed, storeVars
  <2>12. CASE UNCHANGED vars
    BY <2>12 DEF vars, storeVars, operatorVars, daemonVars
  <2>13. QED
    BY <2>1, <2>2, <2>3, <2>4, <2>5, <2>6, <2>7, <2>8, <2>9, <2>10, <2>11, <2>12
      DEF Next
<1>3. QED
  BY <1>1, <1>2, PTL DEF Spec
-----------------------------------------------------------------------------
\* New records are signed under one key, however provisioning by the daemon and
\* rotations on the command line interleave.
THEOREM OneActiveKey == Spec => []OneActive
<1>1. Init => OneActive
  BY DEF Init, OneActive, InState
<1>2. TypeOK /\ OneActive /\ [Next]_vars => OneActive'
  <2> SUFFICES ASSUME TypeOK, OneActive, [Next]_vars PROVE OneActive'
    OBVIOUS
  <2> USE DEF TypeOK, OneActive, InState
  <2>1. CASE UNCHANGED keyState
    BY <2>1
  <2>2. CASE Provision
    BY <2>1, <2>2 DEF Provision, Blocked, Inserted, storeVars
  <2>3. CASE Rotate
    <3>1. PICK n \in InState("none") : Inserted(n, secret, Demoted)
      BY <2>3 DEF Rotate
    <3>2. \A k \in Keys : keyState'[k] = "active" => k = n
      BY <3>1 DEF Inserted, Demoted
    <3>3. QED BY <3>2
  <2>4. CASE Sweep \/ ArchiveCommand
    BY <2>4, ArchivingStep
  <2>5. ASSUME NEW k \in Keys, Revoke(k) PROVE OneActive'
    BY <2>5 DEF Revoke
  <2>6. CASE Start \/ InitChain \/ Sign \/ Down
    BY <2>1, <2>6 DEF Start, InitChain, Sign, Down, storeVars
  <2>7. CASE RotateKek \/ Swap \/ \E n \in Keks : Stage(n)
    BY <2>1, <2>7 DEF RotateKek, Swap, Stage, Redeployed, storeVars
  <2>8. CASE UNCHANGED vars
    BY <2>1, <2>8 DEF vars, storeVars
  <2>9. QED
    BY <2>2, <2>3, <2>4, <2>5, <2>6, <2>7, <2>8 DEF Next
<1>3. QED
  BY <1>1, <1>2, KeysTyped, PTL DEF Spec
-----------------------------------------------------------------------------
\* The running daemon can check every record it may be asked about, while keys
\* are rotated, archived, revoked and re-wrapped behind its back: it has their
\* DEKs in memory.
THEOREM DaemonKeepsVerifying == Spec => []RunningDaemonVerifies
<1>1. Init => CacheCoversSigned
  BY DEF Init, CacheCoversSigned
<1>2. CacheCoversSigned /\ [Next]_vars => CacheCoversSigned'
  <2> SUFFICES ASSUME CacheCoversSigned, [Next]_vars PROVE CacheCoversSigned'
    OBVIOUS
  <2> USE DEF CacheCoversSigned
  <2>1. CASE Start \/ Provision \/ Down
    BY <2>1 DEF Start, Provision, Down
  <2>2. CASE InitChain
    BY <2>2 DEF InitChain, Checked
  <2>3. CASE Sign
    BY <2>3 DEF Sign
  <2>4. CASE Rotate \/ RotateKek \/ Sweep \/ ArchiveCommand \/ \E k \in Keys : Revoke(k)
    BY <2>4 DEF Rotate, RotateKek, Sweep, ArchiveCommand, Revoke, daemonVars
  <2>5. CASE Swap \/ \E n \in Keks : Stage(n)
    BY <2>5 DEF Swap, Stage, Redeployed
  <2>6. CASE UNCHANGED vars
    BY <2>6 DEF vars, daemonVars
  <2>7. QED
    BY <2>1, <2>2, <2>3, <2>4, <2>5, <2>6 DEF Next
<1>3. CacheCoversSigned => RunningDaemonVerifies
  BY DEF CacheCoversSigned, RunningDaemonVerifies, Readable
<1>4. QED
  BY <1>1, <1>2, <1>3, PTL DEF Spec
-----------------------------------------------------------------------------
\* Every step of a disciplined operator, of the commands and of the daemon
\* keeps the invariant: the only rows that come into use are wrapped like the
\* active one, and all rows in use are re-wrapped together.
LEMMA KeysStep ==
  ASSUME Disciplined, TypeOK, TypeOK', KeysInv, [Next]_vars
  PROVE  KeysInv'
<1> USE DEF KeysInv, Disciplined
<1>1. ASSUME UNCHANGED <<storeVars, operatorVars>>
      PROVE  ActiveKept' /\ OneKek' /\ NoDekLost' /\ RotationComplete'
  BY <1>1 DEF storeVars, operatorVars, ActiveKept, OneKek, NoDekLost, RotationComplete, Kept, InState
<1>2. CASE Start \/ InitChain \/ Sign \/ Down \/ UNCHANGED vars
  <2>1. UNCHANGED <<storeVars, operatorVars>>
    BY <1>2 DEF Start, InitChain, Sign, Down, vars
  <2>2. DaemonHasSecret'
    BY <1>2 DEF Start, InitChain, Sign, Down, vars, operatorVars, daemonVars, DaemonHasSecret
  <2>3. QED BY <1>1, <2>1, <2>2
<1>3. CASE Provision
  <2>1. DaemonHasSecret'
    BY <1>3 DEF Provision, DaemonHasSecret, operatorVars
  <2>2. CASE Blocked
    BY <1>1, <1>3, <2>1, <2>2 DEF Provision
  <2>3. CASE ~Blocked
    <3>1. PICK k \in InState("none") : Inserted(k, kek, keyState)
      BY <1>3, <2>3 DEF Provision
    <3>2. Kept = {} /\ kek = secret
      BY <1>3, <2>3 DEF Blocked, ActiveKept, DaemonHasSecret, Provision
    <3>3. \A j \in Keys : keyState'[j] \notin {"none", "revoked"} => j = k
      BY <3>1, <3>2 DEF Inserted, Kept, TypeOK
    <3>4. k \in Keys /\ keyState'[k] = "active" /\ wrap'[k] = secret
      BY <3>1, <3>2 DEF Inserted, TypeOK, InState
    <3>5. UNCHANGED <<secret, staged, rotated>> /\ ~rotated
      BY <1>3, <3>2 DEF Provision, operatorVars, RotationComplete
    <3>6. QED
      BY <2>1, <3>3, <3>4, <3>5 DEF ActiveKept, OneKek, NoDekLost, RotationComplete, Kept, InState
  <2>4. QED BY <2>2, <2>3
<1>4. CASE Rotate
  <2>1. PICK n \in InState("none") : Inserted(n, secret, Demoted)
    BY <1>4 DEF Rotate
  <2>2. \A k \in Kept : wrap[k] = secret
    BY <1>4 DEF Rotate, ActiveKept, OneKek, Kept, InState
  <2>3. \A k \in Keys : keyState'[k] \notin {"none", "revoked"} => k = n \/ k \in Kept
    BY <2>1 DEF Inserted, Demoted, Kept, InState, TypeOK
  <2>4. \A k \in Kept' : wrap'[k] = secret
    BY <2>1, <2>2, <2>3 DEF Inserted, Kept, InState, TypeOK
  <2>5. n \in InState("active")'
    BY <2>1 DEF Inserted, InState, Demoted, TypeOK
  <2>6. UNCHANGED <<secret, staged, rotated, phase, kek>>
    BY <1>4 DEF Rotate, operatorVars, daemonVars
  <2>7. n \in Kept'
    BY <2>5 DEF InState, Kept
  <2>8. rotated => staged = secret
    BY <2>2 DEF RotationComplete
  <2>9. QED
    BY <2>4, <2>5, <2>6, <2>7, <2>8
      DEF ActiveKept, DaemonHasSecret, OneKek, NoDekLost, RotationComplete
<1>5. CASE RotateKek
  <2>1. UNCHANGED <<keyState, secret, staged, phase, kek>> /\ (rotated' => Kept # {})
    BY <1>5 DEF RotateKek, daemonVars
  <2>2. \A k \in Kept' : wrap'[k] = staged
    BY <1>5, <2>1 DEF RotateKek, Rewrapped, Kept
  <2>3. QED
    BY <2>1, <2>2 DEF ActiveKept, DaemonHasSecret, OneKek, NoDekLost, RotationComplete, Kept, InState
<1>6. CASE Sweep \/ ArchiveCommand \/ \E k \in Keys : Revoke(k)
  <2>1. UNCHANGED <<wrap, secret, staged, rotated, phase, kek>>
    BY <1>6 DEF Sweep, ArchiveCommand, Revoke, operatorVars, daemonVars
  <2>2. \A k \in Keys : /\ keyState[k] \in {"none", "revoked"} => keyState'[k] = keyState[k]
                        /\ keyState'[k] = "active" <=> keyState[k] = "active"
    BY <1>6, ArchivingStep, KeysAssumption DEF Revoke, InState, TypeOK
  <2>3. /\ Kept' \subseteq Kept
        /\ InState("active")' = InState("active")
    <3>1. Kept' \subseteq Kept
      BY <2>2 DEF Kept
    <3>2. InState("active")' = InState("active")
      BY <2>2 DEF InState
    <3>3. QED BY <3>1, <3>2
  <2>4. InState("active")' \subseteq Kept'
    BY DEF InState, Kept
  <2>5. QED
    BY <2>1, <2>3, <2>4 DEF ActiveKept, DaemonHasSecret, OneKek, NoDekLost, RotationComplete
<1>7. ASSUME NEW n \in Keks, Stage(n) PROVE KeysInv'
  <2>1. UNCHANGED <<keyState, wrap, secret>> /\ staged = NoKek /\ ~rotated'
    BY <1>7 DEF Stage, Redeployed, storeVars
  <2>2. \A k \in Kept : wrap[k] = secret
    BY <2>1 DEF NoDekLost, Kept, TypeOK
  <2>3. phase' = "down"
    BY <1>7 DEF Stage, Redeployed
  <2>4. QED
    BY <2>1, <2>2, <2>3 DEF ActiveKept, DaemonHasSecret, OneKek, NoDekLost, RotationComplete, Kept, InState
<1>8. CASE Swap
  <2>1. UNCHANGED <<keyState, wrap>> /\ phase' = "down" /\ secret' = staged /\ ~rotated'
    BY <1>8 DEF Swap, Redeployed, storeVars
  <2>2. \A k \in Kept : wrap[k] = staged
    BY <1>8 DEF Swap, RotationComplete
  <2>3. QED
    BY <2>1, <2>2 DEF ActiveKept, DaemonHasSecret, OneKek, NoDekLost, RotationComplete, Kept, InState
<1>9. QED
  BY <1>2, <1>3, <1>4, <1>5, <1>6, <1>7, <1>8 DEF Next

LEMMA KeysInvariant ==
  ASSUME Disciplined
  PROVE  Spec => []KeysInv
<1>1. Init => KeysInv
  BY DEF Init, KeysInv, ActiveKept, DaemonHasSecret, OneKek, NoDekLost, RotationComplete, Kept, InState
<1>2. TypeOK /\ TypeOK' /\ KeysInv /\ [Next]_vars => KeysInv'
  BY KeysStep, Disciplined
<1>3. QED
  BY <1>1, <1>2, KeysTyped, PTL DEF Spec

\* No half-rotated store: whatever the order of provisioning and of the two
\* kinds of rotation, all rows in use are wrapped under one KEK.
THEOREM OneKekAtATime ==
  ASSUME Disciplined
  PROVE  Spec => []OneKek
<1>1. KeysInv => OneKek
  BY DEF KeysInv
<1>2. QED
  BY <1>1, KeysInvariant, Disciplined, PTL

\* A disciplined operator never loses a DEK in use.
THEOREM NoDekIsLost ==
  ASSUME Disciplined
  PROVE  Spec => []NoDekLost
<1>1. KeysInv => NoDekLost
  BY DEF KeysInv
<1>2. QED
  BY <1>1, KeysInvariant, Disciplined, PTL
-----------------------------------------------------------------------------
\* The worker is told "accepted" only about the batch it posted, which the
\* cloud then has; this and the shape of status make SentIsDelivered inductive.
DeliveryInv ==
    /\ status \in [Events -> {"none", "pending", "sent", "archived"}]
    /\ posting # {} /\ answer = "accepted" => posting \subseteq cloud
    /\ SentIsDelivered
-----------------------------------------------------------------------------
\* A row is marked sent only when the cloud has its event, whatever the order
\* of new rows, answers, timeouts, late requests and crashes.
THEOREM SentMeansDelivered == OutboxSpec => []SentIsDelivered
<1>1. OutboxInit => DeliveryInv
  BY DEF OutboxInit, DeliveryInv, SentIsDelivered
<1>2. DeliveryInv /\ [OutboxNext]_outboxVars => DeliveryInv'
  <2> SUFFICES ASSUME DeliveryInv, [OutboxNext]_outboxVars PROVE DeliveryInv'
    OBVIOUS
  <2> USE DEF DeliveryInv, SentIsDelivered
  <2>1. ASSUME NEW e \in Events, EnqueueEvent(e) PROVE DeliveryInv'
    BY <2>1 DEF EnqueueEvent
  <2>2. CASE Post
    BY <2>2 DEF Post
  <2>3. ASSUME NEW b \in net, Handle(b) PROVE DeliveryInv'
    <3>1. cloud \subseteq cloud'
      BY <2>3 DEF Handle
    <3>2. answer' = "accepted" /\ answer # "accepted" => posting \subseteq cloud'
      BY <2>3 DEF Handle
    <3>3. UNCHANGED <<status, posting>>
      BY <2>3 DEF Handle
    <3>4. QED
      BY <3>1, <3>2, <3>3
  <2>4. CASE Accepted
    BY <2>4 DEF Accepted, PostOk, MarkedSent
  <2>5. CASE Failed
    <3>1. \A e \in Events : status'[e] = status[e] \/ status'[e] = "archived"
      BY <2>5 DEF Failed, Exhausted
    <3>2. status' \in [Events -> {"none", "pending", "sent", "archived"}]
      BY <2>5 DEF Failed, Exhausted
    <3>3. posting' = {} /\ cloud' = cloud
      BY <2>5 DEF Failed
    <3>4. QED
      BY <3>1, <3>2, <3>3
  <2>6. CASE Crash \/ Restart
    BY <2>6 DEF Crash, Restart
  <2>7. CASE UNCHANGED outboxVars
    BY <2>7 DEF outboxVars
  <2>8. QED
    BY <2>1, <2>2, <2>3, <2>4, <2>5, <2>6, <2>7 DEF OutboxNext
<1>3. DeliveryInv => SentIsDelivered
  BY DEF DeliveryInv
<1>4. QED
  BY <1>1, <1>2, <1>3, PTL DEF OutboxSpec

-----------------------------------------------------------------------------
(* The order of the tenants, and what a round makes of it.                   *)
\* A set of numbers has a smallest one.
LEMMA Smallest ==
    ASSUME NEW D \in SUBSET Nat, D # {}
    PROVE  \E m \in D : \A n \in D : m <= n
<1>1. PICK m \in D : \A n \in D : ~(<<n, m>> \in OpToRel(<, Nat))
  BY NatLessThanWellFounded, WFMin
<1>2. \A n \in D : ~(n < m)
  BY <1>1 DEF OpToRel
<1> QED  BY <1>2

\* How an index goes round.
LEMMA Remainder ==
    ASSUME NEW n \in Nat \ {0}, NEW a \in Nat
    PROVE  a % n \in 0 .. (n - 1) /\ (a < n => a % n = a) /\ (a >= n /\ a < n + n => a % n = a - n)
<1>1. a % n \in 0 .. (n - 1)
  OBVIOUS
<1>2. a < n => a % n = a
  OBVIOUS
<1>3. a >= n /\ a < n + n => a % n = a - n
  OBVIOUS
<1> QED  BY <1>1, <1>2, <1>3

\* A round takes each tenant in its order once.
LEMMA RoundFacts ==
    ASSUME tenantOrder \in Seq(Tenants), rrIndex \in Nat, rrIndex < Len(tenantOrder)
    PROVE  /\ Round \in Seq(Tenants) /\ Len(Round) = Len(tenantOrder)
           /\ \A t \in ToSet(tenantOrder) : \E i \in DOMAIN Round : Round[i] = t
<1> DEFINE n == Len(tenantOrder)
<1>1. n \in Nat \ {0}
  OBVIOUS
<1>2. Round = [i \in 1 .. n |-> tenantOrder[1 + ((rrIndex + i - 1) % n)]]
  BY DEF Round
<1>3. \A i \in 1 .. n : tenantOrder[1 + ((rrIndex + i - 1) % n)] \in Tenants
  <2> SUFFICES ASSUME NEW i \in 1 .. n PROVE tenantOrder[1 + ((rrIndex + i - 1) % n)] \in Tenants
    OBVIOUS
  <2> DEFINE a == rrIndex + i - 1
  <2>1. a \in Nat
    OBVIOUS
  <2> HIDE DEF a
  <2>2. a % n \in 0 .. (n - 1)
    BY <1>1, <2>1, Remainder
  <2>3. tenantOrder[1 + (a % n)] \in Tenants
    BY <1>1, <2>2
  <2> QED  BY <2>3 DEF a
<1>4. Round \in Seq(Tenants) /\ Len(Round) = n
  <2> HIDE DEF n
  <2>1. Round \in [1 .. n -> Tenants]
    BY <1>2, <1>3
  <2> QED  BY <1>1, <2>1
<1>5. ASSUME NEW p \in 1 .. n
      PROVE  \E i \in 1 .. n : Round[i] = tenantOrder[p]
  <2>1. CASE p > rrIndex
    <3>1. p - rrIndex \in 1 .. n /\ rrIndex + (p - rrIndex) - 1 = p - 1
      BY <2>1
    <3>2. (p - 1) % n = p - 1
      <4> DEFINE a == p - 1
      <4>1. a \in Nat /\ a < n
        BY <3>1
      <4> HIDE DEF a
      <4>2. a % n = a
        BY <1>1, <4>1, Remainder
      <4> QED  BY <4>2 DEF a
    <3>3. Round[p - rrIndex] = tenantOrder[1 + (p - 1)]
      <4> HIDE DEF n
      <4> QED  BY <1>2, <3>1, <3>2
    <3> QED  BY <3>1, <3>3
  <2>2. CASE p <= rrIndex
    <3>1. p - rrIndex + n \in 1 .. n /\ rrIndex + (p - rrIndex + n) - 1 = p - 1 + n
      BY <2>2
    <3>2. (p - 1 + n) % n = p - 1
      <4> DEFINE a == p - 1 + n
      <4>1. a \in Nat /\ a >= n /\ a < n + n /\ a - n = p - 1
        OBVIOUS
      <4> HIDE DEF a
      <4>2. a % n = p - 1
        BY <1>1, <4>1, Remainder
      <4> QED  BY <4>2 DEF a
    <3>3. Round[p - rrIndex + n] = tenantOrder[1 + (p - 1)]
      <4> HIDE DEF n
      <4> QED  BY <1>2, <3>1, <3>2
    <3> QED  BY <3>1, <3>3
  <2> QED  BY <2>1, <2>2
<1> QED  BY <1>4, <1>5 DEF ToSet

\* Left() is a recursive function; that it is one has to be shown first.
Unfolds(f, set, k) ==
    f = [n \in 0 .. k |-> IF n = 0 THEN <<>>
                          ELSE IF tenantOrder[n] \in set THEN Append(f[n - 1], tenantOrder[n])
                          ELSE f[n - 1]]

LEMMA LeftUnfolds ==
    ASSUME NEW S, NEW k \in Nat
    PROVE  \E f : Unfolds(f, S, k)
<1> DEFINE D == {n \in Nat : ~ \E f : Unfolds(f, S, n)}
           With(r, n) == IF tenantOrder[n] \in S THEN Append(r, tenantOrder[n]) ELSE r
<1> SUFFICES ASSUME D # {}  PROVE FALSE
  OBVIOUS
<1>1. PICK m \in D : \A n \in D : m <= n
  <2> HIDE DEF D
  <2>1. D \in SUBSET Nat
    BY DEF D
  <2> QED  BY <2>1, Smallest
<1>2. m # 0
  <2>1. Unfolds([n \in 0 .. 0 |-> <<>>], S, 0)
    BY DEF Unfolds
  <2> QED  BY <2>1
<1>3. m - 1 \in Nat /\ m - 1 \notin D
  BY <1>1, <1>2
<1>4. PICK f : Unfolds(f, S, m - 1)
  BY <1>3
<1> DEFINE g == [n \in 0 .. m |-> IF n < m THEN f[n] ELSE With(f[m - 1], m)]
<1>5. \A n \in 0 .. m : g[n] = IF n = 0 THEN <<>> ELSE With(g[n - 1], n)
  <2> SUFFICES ASSUME NEW n \in 0 .. m
               PROVE  g[n] = IF n = 0 THEN <<>> ELSE With(g[n - 1], n)
    OBVIOUS
  <2>1. CASE n = m
    BY <1>2, <1>3, <2>1
  <2>2. CASE n # m
    <3>1. n \in 0 .. (m - 1) /\ n < m /\ (n # 0 => n - 1 \in 0 .. m /\ n - 1 < m)
      BY <2>2
    <3>2. g[n] = f[n] /\ (n # 0 => g[n - 1] = f[n - 1])
      BY <3>1
    <3>3. f[n] = IF n = 0 THEN <<>> ELSE With(f[n - 1], n)
      BY <1>4, <3>1 DEF Unfolds
    <3> QED  BY <3>2, <3>3
  <2> QED  BY <2>1, <2>2
<1>6. Unfolds(g, S, m)
  <2>1. g = [n \in 0 .. m |-> g[n]]
    OBVIOUS
  <2> HIDE DEF g
  <2> QED  BY <1>5, <2>1 DEF Unfolds
<1> QED  BY <1>6

\* cleanupEmptyTenants() keeps the tenants it is to keep, and no others.
LEMMA LeftKeeps ==
    ASSUME tenantOrder \in Seq(Tenants), NEW S
    PROVE  Left(S) \in Seq(Tenants) /\ ToSet(Left(S)) = ToSet(tenantOrder) \cap S
<1> DEFINE f == CHOOSE f : Unfolds(f, S, Len(tenantOrder))
           s == tenantOrder
<1>1. Left(S) = f[Len(s)]
  BY DEF Left, Unfolds
<1>2. Unfolds(f, S, Len(s))
  BY LeftUnfolds
<1> HIDE DEF f
<1> DEFINE Right(n) ==
             /\ f[n] \in Seq(Tenants)
             /\ \A i \in 1 .. Len(f[n]) : f[n][i] \in S /\ \E k \in 1 .. n : f[n][i] = s[k]
             /\ \A k \in 1 .. n : s[k] \in S => \E i \in 1 .. Len(f[n]) : f[n][i] = s[k]
           D == {n \in 0 .. Len(s) : ~Right(n)}
<1>3. D = {}
  <2> SUFFICES ASSUME D # {}  PROVE FALSE
    OBVIOUS
  <2>1. PICK m \in D : \A n \in D : m <= n
    <3>1. D \in SUBSET Nat
      OBVIOUS
    <3> HIDE DEF D
    <3> QED  BY <3>1, Smallest
  <2>2. m # 0
    <3>1. f[0] = <<>>
      BY <1>2 DEF Unfolds
    <3>2. Right(0)
      BY <3>1
    <3> QED  BY <3>2
  <2>3. m \in 1 .. Len(s) /\ Right(m - 1) /\ s[m] \in Tenants
    BY <2>1, <2>2
  <2>4. f[m] = IF s[m] \in S THEN Append(f[m - 1], s[m]) ELSE f[m - 1]
    <3>1. f[m] = IF m = 0 THEN <<>> ELSE IF s[m] \in S THEN Append(f[m - 1], s[m]) ELSE f[m - 1]
      BY <1>2, <2>3 DEF Unfolds
    <3> QED  BY <2>2, <3>1
  <2> DEFINE r == f[m - 1]
  <2>5. /\ r \in Seq(Tenants)
        /\ \A i \in 1 .. Len(r) : r[i] \in S /\ \E k \in 1 .. (m - 1) : r[i] = s[k]
        /\ \A k \in 1 .. (m - 1) : s[k] \in S => \E i \in 1 .. Len(r) : r[i] = s[k]
    BY <2>3
  <2>6. /\ \A k \in 1 .. m : k \in 1 .. (m - 1) \/ k = m
        /\ 1 .. (m - 1) \subseteq 1 .. m /\ m \in 1 .. m
    BY <2>3
  <2>7. CASE s[m] \in S
    <3>1. f[m] = Append(r, s[m])
      BY <2>4, <2>7
    <3> HIDE DEF r
    <3>2. /\ f[m] \in Seq(Tenants) /\ Len(f[m]) = Len(r) + 1
          /\ \A i \in 1 .. Len(r) : f[m][i] = r[i]
          /\ f[m][Len(r) + 1] = s[m]
      BY <2>3, <2>5, <3>1
    <3>3. /\ \A i \in 1 .. Len(f[m]) : i \in 1 .. Len(r) \/ i = Len(r) + 1
          /\ 1 .. Len(r) \subseteq 1 .. Len(f[m]) /\ Len(r) + 1 \in 1 .. Len(f[m])
      BY <2>5, <3>2
    <3>4. \A i \in 1 .. Len(f[m]) : f[m][i] \in S /\ \E k \in 1 .. m : f[m][i] = s[k]
      <4> SUFFICES ASSUME NEW i \in 1 .. Len(f[m])
                   PROVE  f[m][i] \in S /\ \E k \in 1 .. m : f[m][i] = s[k]
        OBVIOUS
      <4>1. CASE i = Len(r) + 1
        <5>1. f[m][i] = s[m] /\ m \in 1 .. m
          BY <2>6, <3>2, <4>1
        <5> QED  BY <2>7, <5>1
      <4>2. CASE i \in 1 .. Len(r)
        <5>1. f[m][i] = r[i]
          BY <3>2, <4>2
        <5>2. r[i] \in S /\ \E k \in 1 .. (m - 1) : r[i] = s[k]
          BY <2>5, <4>2
        <5> QED  BY <2>6, <5>1, <5>2
      <4> QED  BY <3>3, <4>1, <4>2
    <3>5. \A k \in 1 .. m : s[k] \in S => \E i \in 1 .. Len(f[m]) : f[m][i] = s[k]
      BY <2>5, <2>6, <3>2, <3>3
    <3> QED  BY <3>2, <3>4, <3>5
  <2>8. CASE s[m] \notin S
    <3>1. f[m] = r
      BY <2>4, <2>8
    <3> HIDE DEF r
    <3> QED  BY <2>5, <2>6, <2>8, <3>1
  <2> QED  BY <2>7, <2>8
<1>4. Right(Len(s))
  BY <1>3
<1>5. Left(S) \in Seq(Tenants)
  BY <1>1, <1>4
<1> DEFINE l == Left(S)
<1>6. /\ \A i \in 1 .. Len(l) : l[i] \in S /\ \E k \in 1 .. Len(s) : l[i] = s[k]
      /\ \A k \in 1 .. Len(s) : s[k] \in S => \E i \in 1 .. Len(l) : l[i] = s[k]
  BY <1>1, <1>4
<1>7. DOMAIN l = 1 .. Len(l) /\ DOMAIN s = 1 .. Len(s)
  BY <1>5
<1> HIDE DEF l
<1>8. ToSet(l) = ToSet(s) \cap S
  <2>1. ToSet(l) = {l[i] : i \in 1 .. Len(l)} /\ ToSet(s) = {s[k] : k \in 1 .. Len(s)}
    BY <1>7 DEF ToSet
  <2> HIDE DEF s
  <2> QED  BY <1>6, <2>1
<1> QED  BY <1>5, <1>8 DEF l

-----------------------------------------------------------------------------
(* The scheduler counts the jobs that run twice, per tenant and in all; that *)
(* both agree is what lets drain() look at globalActive only.                *)
Jobs == UNION {{t} \X (1 .. activeBy[t]) : t \in Tenants}

CountInv ==
    /\ depth \in [Tenants -> Nat] /\ activeBy \in [Tenants -> Nat] /\ globalActive \in Nat
    /\ IsFiniteSet(Jobs) /\ Cardinality(Jobs) = globalActive

LimitInv == globalActive <= GlobalConcurrency /\ \A t \in Tenants : activeBy[t] <= Cap

DrainInv == (drain # "none" => stopped) /\ DrainedIsIdle

OrderInv ==
    /\ tenantOrder \in Seq(Tenants) /\ rrIndex \in Nat
    /\ IF tenantOrder = <<>> THEN rrIndex = 0 ELSE rrIndex < Len(tenantOrder)

\* A tenant with jobs has its place in the order, and nothing is left to do that
\* no tick, and no job whose end schedules one, will come to.
SeenInv ==
    \A t \in Tenants : depth[t] > 0 \/ activeBy[t] > 0 => t \in ToSet(tenantOrder)

Awake ==
    /\ \A t \in Tenants : depth[t] > 0 /\ t \notin paused => tickScheduled \/ globalActive > 0
    /\ drain = "waiting" /\ Idle(globalActive, depth) => tickScheduled /\ tenantOrder # <<>>

SchedulerInv == CountInv /\ LimitInv /\ DrainInv /\ OrderInv /\ SeenInv /\ Awake

\* The jobs a tick starts are as many as the tenants it starts one for.
LEMMA StartedJobs ==
    ASSUME CountInv, NEW S \in SUBSET Tenants
    PROVE  LET new == {<<t, activeBy[t] + 1>> : t \in S}
           IN  IsFiniteSet(new) /\ Cardinality(new) = Cardinality(S) /\ new \cap Jobs = {}
<1> DEFINE new == {<<t, activeBy[t] + 1>> : t \in S}
           f == [t \in S |-> <<t, activeBy[t] + 1>>]
<1>1. f \in Bijection(S, new)
  BY DEF Bijection, Injection, Surjection, IsInjective
<1>2. IsFiniteSet(S)
  BY SchedulerAssumption, FS_Subset
<1>3. IsFiniteSet(new) /\ Cardinality(new) = Cardinality(S)
  <2> HIDE DEF f, new
  <2> QED  BY <1>1, <1>2, FS_Bijection DEF ExistsBijection
<1>4. new \cap Jobs = {}
  BY DEF CountInv, Jobs
<1> QED  BY <1>3, <1>4

\* A round starts no more jobs than there is room for, only where one waits, and
\* one at least if it can.
LEMMA LaunchedFacts ==
    ASSUME SchedulerInv, tenantOrder # <<>>
    PROVE  /\ Launched \subseteq {t \in Tenants : depth[t] > 0 /\ activeBy[t] < Cap}
           /\ IsFiniteSet(Launched) /\ Cardinality(Launched) \in Nat
           /\ Cardinality(Launched) <= GlobalConcurrency - globalActive
           /\ globalActive = 0 =>
                \A t \in ToSet(tenantOrder) : Launchable(t) => Launched # {}
<1> DEFINE n == Len(Round)
           able == {i \in 1 .. n : Launchable(Round[i])}
           room == GlobalConcurrency - globalActive
           upTo(j) == able \cap 1 .. j
           chosen == {j \in able : globalActive + Cardinality(upTo(j)) <= GlobalConcurrency}
           f == [i \in chosen |-> Round[i]]
<1>1. /\ Round \in Seq(Tenants) /\ n \in Nat /\ DOMAIN Round = 1 .. n
      /\ \A t \in ToSet(tenantOrder) : \E i \in 1 .. n : Round[i] = t
  <2>1. tenantOrder \in Seq(Tenants) /\ rrIndex \in Nat /\ rrIndex < Len(tenantOrder)
    BY DEF SchedulerInv, OrderInv
  <2>2. Round \in Seq(Tenants) /\ \A t \in ToSet(tenantOrder) : \E i \in DOMAIN Round : Round[i] = t
    BY <2>1, RoundFacts
  <2> QED  BY <2>2
<1>2. Launched = {Round[i] : i \in chosen}
  BY <1>1 DEF Launched
<1>3. room \in Nat /\ globalActive \in Nat
  BY SchedulerAssumption DEF SchedulerInv, CountInv, LimitInv
<1>4. able \subseteq 1 .. n /\ IsFiniteSet(able)
  <2>1. IsFiniteSet(1 .. n)
    BY <1>1, FS_Interval
  <2> HIDE DEF n
  <2> QED  BY <2>1, FS_Subset
<1>5. \A j : IsFiniteSet(upTo(j)) /\ Cardinality(upTo(j)) \in Nat
  <2> HIDE DEF able
  <2> QED  BY <1>4, FS_Subset, FS_CardinalityType
<1>6. chosen \subseteq able /\ IsFiniteSet(chosen)
  <2> HIDE DEF able, upTo
  <2> QED  BY <1>4, FS_Subset
<1>7. Cardinality(chosen) <= room
  <2>1. CASE chosen = {}
    <3> HIDE DEF chosen, room
    <3> QED  BY <1>3, <2>1, FS_EmptySet
  <2>2. CASE chosen # {}
    <3> DEFINE D == {n - j : j \in chosen}
    <3>0. \A j \in chosen : j \in 1 .. n
      <4> HIDE DEF chosen, able, n
      <4> QED  BY <1>4, <1>6
    <3>1. D # {} /\ D \in SUBSET Nat
      <4>1. n \in Nat
        BY <1>1
      <4> HIDE DEF chosen, n
      <4> QED  BY <2>2, <3>0, <4>1
    <3>2. PICK d \in D : \A e \in D : d <= e
      <4> HIDE DEF D
      <4> QED  BY <3>1, Smallest
    <3>3. PICK m \in chosen : \A j \in chosen : j <= m
      <4>1. PICK m \in chosen : d = n - m
        BY <3>2
      <4>2. ASSUME NEW j \in chosen PROVE j <= m
        <5>1. n - m <= n - j
          BY <3>2, <4>1
        <5>2. n \in Nat
          BY <1>1
        <5> HIDE DEF chosen, n
        <5> QED  BY <3>0, <5>1, <5>2
      <4> QED  BY <4>2
    <3>4. chosen \subseteq upTo(m)
      <4>1. \A j \in chosen : j \in able /\ j \in 1 .. m
        <5> HIDE DEF chosen, able, n
        <5> QED  BY <1>1, <1>4, <1>6, <3>3
      <4> HIDE DEF chosen, able, n
      <4> QED  BY <4>1
    <3>5. Cardinality(upTo(m)) <= room
      <4>1. globalActive + Cardinality(upTo(m)) <= GlobalConcurrency
        BY <3>3
      <4> HIDE DEF upTo
      <4> QED  BY <1>3, <1>5, <4>1, SchedulerAssumption
    <3>6. Cardinality(chosen) <= Cardinality(upTo(m)) /\ Cardinality(chosen) \in Nat
      <4> HIDE DEF chosen, upTo
      <4> QED  BY <1>5, <1>6, <3>4, FS_Subset, FS_CardinalityType
    <3> HIDE DEF chosen, upTo, room
    <3> QED  BY <1>3, <1>5, <3>5, <3>6
  <2> QED  BY <2>1, <2>2
<1>8. f \in Surjection(chosen, Launched)
  <2> HIDE DEF chosen
  <2> QED  BY <1>2 DEF Surjection
<1>9. IsFiniteSet(Launched) /\ Cardinality(Launched) <= Cardinality(chosen)
  <2> HIDE DEF f, chosen
  <2> QED  BY <1>6, <1>8, FS_Surjection
<1>10. Cardinality(Launched) \in Nat /\ Cardinality(Launched) <= room
  <2>1. Cardinality(Launched) \in Nat /\ Cardinality(chosen) \in Nat
    <3> HIDE DEF chosen
    <3> QED  BY <1>6, <1>9, FS_CardinalityType
  <2> HIDE DEF chosen, room
  <2> QED  BY <1>3, <1>7, <1>9, <2>1
<1>11. Launched \subseteq {t \in Tenants : depth[t] > 0 /\ activeBy[t] < Cap}
  <2>1. \A i \in able : Round[i] \in Tenants /\ Launchable(Round[i])
    BY <1>1
  <2> HIDE DEF chosen, able
  <2> QED  BY <1>2, <1>6, <2>1 DEF Launchable
<1>12. ASSUME globalActive = 0, NEW t \in ToSet(tenantOrder), Launchable(t)
       PROVE  Launched # {}
  <2>1. able # {} /\ able \in SUBSET Nat
    BY <1>1, <1>12
  <2>2. PICK m \in able : \A j \in able : m <= j
    <3> HIDE DEF able
    <3> QED  BY <2>1, Smallest
  <2>3. upTo(m) = {m}
    <3> HIDE DEF n
    <3>1. m \in 1 .. m /\ \A j \in upTo(m) : j = m
      BY <1>1, <1>4, <2>2
    <3> QED  BY <2>2, <3>1
  <2>4. Cardinality(upTo(m)) = 1
    BY <2>3, FS_Singleton
  <2>5. m \in chosen
    <3>1. globalActive + Cardinality(upTo(m)) <= GlobalConcurrency
      <4> HIDE DEF upTo
      <4> QED  BY <1>12, <2>4, SchedulerAssumption
    <3> HIDE DEF upTo, able
    <3> QED  BY <2>2, <3>1
  <2> HIDE DEF chosen
  <2> QED  BY <1>2, <2>5
<1> HIDE DEF room
<1>13. Cardinality(Launched) <= GlobalConcurrency - globalActive
  BY <1>10 DEF room
<1> QED  BY <1>9, <1>10, <1>11, <1>12, <1>13

\* No tenant has a job running that is not counted in all.
LEMMA OneJobEach ==
    ASSUME CountInv, Jobs = {}
    PROVE  \A t \in Tenants : activeBy[t] = 0
<1> SUFFICES ASSUME NEW t \in Tenants, activeBy[t] # 0 PROVE FALSE
  OBVIOUS
<1>1. <<t, 1>> \in Jobs
  BY DEF CountInv, Jobs
<1> QED  BY <1>1

LEMMA TickKeeps ==
    ASSUME SchedulerInv, Tick
    PROVE  SchedulerInv'
<1> USE DEF SchedulerInv
<1>1. CASE tenantOrder = <<>>
  <2>1. /\ UNCHANGED <<depth, tenantOrder, rrIndex, activeBy, globalActive, drain, paused, stopped>>
        /\ tickScheduled' = FALSE
    BY <1>1 DEF Tick
  <2>2. CountInv' /\ LimitInv' /\ DrainInv'
    BY <2>1 DEF CountInv, LimitInv, DrainInv, DrainedIsIdle, Idle, Jobs
  <2>3. OrderInv' /\ SeenInv'
    BY <2>1 DEF OrderInv, SeenInv
  <2>4. ToSet(tenantOrder) = {}
    BY <1>1 DEF ToSet
  <2>5. Awake'
    BY <1>1, <2>1, <2>4 DEF SeenInv, Awake, Idle, CountInv
  <2> QED  BY <2>2, <2>3, <2>5
<1>2. CASE tenantOrder # <<>>
  <2> DEFINE new == {<<t, activeBy[t] + 1>> : t \in Launched}
  <2>1. /\ depth' = [t \in Tenants |-> depth[t] - (IF t \in Launched THEN 1 ELSE 0)]
        /\ activeBy' = [t \in Tenants |-> activeBy[t] + (IF t \in Launched THEN 1 ELSE 0)]
        /\ globalActive' = globalActive + Cardinality(Launched)
        /\ drain' = IF drain = "waiting" /\ Idle(globalActive', depth') THEN "resolved" ELSE drain
        /\ UNCHANGED <<paused, stopped>>
        /\ tenantOrder' = Left(InUse(depth', activeBy'))
        /\ rrIndex' = IF tenantOrder' = <<>> THEN 0 ELSE NextRound(Launched) % Len(tenantOrder')
    BY <1>2, SMTT(30) DEF Tick, Drained, Cleaned
  <2>2. /\ Launched \subseteq {t \in Tenants : depth[t] > 0 /\ activeBy[t] < Cap}
        /\ IsFiniteSet(Launched) /\ Cardinality(Launched) \in Nat
        /\ Cardinality(Launched) <= GlobalConcurrency - globalActive
        /\ globalActive = 0 => \A t \in ToSet(tenantOrder) : Launchable(t) => Launched # {}
    BY <1>2, LaunchedFacts
  <2>3. depth' \in [Tenants -> Nat] /\ activeBy' \in [Tenants -> Nat] /\ globalActive' \in Nat
    BY <2>1, <2>2 DEF CountInv
  <2>4. Jobs' = Jobs \cup new
    <3>1. Jobs' = UNION {{t} \X (1 .. activeBy'[t]) : t \in Tenants}
      BY DEF Jobs
    <3>2. ASSUME NEW t \in Tenants, NEW i
          PROVE  i \in 1 .. activeBy'[t] <=>
                   i \in 1 .. activeBy[t] \/ (t \in Launched /\ i = activeBy[t] + 1)
      BY <2>1 DEF CountInv
    <3> QED  BY <2>2, <3>1, <3>2 DEF Jobs
  <2>5. IsFiniteSet(Jobs') /\ Cardinality(Jobs') = globalActive'
    <3>1. IsFiniteSet(new) /\ Cardinality(new) = Cardinality(Launched) /\ Jobs \cap new = {}
      BY <2>2, StartedJobs
    <3> HIDE DEF new
    <3>2. /\ IsFiniteSet(Jobs \cup new)
          /\ Cardinality(Jobs \cup new) = Cardinality(Jobs) + Cardinality(new) - Cardinality({})
      BY <3>1, FS_Union DEF CountInv
    <3> QED  BY <2>1, <2>2, <2>4, <3>1, <3>2, FS_EmptySet DEF CountInv
  <2>6. LimitInv'
    BY <2>1, <2>2, SchedulerAssumption DEF CountInv, LimitInv
  <2>7. DrainInv'
    <3>1. CASE drain = "resolved"
      <4>1. globalActive = 0 /\ \A t \in Tenants : depth[t] = 0
        BY <3>1 DEF DrainInv, DrainedIsIdle, Idle
      <4>2. Launched = {}
        BY <2>2, <4>1
      <4> QED  BY <2>1, <3>1, <4>1, <4>2, FS_EmptySet DEF CountInv, DrainInv, DrainedIsIdle, Idle
    <3>2. CASE drain # "resolved"
      BY <2>1, <3>2 DEF DrainInv, DrainedIsIdle, Idle
    <3> QED  BY <3>1, <3>2
  <2>8. tenantOrder' \in Seq(Tenants) /\ ToSet(tenantOrder') = ToSet(tenantOrder) \cap InUse(depth', activeBy')
    BY <2>1, LeftKeeps DEF OrderInv
  <2>9. OrderInv'
    <3>1. NextRound(Launched) \in Nat
      <4>1. rrIndex + 1 \in Nat /\ Len(tenantOrder) \in Nat \ {0}
        BY <1>2 DEF OrderInv
      <4> DEFINE a == rrIndex + 1
                 n == Len(tenantOrder)
      <4>2. a % n \in Nat
        <5>1. a \in Nat /\ n \in Nat \ {0}
          BY <4>1
        <5> HIDE DEF a, n
        <5>2. a % n \in 0 .. (n - 1)
          BY <5>1, Remainder
        <5> QED  BY <5>1, <5>2
      <4> QED  BY <4>2 DEF NextRound, OrderInv
    <3>2. CASE tenantOrder' = <<>>
      BY <2>1, <2>8, <3>2 DEF OrderInv
    <3>3. CASE tenantOrder' # <<>>
      <4>1. Len(tenantOrder') \in Nat \ {0}
        BY <2>8, <3>3
      <4>2. NextRound(Launched) % Len(tenantOrder') \in 0 .. (Len(tenantOrder') - 1)
        BY <3>1, <4>1, Remainder
      <4> QED  BY <2>1, <2>8, <3>3, <4>1, <4>2 DEF OrderInv
    <3> QED  BY <3>2, <3>3
  <2>10. SeenInv'
    <3> SUFFICES ASSUME NEW t \in Tenants, depth'[t] > 0 \/ activeBy'[t] > 0
                 PROVE  t \in ToSet(tenantOrder')
      BY DEF SeenInv
    <3>1. t \in InUse(depth', activeBy')
      BY DEF InUse
    <3>2. depth[t] > 0 \/ activeBy[t] > 0
      <4>1. t \in Launched => depth[t] > 0
        BY <2>2
      <4> QED  BY <2>1, <4>1 DEF CountInv
    <3>3. t \in ToSet(tenantOrder)
      BY <3>2 DEF SeenInv
    <3> QED  BY <2>8, <3>1, <3>3
  <2>11. Awake'
    <3>1. ASSUME NEW t \in Tenants, depth'[t] > 0, t \notin paused', globalActive' = 0
          PROVE  FALSE
      <4>1. globalActive = 0 /\ Cardinality(Launched) = 0
        BY <2>1, <2>2, <3>1 DEF CountInv
      <4>2. Launched = {}
        BY <2>2, <4>1, FS_EmptySet
      <4>3. depth[t] > 0 /\ t \notin paused
        <5>1. depth'[t] = depth[t] - (IF t \in Launched THEN 1 ELSE 0) /\ depth[t] \in Nat
          BY <2>1 DEF CountInv
        <5> QED  BY <2>1, <3>1, <4>2, <5>1
      <4>4. activeBy[t] = 0
        <5>1. Jobs = {}
          BY <4>1, FS_EmptySet DEF CountInv
        <5> QED  BY <5>1, OneJobEach DEF CountInv
      <4>5. Launchable(t) /\ t \in ToSet(tenantOrder)
        BY <4>3, <4>4, SchedulerAssumption DEF Launchable, SeenInv
      <4> QED  BY <2>2, <4>1, <4>2, <4>5
    <3>2. ~(drain' = "waiting" /\ Idle(globalActive', depth'))
      BY <2>1
    <3>3. \A t \in Tenants : depth'[t] > 0 /\ t \notin paused' => globalActive' > 0
      BY <2>3, <3>1
    <3> QED  BY <3>2, <3>3 DEF Awake
  <2> QED  BY <2>3, <2>5, <2>6, <2>7, <2>9, <2>10, <2>11 DEF CountInv
<1> QED  BY <1>1, <1>2

LEMMA FinishKeeps ==
    ASSUME SchedulerInv, NEW t \in Tenants, Finish(t)
    PROVE  SchedulerInv'
<1> USE DEF SchedulerInv
<1> DEFINE job == <<t, activeBy[t]>>
<1>1. job \in Jobs
  BY DEF Finish, CountInv, Jobs
<1>2. Jobs' = Jobs \ {job}
  <2>1. Jobs' = UNION {{u} \X (1 .. activeBy'[u]) : u \in Tenants}
    BY DEF Jobs
  <2>2. ASSUME NEW u \in Tenants, NEW i
        PROVE  i \in 1 .. activeBy'[u] <=> i \in 1 .. activeBy[u] /\ ~(u = t /\ i = activeBy[t])
    BY DEF CountInv, Finish
  <2> QED  BY <2>1, <2>2 DEF Jobs
<1>3. IsFiniteSet(Jobs') /\ Cardinality(Jobs') = globalActive - 1
  <2> HIDE DEF job
  <2> QED  BY <1>1, <1>2, FS_RemoveElement DEF CountInv
<1>4. globalActive # 0
  <2> HIDE DEF job
  <2> QED  BY <1>1, FS_EmptySet DEF CountInv
<1>5. CountInv'
  BY <1>3, <1>4 DEF CountInv, Finish
<1>6. LimitInv'
  BY SchedulerAssumption DEF CountInv, LimitInv, Finish
<1>7. DrainInv'
  BY <1>4 DEF DrainInv, DrainedIsIdle, Idle, Finish
<1>8. OrderInv' /\ SeenInv'
  BY DEF OrderInv, SeenInv, CountInv, Finish
<1>9. tenantOrder # <<>>
  <2>1. t \in ToSet(tenantOrder)
    BY DEF SeenInv, Finish
  <2> QED  BY <2>1 DEF ToSet
<1>10. Awake'
  BY <1>9 DEF Awake, Finish, Woken
<1> QED  BY <1>5, <1>6, <1>7, <1>8, <1>10

LEMMA Scheduling == SchedulerSpec => []SchedulerInv
<1>1. SchedulerInit => SchedulerInv
  <2> SUFFICES ASSUME SchedulerInit PROVE SchedulerInv
    OBVIOUS
  <2>1. Jobs = {}
    BY DEF SchedulerInit, Jobs
  <2>2. CountInv /\ LimitInv /\ DrainInv
    BY <2>1, FS_EmptySet, SchedulerAssumption
       DEF SchedulerInit, CountInv, LimitInv, DrainInv, DrainedIsIdle
  <2>3. OrderInv /\ SeenInv /\ Awake
    BY DEF SchedulerInit, OrderInv, SeenInv, Awake
  <2> QED  BY <2>2, <2>3 DEF SchedulerInv
<1>2. SchedulerInv /\ [SchedulerNext]_schedulerVars => SchedulerInv'
  <2> SUFFICES ASSUME SchedulerInv, [SchedulerNext]_schedulerVars PROVE SchedulerInv'
    OBVIOUS
  <2> USE DEF SchedulerInv
  <2>1. ASSUME NEW t \in Tenants, Enqueue(t) PROVE SchedulerInv'
    <3>1. CountInv' /\ LimitInv' /\ DrainInv'
      BY <2>1 DEF Enqueue, CountInv, LimitInv, DrainInv, DrainedIsIdle, Idle, Jobs
    <3>2. tenantOrder' \in Seq(Tenants) /\ ToSet(tenantOrder') = ToSet(tenantOrder) \cup {t} /\ tenantOrder' # <<>>
      <4>1. CASE t \in ToSet(tenantOrder)
        BY <2>1, <4>1 DEF Enqueue, OrderInv, ToSet
      <4>2. CASE t \notin ToSet(tenantOrder)
        <5>1. tenantOrder' = Append(tenantOrder, t) /\ tenantOrder \in Seq(Tenants)
          BY <2>1, <4>2 DEF Enqueue, OrderInv
        <5> QED  BY <5>1 DEF ToSet
      <4> QED  BY <4>1, <4>2
    <3>3. OrderInv'
      <4>1. rrIndex' = rrIndex /\ rrIndex \in Nat
        BY <2>1 DEF Enqueue, OrderInv
      <4>2. rrIndex < Len(tenantOrder')
        <5>1. CASE tenantOrder = <<>>
          <6>1. ToSet(tenantOrder) = {} /\ tenantOrder' = <<t>> /\ rrIndex = 0
            BY <2>1, <5>1 DEF Enqueue, OrderInv, ToSet
          <6> QED  BY <6>1
        <5>2. CASE tenantOrder # <<>>
          <6>1. tenantOrder \in Seq(Tenants) /\ rrIndex < Len(tenantOrder)
            BY <5>2 DEF OrderInv
          <6>2. tenantOrder' = tenantOrder \/ tenantOrder' = Append(tenantOrder, t)
            BY <2>1 DEF Enqueue
          <6> QED  BY <4>1, <6>1, <6>2
        <5> QED  BY <5>1, <5>2
      <4> QED  BY <3>2, <4>1, <4>2 DEF OrderInv
    <3>4. SeenInv'
      BY <2>1, <3>2 DEF Enqueue, SeenInv, CountInv
    <3>5. Awake'
      BY <2>1, <3>2 DEF Enqueue, Awake
    <3> QED  BY <3>1, <3>3, <3>4, <3>5
  <2>2. ASSUME NEW t \in Tenants, Pause(t) \/ Unpause(t) PROVE SchedulerInv'
    <3>1. CountInv' /\ LimitInv' /\ DrainInv'
      BY <2>2 DEF Pause, Unpause, CountInv, LimitInv, DrainInv, DrainedIsIdle, Idle, Jobs
    <3>2. OrderInv' /\ SeenInv'
      BY <2>2 DEF Pause, Unpause, OrderInv, SeenInv
    <3>3. Awake'
      <4>1. CASE Pause(t)
        BY <4>1 DEF Pause, Awake, Idle
      <4>2. CASE Unpause(t)
        BY <4>2 DEF Unpause, Awake, Idle
      <4> QED  BY <2>2, <4>1, <4>2
    <3> QED  BY <3>1, <3>2, <3>3
  <2>3. ASSUME Stop \/ DrainTimeout \/ UNCHANGED schedulerVars PROVE SchedulerInv'
    <3>1. CountInv' /\ LimitInv' /\ DrainInv'
      BY <2>3 DEF Stop, DrainTimeout, schedulerVars, CountInv, LimitInv, DrainInv, DrainedIsIdle, Idle, Jobs
    <3>2. OrderInv' /\ SeenInv'
      BY <2>3 DEF Stop, DrainTimeout, schedulerVars, OrderInv, SeenInv
    <3>3. Awake'
      BY <2>3 DEF Stop, DrainTimeout, schedulerVars, Awake, Idle
    <3> QED  BY <3>1, <3>2, <3>3
  <2> QED  BY <2>1, <2>2, <2>3, TickKeeps, FinishKeeps DEF SchedulerNext
<1> QED  BY <1>1, <1>2, PTL DEF SchedulerSpec

\* checkDrained() looks at globalActive and the queues: once drain() has resolved
\* no job runs or waits, and none is started afterwards.
THEOREM DrainedStaysIdle == SchedulerSpec => []DrainedIsIdle
<1>1. SchedulerInv => DrainedIsIdle
  BY DEF SchedulerInv, DrainInv
<1> QED  BY <1>1, Scheduling, PTL

\* processTick(): at no time do more jobs run than the global limit allows, or more
\* of one tenant than its own.
THEOREM LimitsAreKept ==
    SchedulerSpec => [](globalActive <= GlobalConcurrency /\ \A t \in Tenants : activeBy[t] <= Cap)
<1>1. SchedulerInv => globalActive <= GlobalConcurrency /\ \A t \in Tenants : activeBy[t] <= Cap
  BY DEF SchedulerInv, LimitInv
<1> QED  BY <1>1, Scheduling, PTL

\* scheduleTick(): whenever a tenant that is not paused has a job waiting, a tick is
\* scheduled or a job is running, whose end will schedule one; and a drain() that
\* waits although all is done has a tick to come that will resolve it.
THEOREM NoLostWakeUp == SchedulerSpec => []Awake
<1>1. SchedulerInv => Awake
  BY DEF SchedulerInv
<1> QED  BY <1>1, Scheduling, PTL

\* cleanupEmptyTenants(): the place where the next round starts is one of the order,
\* and the order has every tenant with a job waiting or running.
THEOREM SchedulerTyped ==
    SchedulerSpec => [](SchedulerTypeOK /\ SeenInv)
<1> DEFINE Rest == tickScheduled \in BOOLEAN /\ paused \subseteq Tenants /\ stopped \in BOOLEAN
                   /\ drain \in {"none", "waiting", "resolved", "timeout"}
<1>1. SchedulerInit => Rest
  BY DEF SchedulerInit
<1>2. Rest /\ [SchedulerNext]_schedulerVars => Rest'
  <2> SUFFICES ASSUME Rest, [SchedulerNext]_schedulerVars PROVE Rest'
    OBVIOUS
  <2>1. ASSUME NEW t \in Tenants, Enqueue(t) \/ Pause(t) \/ Unpause(t) \/ Finish(t) PROVE Rest'
    BY <2>1 DEF Enqueue, Pause, Unpause, Finish, Woken
  <2>2. CASE Tick
    <3>1. drain' \in {drain, "resolved"} /\ tickScheduled' = FALSE /\ UNCHANGED <<paused, stopped>>
      BY <2>2, SMTT(30) DEF Tick, Drained
    <3> QED  BY <3>1
  <2>3. CASE Stop \/ DrainTimeout \/ UNCHANGED schedulerVars
    BY <2>3 DEF Stop, DrainTimeout, schedulerVars
  <2> QED  BY <2>1, <2>2, <2>3 DEF SchedulerNext
<1>3. SchedulerInv /\ Rest => SchedulerTypeOK /\ SeenInv
  BY DEF SchedulerInv, OrderInv, CountInv, SchedulerTypeOK
<1> QED  BY <1>1, <1>2, <1>3, Scheduling, PTL DEF SchedulerSpec
=============================================================================
