----------------------------- MODULE WorkspaceKeys -----------------------------
(***************************************************************************)
(* The signing keys of a hosted workspace (src/keys/store.ts): the rows of *)
(* keys.db, each a data-encryption key (DEK) wrapped under the key-        *)
(* encryption key (KEK) of the deployment, and the processes that use      *)
(* them.  The daemon keeps one KeyStore open, with the KEK it found in its *)
(* environment and a cache of unwrapped DEKs; `wotw keys rotate` and       *)
(* `wotw workspace rotate-kek` open one of their own for a single call,    *)
(* which is one SQLite transaction.  The operator owns the two secrets of  *)
(* docs/policies/kek-rotation.md, WOTW_WORKSPACE_KEK and its _NEW twin;    *)
(* setting either redeploys, and so restarts, the daemon.                  *)
(*                                                                         *)
(* One workspace.  Provenance records are reduced to the set of keys they  *)
(* were signed with.  Timestamps are left out: a rotating key may pass its *)
(* overlap window at any time.                                             *)
(***************************************************************************)
EXTENDS Naturals, FiniteSets

CONSTANTS
    Keys,        \* key ids, an endless supply of random UUIDs
    Keks,        \* key-encryption keys
    NoKek,       \* WOTW_WORKSPACE_KEK_NEW unset, or a row not there
    RevokeFrom,  \* the states from which keys are revoked
    Rollback     \* TRUE: the operator may follow the runbook's rollback

ASSUME KeysAssumption ==
    /\ NoKek \notin Keks
    /\ RevokeFrom \subseteq {"active", "rotating", "archived"}
    /\ Rollback \in BOOLEAN

VARIABLES
    keyState,  \* per key: key_state of its row, "none" without a row
    wrap,      \* per key: the KEK its encrypted_dek is wrapped under
    secret,    \* WOTW_WORKSPACE_KEK
    staged,    \* WOTW_WORKSPACE_KEK_NEW
    rotated,   \* the operator has seen rotate-kek succeed with the staged KEK
    phase,     \* how far the daemon has come
    kek,       \* the daemon: this.kek
    dekCache,  \* the daemon: keys whose DEK is in memory
    signed     \* keys whose id some record of the chain carries

storeVars == <<keyState, wrap>>
operatorVars == <<secret, staged, rotated>>
daemonVars == <<phase, kek, dekCache>>
vars == <<storeVars, operatorVars, daemonVars, signed>>
-----------------------------------------------------------------------------
KeyStates == {"none", "active", "rotating", "archived", "revoked"}
Phases == {"down", "provision", "init", "ready", "refused"}

TypeOK ==
    /\ keyState \in [Keys -> KeyStates]
    /\ wrap \in [Keys -> Keks \cup {NoKek}]
    /\ \A k \in Keys : keyState[k] = "none" <=> wrap[k] = NoKek
    /\ secret \in Keks
    /\ staged \in Keks \cup {NoKek}
    /\ rotated \in BOOLEAN /\ (rotated => staged # NoKek)
    /\ phase \in Phases
    /\ kek \in Keks
    /\ dekCache \subseteq Keys
    /\ signed \subseteq Keys

Init ==
    /\ keyState = [k \in Keys |-> "none"]
    /\ wrap = [k \in Keys |-> NoKek]
    /\ secret \in Keks /\ kek = secret
    /\ staged = NoKek /\ rotated = FALSE
    /\ phase = "down"
    /\ dekCache = {} /\ signed = {}

InState(s) == {k \in Keys : keyState[k] = s}
Kept == {k \in Keys : keyState[k] \notin {"none", "revoked"}}

\* unwrapWithCache() and resolveById() in the daemon.
Readable(k) == k \in dekCache \/ wrap[k] = kek
-----------------------------------------------------------------------------
(***************************************************************************)
(* The daemon (daemon/entry.ts:108-171): open the store, take or provision *)
(* the active key, then initialise and verify the chain.                   *)
(***************************************************************************)

\* new KeyStore(), then active().  A DEK that does not unwrap is fatal.
Start ==
    /\ phase \in {"down", "refused"}
    /\ kek' = secret
    /\ \/ /\ InState("active") = {}
          /\ phase' = "provision" /\ dekCache' = {}
       \/ \E k \in InState("active") :
            IF wrap[k] = secret
            THEN phase' = "init" /\ dekCache' = {k}
            ELSE phase' = "refused" /\ dekCache' = {}
    /\ UNCHANGED <<storeVars, operatorVars, signed>>

\* INSERT of a new active row, wrapped under w.
Inserted(k, w, states) ==
    /\ keyState' = [states EXCEPT ![k] = "active"]
    /\ wrap' = [wrap EXCEPT ![k] = w]

\* provision(): a second active row is refused, by its own test or, when a
\* rotation slipped in between, by the unique index.
Blocked == InState("active") # {}

Provision ==
    /\ phase = "provision"
    /\ IF Blocked
       THEN /\ phase' = "refused"
            /\ UNCHANGED <<storeVars, dekCache>>
       ELSE \E k \in InState("none") :
              /\ Inserted(k, kek, keyState)
              /\ phase' = "init" /\ dekCache' = {k}
    /\ UNCHANGED <<kek, operatorVars, signed>>

\* Mutant of Checked: only what is in memory already.
Checked_Cached == signed \cap dekCache

\* The keys whose records verify_on_startup checks: every one.
Checked == signed

\* init() and verify() of the chain resolve the keys its records carry; one
\* that does not unwrap makes resolveById() throw, and the daemon give up.
InitChain ==
    /\ phase = "init"
    /\ IF \A k \in Checked : Readable(k)
       THEN phase' = "ready" /\ dekCache' = dekCache \cup Checked
       ELSE phase' = "refused" /\ UNCHANGED dekCache
    /\ UNCHANGED <<kek, storeVars, operatorVars, signed>>

\* append(): sign under the active key.  When its DEK does not unwrap, append()
\* throws and no record is written; without an active key the record carries
\* no key id.
Sign ==
    /\ phase = "ready"
    /\ \E k \in InState("active") :
         /\ Readable(k)
         /\ signed' = signed \cup {k}
         /\ dekCache' = dekCache \cup {k}
    /\ UNCHANGED <<phase, kek, storeVars, operatorVars>>

\* The daemon stops or dies.
Down ==
    /\ phase # "down"
    /\ phase' = "down" /\ dekCache' = {}
    /\ UNCHANGED <<kek, storeVars, operatorVars, signed>>
-----------------------------------------------------------------------------
\* Mutant of Demoted: the previous active row keeps its state.
Demoted_Not == keyState

\* rotate(): the active row, if any, turns to rotating ...
Demoted == [k \in Keys |-> IF keyState[k] = "active" THEN "rotating" ELSE keyState[k]]

\* ... once its DEK was unwrapped, or the transaction rolls back; a new active
\* row is inserted.  `wotw keys rotate` runs it under the KEK of the secret.
Rotate ==
    /\ \A k \in InState("active") : wrap[k] = secret
    /\ \E k \in InState("none") : Inserted(k, secret, Demoted)
    /\ UNCHANGED <<operatorVars, daemonVars, signed>>

\* archiveOverlapped(): the rows ks, past their overlap window, in one
\* transaction.
Archived(ks) == [k \in Keys |-> IF k \in ks THEN "archived" ELSE keyState[k]]

\* The sweep of the running daemon, at startup and every hour.  A failure is
\* logged, and the next sweep tries again.
Sweep ==
    /\ phase = "ready"
    /\ \E ks \in SUBSET InState("rotating") : keyState' = Archived(ks)
    /\ UNCHANGED <<wrap, operatorVars, daemonVars, signed>>

\* `wotw workspace archive-overlapped`, beside the daemon or without it.  It
\* opens the store under the secret but unwraps nothing.
ArchiveCommand ==
    /\ \E ks \in SUBSET InState("rotating") : keyState' = Archived(ks)
    /\ UNCHANGED <<wrap, operatorVars, daemonVars, signed>>

\* revoke().  No command calls it yet; the record keeps its wrapping.
Revoke(k) ==
    /\ keyState[k] \in RevokeFrom
    /\ keyState' = [keyState EXCEPT ![k] = "revoked"]
    /\ UNCHANGED <<wrap, operatorVars, daemonVars, signed>>

\* Mutant of Rewrapped: archived keys are skipped too.
Rewrapped_SkipArchived ==
    [k \in Keys |-> IF k \in Kept /\ keyState[k] # "archived" THEN staged ELSE wrap[k]]

\* rotateKek(): every row that is not revoked is wrapped under the new KEK.
Rewrapped == [k \in Keys |-> IF k \in Kept THEN staged ELSE wrap[k]]

\* `wotw workspace rotate-kek`: all rows or, when one does not unwrap under
\* the current secret, none.  The daemon's KeyStore learns nothing of it.  The
\* operator does not take "0 DEK row(s) re-encrypted" for a success.
RotateKek ==
    /\ staged # NoKek
    /\ \A k \in Kept : wrap[k] = secret
    /\ wrap' = Rewrapped
    /\ rotated' = (Kept # {})
    /\ UNCHANGED <<keyState, secret, staged, daemonVars, signed>>
-----------------------------------------------------------------------------
(***************************************************************************)
(* The operator, following the runbook.  External.                         *)
(***************************************************************************)

Redeployed == phase' = "down" /\ dekCache' = {} /\ UNCHANGED <<kek, storeVars, signed>>

\* Step 2: stage a new KEK.  The rollback section has the operator put the old
\* KEK in its place and rotate again.
Stage(n) ==
    /\ staged = NoKek \/ (Rollback /\ n = secret)
    /\ staged' = n /\ rotated' = FALSE
    /\ Redeployed
    /\ UNCHANGED secret

\* Step 6: rotate-kek has reported success, the staged KEK becomes the secret.
Swap ==
    /\ rotated
    /\ secret' = staged /\ staged' = NoKek /\ rotated' = FALSE
    /\ Redeployed
-----------------------------------------------------------------------------
Next ==
    \/ Start \/ Provision \/ InitChain \/ Sign \/ Down
    \/ Rotate \/ RotateKek \/ Sweep \/ ArchiveCommand
    \/ \E k \in Keys : Revoke(k)
    \/ \E n \in Keks : Stage(n)
    \/ Swap

Spec == Init /\ [][Next]_vars
-----------------------------------------------------------------------------
\* New records are signed under one key: rotation and provisioning, in two
\* processes, never leave two active rows (store.ts:54).
OneActive == \A j, k \in InState("active") : j = k

\* Whatever the order of provisioning, DEK rotations and KEK rotations in the
\* daemon and on the command line, all rows in use are wrapped under one KEK:
\* no half-rotated store (store.ts:313, "partial failure rolls back").
OneKek == \A j, k \in Kept : wrap[j] = wrap[k]

\* A KEK is rotated "without losing access to any historical DEK"
\* (kek-rotation.md:4): every row in use unwraps under a KEK that the
\* deployment still has.
NoDekLost == \A k \in Kept : wrap[k] \in {secret, staged}

\* The running daemon can check every record of the chain, also while rows are
\* being re-wrapped under a KEK it does not have (kek-rotation.md, step 5): it
\* cached what it checked at startup and what it signed since.
RunningDaemonVerifies == phase = "ready" => \A k \in signed : Readable(k)
=============================================================================
