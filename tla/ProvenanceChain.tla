--------------------------- MODULE ProvenanceChain ---------------------------
(***************************************************************************)
(* The tamper-evident log of the daemon (src/provenance/chain.ts): one     *)
(* append-only JSONL file, and any number of ProvenanceChain objects that  *)
(* read its tail once, when they are initialised, and from then on trust   *)
(* the head they hold in memory.  The daemon owns one such object, shared  *)
(* by ingestion, compounding, queries and the archiver; `wotw approve`,    *)
(* `wotw lint --fix` and every scheduled lint pass build one of their own. *)
(*                                                                         *)
(* A SHA-256 is modelled as a fresh number (no collisions, and a payload   *)
(* carries its own timestamp and predecessor).  chain_hash is a function   *)
(* of id and previous_chain_hash, and the two heads are always assigned    *)
(* together, so one link, `prev`, stands for previous_id and               *)
(* previous_chain_hash.  Record contents and the HMAC are left out; the    *)
(* keys behind the HMAC are the subject of module WorkspaceKeys.           *)
(***************************************************************************)
EXTENDS Integers, Sequences, FiniteSets

CONSTANTS
    Instances,     \* ProvenanceChain objects, each in a process of its own
    Callers,       \* the code paths that await append(): ingestion, query, ...
    ChainOf,       \* the object each caller appends through
    Verifying,     \* objects opened under provenance.verify_on_startup
    Faults,        \* which of FaultKinds the file system may inflict
    MaxAppends     \* bound: no call is made once so many records were computed

\* "reject": write() fails having written nothing.  "short": write() resolves
\* having written a prefix (append() ignores bytesWritten).  "sync": fsync
\* fails after the line was written.  "cut": the process dies inside write().
FaultKinds == {"reject", "short", "sync", "cut"}

ASSUME ChainAssumption ==
    /\ ChainOf \in [Callers -> Instances]
    /\ Verifying \subseteq Instances
    /\ Faults \subseteq FaultKinds
    /\ MaxAppends \in Nat

VARIABLES
    exists,        \* the chain file has been created
    file,          \* its lines; NoRecord is a line JSON.parse rejects
    unterminated,  \* its last line does not end in a newline
    phase,         \* per object: how far construction and init() have come
    view,          \* per object: what init() read, before it acts on it
    nextSeq,       \* this.nextSeq
    lastId,        \* this.lastId, this.lastChainHash
    queue,         \* this.writeLock: callers in the order they called
    pc,            \* per caller: where in append() it is
    draft,         \* per caller: the record it computed
    minted,        \* how many ids have been computed
    acked,         \* ids of the records append() has resolved with
    adrift,        \* history: objects whose head in memory the file has left
    drifted,       \* history: ids of the records such objects have written
    torn           \* history: how many writes left only a part of a line

diskVars == <<exists, file, unterminated>>
objectVars == <<phase, view, nextSeq, lastId>>
callVars == <<queue, pc, draft, minted, acked>>
history == <<adrift, drifted, torn>>
vars == <<diskVars, objectVars, callVars, history>>
-----------------------------------------------------------------------------
\* A malformed line, and also what stands before the first record: sequence
\* number 0 and the id GENESIS.
NoRecord == [seq |-> 0, id |-> 0, prev |-> 0]

Record == [seq : Nat \ {0}, id : Nat \ {0}, prev : Nat]
Line == Record \cup {NoRecord}

\* readAll(): the lines that parse, among the positions ks of f.
Readable(f, ks) == {k \in ks : f[k] # NoRecord}

\* Mutant of LastRecord: the first record is taken for the tail.
LastRecord_First(f, ks) ==
    IF Readable(f, ks) = {} THEN NoRecord
    ELSE f[CHOOSE k \in Readable(f, ks) : \A j \in Readable(f, ks) : k <= j]

LastRecord(f, ks) ==
    IF Readable(f, ks) = {} THEN NoRecord
    ELSE f[CHOOSE k \in Readable(f, ks) : \A j \in Readable(f, ks) : j <= k]

RecordIds(f) == {f[k].id : k \in Readable(f, DOMAIN f)}

\* Mutant of Continues: only the sequence numbers are compared.
Continues_SeqOnly(r, before) == r.seq = before.seq + 1

\* verify(): each readable record continues the readable record before it.
Continues(r, before) == r.seq = before.seq + 1 /\ r.prev = before.id

VerifyOk(f) ==
    \A k \in Readable(f, DOMAIN f) : Continues(f[k], LastRecord(f, 1 .. (k - 1)))

\* Mutant of Written: the file is opened with flag "w".
Written_Truncating(f, open, line) == <<line>>

\* What the file holds after `line` is written at its end.  Bytes that follow
\* an unterminated line become part of that line, which no longer parses.
Written(f, open, line) ==
    IF open THEN [f EXCEPT ![Len(f)] = NoRecord] ELSE Append(f, line)
-----------------------------------------------------------------------------
Phases == {"closed", "reading", "verifying", "ready", "refused"}
Unread == [missing |-> TRUE, count |-> 0, last |-> NoRecord]
Holding == {"write", "sync", "commit"}

Open(i) == phase[i] \in {"reading", "verifying", "ready"}
CallersOf(i) == {c \in Callers : ChainOf[c] = i}

TypeOK ==
    /\ exists \in BOOLEAN /\ unterminated \in BOOLEAN
    /\ file \in Seq(Line)
    /\ phase \in [Instances -> Phases]
    /\ view \in [Instances -> [missing : BOOLEAN, count : Nat, last : Line]]
    /\ nextSeq \in [Instances -> Nat \ {0}]
    /\ lastId \in [Instances -> Nat]
    /\ queue \in [Instances -> Seq(Callers)]
    /\ pc \in [Callers -> {"idle", "queued"} \cup Holding]
    /\ draft \in [Callers -> Line]
    /\ minted \in Nat
    /\ acked \in SUBSET Nat
    /\ adrift \subseteq Instances
    /\ drifted \in SUBSET Nat
    /\ torn \in Nat

Init ==
    /\ exists = FALSE /\ file = <<>> /\ unterminated = FALSE
    /\ phase = [i \in Instances |-> "closed"]
    /\ view = [i \in Instances |-> Unread]
    /\ nextSeq = [i \in Instances |-> 1]
    /\ lastId = [i \in Instances |-> 0]
    /\ queue = [i \in Instances |-> <<>>]
    /\ pc = [c \in Callers |-> "idle"]
    /\ draft = [c \in Callers |-> NoRecord]
    /\ minted = 0 /\ acked = {}
    /\ adrift = {} /\ drifted = {} /\ torn = 0
-----------------------------------------------------------------------------
(***************************************************************************)
(* Opening an object: the constructor and init().                          *)
(***************************************************************************)

\* new ProvenanceChain(), then init() up to the await of its first file
\* access: the existence test, and the read of an existing file.
Construct(i) ==
    /\ ~Open(i)
    /\ phase' = [phase EXCEPT ![i] = "reading"]
    /\ view' = [view EXCEPT ![i] =
                  [missing |-> ~exists,
                   count |-> Cardinality(Readable(file, DOMAIN file)),
                   last |-> LastRecord(file, DOMAIN file)]]
    /\ nextSeq' = [nextSeq EXCEPT ![i] = 1]
    /\ lastId' = [lastId EXCEPT ![i] = 0]
    /\ adrift' = adrift \ {i}
    /\ UNCHANGED <<diskVars, callVars, drifted, torn>>

\* The rest of init(), after the await: touch a missing file, refuse a file
\* with content but no record, adopt the tail otherwise.  stat() looks at
\* the file as it is now, the records are those read before.
Adopt(i) ==
    /\ phase[i] = "reading"
    /\ exists' = TRUE
    /\ IF ~view[i].missing /\ view[i].count = 0 /\ file # <<>>
       THEN /\ phase' = [phase EXCEPT ![i] = "refused"]
            /\ UNCHANGED <<nextSeq, lastId>>
       ELSE /\ phase' = [phase EXCEPT ![i] =
                           IF i \in Verifying THEN "verifying" ELSE "ready"]
            /\ IF view[i].count = 0
               THEN UNCHANGED <<nextSeq, lastId>>
               ELSE /\ nextSeq' = [nextSeq EXCEPT ![i] = view[i].last.seq + 1]
                    /\ lastId' = [lastId EXCEPT ![i] = view[i].last.id]
    /\ view' = [view EXCEPT ![i] = Unread]
    /\ UNCHANGED <<file, unterminated, callVars, history>>

\* entry.ts, verify_on_startup: a chain that does not verify stops the start.
VerifyOnStartup(i) ==
    /\ phase[i] = "verifying"
    /\ phase' = [phase EXCEPT ![i] = IF VerifyOk(file) THEN "ready" ELSE "refused"]
    /\ UNCHANGED <<diskVars, view, nextSeq, lastId, callVars, history>>

\* The process of object i exits or is killed: what it holds in memory and
\* its pending calls vanish.
Forget(i) ==
    /\ phase' = [phase EXCEPT ![i] = "closed"]
    /\ queue' = [queue EXCEPT ![i] = <<>>]
    /\ pc' = [c \in Callers |-> IF c \in CallersOf(i) THEN "idle" ELSE pc[c]]
    /\ draft' = [c \in Callers |-> IF c \in CallersOf(i) THEN NoRecord ELSE draft[c]]
    /\ view' = [view EXCEPT ![i] = Unread]
    /\ nextSeq' = [nextSeq EXCEPT ![i] = 1]
    /\ lastId' = [lastId EXCEPT ![i] = 0]
    /\ UNCHANGED <<minted, acked>>

Exit(i) ==
    /\ phase[i] # "closed"
    /\ Forget(i)
    /\ adrift' = adrift \ {i}
    /\ UNCHANGED <<diskVars, drifted, torn>>
-----------------------------------------------------------------------------
(***************************************************************************)
(* append().  Every construction site awaits init() before the first call  *)
(* (entry.ts:157, lint.ts:179, approve.ts:158), so append()'s own init()   *)
(* is never the one that runs.                                             *)
(***************************************************************************)

\* acquireLock(): writeLock.then(...) puts the caller behind all others.
Call(c) ==
    /\ pc[c] = "idle"
    /\ phase[ChainOf[c]] = "ready"
    /\ minted < MaxAppends
    /\ pc' = [pc EXCEPT ![c] = "queued"]
    /\ queue' = [queue EXCEPT ![ChainOf[c]] = Append(@, c)]
    /\ UNCHANGED <<diskVars, objectVars, draft, minted, acked, history>>

\* Mutant of HasLock: append() does not await the lock.
HasLock_Dropped(c) == TRUE

HasLock(c) == queue[ChainOf[c]] # <<>> /\ Head(queue[ChainOf[c]]) = c

NextRecord(c) ==
    [seq |-> nextSeq[ChainOf[c]], id |-> minted + 1, prev |-> lastId[ChainOf[c]]]

\* The lock is granted: seq and predecessor are captured, the id computed,
\* and the file opened for append.
Compute(c) ==
    /\ pc[c] = "queued" /\ HasLock(c)
    /\ minted' = minted + 1
    /\ draft' = [draft EXCEPT ![c] = NextRecord(c)]
    /\ pc' = [pc EXCEPT ![c] = "write"]
    /\ UNCHANGED <<diskVars, objectVars, queue, acked, history>>

\* Mutant of Release: an early exit that forgets to release the lock.
Release_Forgotten(c) ==
    /\ pc' = [pc EXCEPT ![c] = "idle"]
    /\ UNCHANGED queue
    /\ draft' = [draft EXCEPT ![c] = NoRecord]

\* The finally block: the next caller in line gets the lock.
Release(c) ==
    /\ pc' = [pc EXCEPT ![c] = "idle"]
    /\ queue' = [queue EXCEPT ![ChainOf[c]] = Tail(@)]
    /\ draft' = [draft EXCEPT ![c] = NoRecord]

\* History: the file moves on without those of `objects` that exist: what
\* they have read of it, or hold as its head, is no longer its last record.
LeaveBehind(objects) == adrift' = adrift \cup {i \in objects : phase[i] # "closed"}

\* History: the record of an object that was left behind reaches the file.
NoteDrift(c) ==
    drifted' = IF ChainOf[c] \in adrift THEN drifted \cup {draft[c].id} ELSE drifted

\* handle.write(line), the whole line.  Written behind a part of a line, it
\* is lost with it, and nobody's head is the file's any more.
Write(c) ==
    /\ pc[c] = "write"
    /\ file' = Written(file, unterminated, draft[c])
    /\ unterminated' = FALSE /\ exists' = TRUE
    /\ pc' = [pc EXCEPT ![c] = "sync"]
    /\ LeaveBehind(IF unterminated THEN Instances ELSE Instances \ {ChainOf[c]})
    /\ NoteDrift(c)
    /\ UNCHANGED <<objectVars, queue, draft, minted, acked, torn>>

\* open() or write() throws: nothing was written, append() rejects.
WriteRejected(c) ==
    /\ "reject" \in Faults
    /\ pc[c] = "write"
    /\ Release(c)
    /\ UNCHANGED <<diskVars, objectVars, minted, acked, history>>

\* A prefix of the line reaches the file: it does not parse, unless all it
\* lacks is the newline.
Fragment(c) ==
    /\ \E line \in {draft[c], NoRecord} : file' = Written(file, unterminated, line)
    /\ unterminated' = TRUE /\ exists' = TRUE
    /\ NoteDrift(c)
    /\ torn' = torn + 1

\* A short write: append() does not look at bytesWritten and goes on.
WriteShort(c) ==
    /\ "short" \in Faults
    /\ pc[c] = "write"
    /\ Fragment(c)
    /\ pc' = [pc EXCEPT ![c] = "sync"]
    /\ LeaveBehind(Instances)
    /\ UNCHANGED <<objectVars, queue, draft, minted, acked>>

\* The process dies having written only a prefix of the line.
WriteCut(c) ==
    /\ "cut" \in Faults
    /\ pc[c] = "write"
    /\ Fragment(c)
    /\ adrift' = {i \in Instances \ {ChainOf[c]} : phase[i] # "closed"}
    /\ Forget(ChainOf[c])

Sync(c) ==
    /\ pc[c] = "sync"
    /\ pc' = [pc EXCEPT ![c] = "commit"]
    /\ UNCHANGED <<diskVars, objectVars, queue, draft, minted, acked, history>>

\* fsync fails: append() rejects and the head in memory does not advance,
\* while the line stays in the file.
SyncFailed(c) ==
    /\ "sync" \in Faults
    /\ pc[c] = "sync"
    /\ Release(c)
    /\ LeaveBehind({ChainOf[c]})
    /\ UNCHANGED <<diskVars, objectVars, minted, acked, drifted, torn>>

\* Mutant of AdvanceHead: the id of the new record is not kept.
AdvanceHead_StaleId(i, r) ==
    /\ nextSeq' = [nextSeq EXCEPT ![i] = r.seq + 1]
    /\ UNCHANGED lastId

AdvanceHead(i, r) ==
    /\ nextSeq' = [nextSeq EXCEPT ![i] = r.seq + 1]
    /\ lastId' = [lastId EXCEPT ![i] = r.id]

\* The file is closed: the head in memory advances, the record is handed to
\* the cloud sink (fire and forget) and append() resolves with it.
Commit(c) ==
    /\ pc[c] = "commit"
    /\ AdvanceHead(ChainOf[c], draft[c])
    /\ acked' = acked \cup {draft[c].id}
    /\ Release(c)
    /\ UNCHANGED <<diskVars, phase, view, minted, history>>
-----------------------------------------------------------------------------
ObjectStep(i) == Construct(i) \/ Adopt(i) \/ VerifyOnStartup(i) \/ Exit(i)

\* What append() does once its file operations settle, one way or the other.
Settle(c) == Compute(c) \/ Write(c) \/ Sync(c) \/ Commit(c)

FaultStep(c) == WriteRejected(c) \/ WriteShort(c) \/ WriteCut(c) \/ SyncFailed(c)

Next ==
    \/ \E i \in Instances : ObjectStep(i)
    \/ \E c \in Callers : Call(c) \/ Settle(c) \/ FaultStep(c)

\* Promises of the file system settle and continuations run: Node's event
\* loop never starves a resolved promise.  No process is ever obliged to
\* open the chain, to call append(), or to exit.
Fairness == \A c \in Callers : WF_vars(Settle(c))

Spec == Init /\ [][Next]_vars
FairSpec == Spec /\ Fairness
-----------------------------------------------------------------------------
(***************************************************************************)
(* What must hold, with any number of objects open at once and every fault *)
(* of the file system.  docs/architecture.md:246 says that the daemon is   *)
(* the only writer of the chain; nothing in the code sees to it, and no    *)
(* object notices that the file has moved on.  The history variables say   *)
(* when that happens, and the properties what it can cost, and no more.    *)
(***************************************************************************)

\* verify() (chain.ts:392), run at any moment, of any crash, restart or
\* overlap of writers, finds every record to continue the one before it, but
\* for those of an object the file had moved on without: another object had
\* appended since it was opened, or a write of its own had failed after the
\* line was in the file, or was cut short.  An object that is opened after
\* that continues the chain again.
VerifyPasses ==
    \A k \in Readable(file, DOMAIN file) :
        \/ file[k].id \in drifted
        \/ Continues(file[k], LastRecord(file, 1 .. (k - 1)))

\* A record append() has returned, and handed to the cloud sink, can be read
\* back from the file (chain.ts:356, "only after a successful write").  Only
\* a write of which a part reached the file can undo that, and costs at most
\* two records: its own and the one that is written behind it.  A crash, a
\* failed fsync or a second writer costs none.
AckedDurable == Cardinality(acked \ RecordIds(file)) <= 2 * torn

\* Neither the corruption test of init() nor verify_on_startup turns away a
\* start for less than this: a record of an object that had been left behind
\* is in the file, another object has appended since this one was
\* constructed, or the file has not one readable record.  An incomplete last
\* line alone does not.
StartNeverRefused ==
    \A i \in Instances : phase[i] = "refused" =>
        \/ drifted \cap RecordIds(file) # {}
        \/ i \in adrift
        \/ RecordIds(file) = {}

\* The objects together implement the log HashChain promises, the file being
\* the log, until one that was left behind writes or a write is cut short.
Promise == INSTANCE HashChain WITH log <- file
ImplementsHashChain ==
    Promise!Init /\ [][drifted' = {} /\ torn' = 0 => Promise!Next]_<<file, acked>>

\* No fault and no second writer ever changes a line that is complete: the
\* file only grows at its end, and only an unterminated last line can be
\* spoilt by what is written after it.
CompleteLinesKept ==
    [][\A k \in DOMAIN file :
         (k < Len(file) \/ ~unterminated) => k \in DOMAIN file' /\ file'[k] = file[k]]_diskVars

\* A record that is lost although append() returned it does not go unnoticed
\* once a record that names it as predecessor is on disk: verify() fails.
LossIsDetected ==
    (\E k \in Readable(file, DOMAIN file) :
        file[k].prev \in acked \ RecordIds(file)) => ~VerifyOk(file)

\* Whoever calls append() is answered, with the record or with an error: the
\* lock is released on every path (chain.ts:383) and passed on in order.
AppendSettles == \A c \in Callers : pc[c] # "idle" ~> pc[c] = "idle"
=============================================================================
