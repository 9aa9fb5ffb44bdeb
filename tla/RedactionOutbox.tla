---------------------------- MODULE RedactionOutbox ----------------------------
(***************************************************************************)
(* The outbox of redaction events (src/provenance/redaction-emit-store.ts  *)
(* and redaction-emit-worker.ts).  The prompt builder writes a row for     *)
(* every redaction before anything is sent; the worker takes the oldest    *)
(* pending rows, POSTs them as one batch and marks them, while rows keep   *)
(* coming in.  The POST gives up after ten seconds, which says nothing of  *)
(* what the cloud did or will do with it, and the daemon may die anywhere. *)
(*                                                                         *)
(* Rows are taken in the order of their creation; two rows of the same     *)
(* millisecond, which the code orders by their random ids, keep that order *)
(* too.  The interval between ticks, and its backoff, are left out: a      *)
(* tick may come at any time.                                              *)
(***************************************************************************)
EXTENDS Naturals, SequencesExt

CONSTANTS
    Events,       \* event ids, fresh UUIDs
    Malformed,    \* those the cloud refuses, and with them their whole batch
    BatchSize,    \* batchSize
    MaxAttempts,  \* maxAttempts
    MaxCrashes    \* bound: deaths of the daemon

ASSUME OutboxAssumption ==
    /\ Malformed \subseteq Events
    /\ BatchSize \in Nat \ {0}
    /\ MaxAttempts \in Nat \ {0}
    /\ MaxCrashes \in Nat

VARIABLES
    rows,      \* event ids by created_at
    status,    \* per event: status of its row, "none" without a row
    attempts,  \* per event: attempts
    posting,   \* the batch the worker awaits an answer for, or {}
    net,       \* batches the cloud has yet to handle
    answer,    \* what the cloud has answered the worker, if anything
    cloud,     \* events in the redaction log of the cloud
    up,        \* whether the daemon runs
    crashes    \* deaths so far

outboxVars == <<rows, status, attempts, posting, net, answer, cloud, up, crashes>>
-----------------------------------------------------------------------------
Batches == {b \in SUBSET Events : b # {}}

OutboxTypeOK ==
    /\ rows \in Seq(Events)
    /\ status \in [Events -> {"none", "pending", "sent", "archived"}]
    /\ attempts \in [Events -> 0..MaxAttempts]
    /\ posting \subseteq Events
    /\ net \subseteq Batches
    /\ answer \in {"none", "accepted", "refused"}
    /\ cloud \subseteq Events \ Malformed
    /\ up \in BOOLEAN
    /\ crashes \in 0..MaxCrashes

OutboxInit ==
    /\ rows = <<>>
    /\ status = [e \in Events |-> "none"]
    /\ attempts = [e \in Events |-> 0]
    /\ posting = {} /\ net = {} /\ answer = "none"
    /\ cloud = {}
    /\ up = TRUE /\ crashes = 0

Pending == {e \in Events : status[e] = "pending"}

\* listPending(): the first BatchSize of the pending rows.
ListPending ==
    LET isPending(e) == status[e] = "pending"
        waiting == SelectSeq(rows, isPending)
    IN  {waiting[i] : i \in 1..Len(waiting) \cap 1..BatchSize}
-----------------------------------------------------------------------------
\* enqueue(), from the prompt builder, also while the worker awaits an answer.
EnqueueEvent(e) ==
    /\ up
    /\ status[e] = "none"
    /\ rows' = Append(rows, e)
    /\ status' = [status EXCEPT ![e] = "pending"]
    /\ UNCHANGED <<attempts, posting, net, answer, cloud, up, crashes>>

\* tick() up to the POST.
Post ==
    /\ up /\ posting = {}
    /\ Pending # {}
    /\ posting' = ListPending
    /\ net' = net \cup {ListPending}
    /\ answer' = "none"
    /\ UNCHANGED <<rows, status, attempts, cloud, up, crashes>>

\* The endpoint handles a request, if ever: all of the batch, whose event ids
\* it has only once, or nothing.  The answer may get lost; that of a request
\* the worker has given up on is.  External.
Handle(b) ==
    /\ b \in net
    /\ net' = net \ {b}
    /\ cloud' = IF b \cap Malformed = {} THEN cloud \cup b ELSE cloud
    /\ \/ UNCHANGED answer
       \/ /\ posting = b /\ answer = "none"
          /\ answer' = IF b \cap Malformed = {} THEN "accepted" ELSE "refused"
    /\ UNCHANGED <<rows, status, attempts, posting, up, crashes>>

\* post(): what the worker takes for delivery.  Any other status, an error and
\* the end of the ten seconds are a failure all the same.
PostOk == answer = "accepted"

\* Mutant of MarkedSent: whatever is pending by now.
MarkedSent_Pending == [e \in Events |-> IF e \in Pending THEN "sent" ELSE status[e]]

\* markSent(eventIds).
MarkedSent == [e \in Events |-> IF e \in posting \cap Pending THEN "sent" ELSE status[e]]

\* tick() after an answer 2xx.
Accepted ==
    /\ up /\ PostOk
    /\ status' = MarkedSent
    /\ posting' = {} /\ answer' = "none"
    /\ UNCHANGED <<rows, attempts, net, cloud, up, crashes>>

\* Mutant of Tried: a failed POST is not counted.
Tried_Not == attempts

\* markFailed(eventIds).
Tried == [e \in Events |-> attempts[e] + (IF e \in posting \cap Pending THEN 1 ELSE 0)]

\* archiveExhausted(maxAttempts).
Exhausted(tried) ==
    [e \in Events |-> IF e \in Pending /\ tried[e] >= MaxAttempts THEN "archived" ELSE status[e]]

\* tick() after any other answer, or none in time: the request may still be
\* on its way.
Failed ==
    /\ up /\ posting # {}
    /\ ~PostOk
    /\ attempts' = Tried
    /\ status' = Exhausted(Tried)
    /\ posting' = {} /\ answer' = "none"
    /\ UNCHANGED <<rows, net, cloud, up, crashes>>

\* The daemon dies; the table and the requests sent stay.
Crash ==
    /\ up /\ crashes < MaxCrashes
    /\ up' = FALSE /\ crashes' = crashes + 1
    /\ posting' = {} /\ answer' = "none"
    /\ UNCHANGED <<rows, status, attempts, net, cloud>>

Restart ==
    /\ ~up
    /\ up' = TRUE
    /\ UNCHANGED <<rows, status, attempts, posting, net, answer, cloud, crashes>>
-----------------------------------------------------------------------------
OutboxNext ==
    \/ \E e \in Events : EnqueueEvent(e)
    \/ Post \/ Accepted \/ Failed
    \/ \E b \in net : Handle(b)
    \/ Crash \/ Restart

OutboxSpec == OutboxInit /\ [][OutboxNext]_outboxVars

\* Ticks follow each other, each POST ends after ten seconds at the latest, and
\* the supervisor restarts the daemon.  Nothing is assumed of the cloud.
OutboxFairSpec ==
    /\ OutboxSpec
    /\ WF_outboxVars(Post) /\ WF_outboxVars(Accepted \/ Failed) /\ WF_outboxVars(Restart)
-----------------------------------------------------------------------------
\* A row that is no longer retried because it was sent is in the cloud, though
\* rows come in during the POST, answers get lost and requests arrive late.
SentIsDelivered == \A e \in Events : status[e] = "sent" => e \in cloud

\* No event waits forever, not behind malformed ones and not with the cloud
\* down: it is sent or, after MaxAttempts, put aside for review.
EventuallySettled == \A e \in Events : status[e] = "pending" ~> status[e] \in {"sent", "archived"}
=============================================================================
