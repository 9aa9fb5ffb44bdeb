--------------------------------- MODULE Service ---------------------------------
(***************************************************************************)
(* What the daemon does for those who talk to it over HTTP and for the     *)
(* model it talks to: progressive retrieval, downloads into raw/, access   *)
(* tokens, the calls of the model and the facts it finds.  They run in one *)
(* process but share no state: each has variables of its own, so that a    *)
(* behaviour of all is the behaviours of each, in any interleaving.  A     *)
(* behaviour of this module is therefore one of one part, chosen at the    *)
(* start, beside which the others stand still.                             *)
(***************************************************************************)
EXTENDS Uploads, AccessTokens, FactTable

CONSTANTS
    Clients, Questions, Found, Initial, Total, Additional, MaxEntries, TTL,
    MaxTokens, MaxRestarts,
    Slots, MaxBatches, MaxCallFaults

VARIABLES
    part,           \* the part this behaviour is about
    cache, client, unused, restarts,
    mode, call, agents, ledger, open, failed, unlisted, orphaned, started, callFaults

Retrieval == INSTANCE ProgressiveRetrieval
Calls == INSTANCE ModelCalls

ASSUME ServiceAssumption ==
    /\ Retrieval!RetrievalAssumption
    /\ UploadAssumption
    /\ AccessAssumption
    /\ Calls!CallAssumption
    /\ FactAssumption

retrievalVars == <<cache, client, unused, restarts>>
callVars == <<mode, call, agents, ledger, open, failed, unlisted, orphaned, started, callFaults>>
vars == <<part, retrievalVars, uploadVars, accessVars, callVars, factVars>>
-----------------------------------------------------------------------------
\* The runtime the daemon has settled for matters to its calls only.
Init ==
    /\ part \in {"retrieval", "uploads", "access", "calls", "facts"}
    /\ Retrieval!RetrievalInit
    /\ UploadsInit
    /\ AccessInit
    /\ Calls!CallsInit
    /\ FactInit
    /\ part # "calls" => mode = "api"

RetrievalStep ==
    /\ part = "retrieval"
    /\ Retrieval!RetrievalNext
    /\ UNCHANGED <<part, uploadVars, accessVars, callVars, factVars>>

UploadStep ==
    /\ part = "uploads"
    /\ UploadsNext
    /\ UNCHANGED <<part, retrievalVars, accessVars, callVars, factVars>>

AccessStep ==
    /\ part = "access"
    /\ AccessNext
    /\ UNCHANGED <<part, retrievalVars, uploadVars, callVars, factVars>>

CallStep ==
    /\ part = "calls"
    /\ Calls!CallsNext
    /\ UNCHANGED <<part, retrievalVars, uploadVars, accessVars, factVars>>

FactStep ==
    /\ part = "facts"
    /\ FactNext
    /\ UNCHANGED <<part, retrievalVars, uploadVars, accessVars, callVars>>

Next == RetrievalStep \/ UploadStep \/ AccessStep \/ CallStep \/ FactStep

Spec == Init /\ [][Next]_vars
-----------------------------------------------------------------------------
\* Who was told that there is more gets it (server/progressive-query.ts).
PromiseIsKept == Retrieval!PromiseIsKept

\* Every process has a batch that waits for it, every failure is on the ledger
\* (ingestion/cli-invoker.ts, ingestion/dead-letter.ts).
CallsAreAccountedFor == Calls!CallsAreAccountedFor

\* The other properties are those of the modules this one extends:
\* AcceptedStays, TokensHold, OneExtraction, IndexFollows and FactsAreOnRecord.
=============================================================================
