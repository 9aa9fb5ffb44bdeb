-------------------------- MODULE MCProvenanceChain --------------------------
(* Instances of ProvenanceChain small enough for TLC: the daemon's object   *)
(* with two callers and a second object (a lint pass or `wotw approve`).    *)
EXTENDS ProvenanceChain, TLC

CONSTANTS daemon, lint, ingest, query, heal

MC_Instances == {daemon, lint}
MC_Callers == {ingest, query, heal}
MC_ChainOf == (ingest :> daemon) @@ (query :> daemon) @@ (heal :> lint)
MC_Verifying == {daemon}
=============================================================================
