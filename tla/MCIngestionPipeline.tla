-------------------------- MODULE MCIngestionPipeline --------------------------
(* Two source files, enough for a batch to mix adds with deletions, for a     *)
(* page to be attributed to a neighbour, and for one file to be in the queue  *)
(* while another is being ingested.                                           *)
EXTENDS IngestionPipeline, TLC

CONSTANTS notes, paper
=============================================================================
