------------------------------ MODULE HashChain ------------------------------
(***************************************************************************)
(* What the provenance chain promises to its callers and its auditors,     *)
(* without saying how: a log that only grows at its end, each record       *)
(* carrying the next sequence number and the id of the record before it,   *)
(* and a caller that is told "recorded" only about a record that is in it. *)
(*                                                                         *)
(* docs/provenance.md describes this log; src/provenance/chain.ts builds   *)
(* it out of a file, a promise-chained lock and cached head-of-chain state *)
(* (module ProvenanceChain, which is shown to implement this one).         *)
(***************************************************************************)
EXTENDS Naturals, Sequences

VARIABLES log,      \* the records, oldest first
          acked     \* ids of the records whose append() has resolved

vars == <<log, acked>>

Record == [seq : Nat, id : Nat, prev : Nat]

\* The id the next record must name as its predecessor; 0 is GENESIS.
HeadId == IF log = <<>> THEN 0 ELSE log[Len(log)].id

Ids == {log[k].id : k \in DOMAIN log}
-----------------------------------------------------------------------------
Init == log = <<>> /\ acked = {}

Extend ==
    LET new == log'[Len(log')] IN
    /\ Len(log') = Len(log) + 1
    /\ log' = Append(log, new)
    /\ new \in Record /\ new.seq = Len(log) + 1 /\ new.prev = HeadId
    /\ UNCHANGED acked

Acknowledge == \E id \in Ids :
    /\ acked' = acked \cup {id}
    /\ UNCHANGED log

Next == Extend \/ Acknowledge

Spec == Init /\ [][Next]_vars
=============================================================================
