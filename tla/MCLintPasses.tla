------------------------------ MODULE MCLintPasses ------------------------------
(* Two pages that are alike: duplicates and a cluster, and so they stay when   *)
(* merged.  Either may be stale, have a dead link or miss one to the other: all *)
(* five kinds of findings, of which the quota takes one.                        *)
EXTENDS LintPasses

CONSTANTS t1, t2

MCScore == <<<<30, 20>>, <<20, 30>>>>
MCThresholds == <<0>>
MCScores == <<100, 0>>
=============================================================================
