--------------------------- MODULE MCDaemonLifecycle ---------------------------
(* Two processes, a PID of which may be used again, beside the files of a     *)
(* process that was killed before: a daemon and its predecessor, a daemon and *)
(* a rival, and one `wotw stop` that may be under way for either.             *)
EXTENDS DaemonLifecycle

CONSTANTS d1, d2, s1, none
=============================================================================
