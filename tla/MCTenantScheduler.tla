--------------------------- MODULE MCTenantScheduler ---------------------------
(* Three tenants, the fewest for which the order of a round matters, and two  *)
(* jobs at a time: a round may end before it has come to every tenant.  Five  *)
(* are needed for a round that keeps falling back (BusySpec).                 *)
EXTENDS TenantScheduler

CONSTANTS ten1, ten2, ten3, ten4, ten5

\* A daemon that keeps working: nobody is paused, nothing is stopped.
BusyNext == Tick \/ \E t \in Tenants : Enqueue(t) \/ Finish(t)

BusySpec ==
    /\ SchedulerInit /\ paused = {}
    /\ [][BusyNext]_schedulerVars
    /\ WF_schedulerVars(Tick)
    /\ \A t \in Tenants : WF_schedulerVars(Finish(t))
=============================================================================
