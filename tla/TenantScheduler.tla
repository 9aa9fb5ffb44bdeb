---------------------------- MODULE TenantScheduler ----------------------------
(***************************************************************************)
(* The job scheduler of the hosted mode (src/ingestion/tenant-scheduler.   *)
(* ts): a FIFO of jobs per tenant, served round robin by a tick that runs  *)
(* as a microtask, under a global and a per-tenant concurrency limit, with *)
(* a kill switch per tenant and a drain for shutdown.                      *)
(*                                                                         *)
(* The jobs of one tenant are interchangeable here, so a FIFO is its       *)
(* length.  A microtask runs to its end before anything else does: each    *)
(* handler and each tick is one step, and between two of them calls and    *)
(* completions of any tenant may come in any order.                        *)
(***************************************************************************)
EXTENDS Naturals, SequencesExt

CONSTANTS
    Tenants,
    GlobalConcurrency,  \* globalConcurrency
    Cap,                \* getConcurrencyCap(), the same for all tenants
    MaxDepth            \* bound: jobs waiting per tenant

ASSUME SchedulerAssumption ==
    /\ IsFiniteSet(Tenants)
    /\ GlobalConcurrency \in Nat \ {0}
    /\ Cap \in Nat \ {0}
    /\ MaxDepth \in Nat

VARIABLES
    depth,          \* lengths of subqueues
    tenantOrder,    \* tenants with an entry, in round-robin order
    rrIndex,        \* where the next round starts, from 0
    activeBy,       \* activeByTenant: jobs running per tenant
    globalActive,   \* jobs running
    tickScheduled,  \* a tick is waiting in the microtask queue
    paused,         \* the tenants whose kill switch is on
    stopped,        \* stop() was called
    drain           \* drain(): not called, waiting, resolved or given up on

schedulerVars == <<depth, tenantOrder, rrIndex, activeBy, globalActive, tickScheduled,
          paused, stopped, drain>>
-----------------------------------------------------------------------------
SchedulerTypeOK ==
    /\ depth \in [Tenants -> Nat]
    /\ tenantOrder \in Seq(Tenants)
    /\ rrIndex \in Nat
    /\ tenantOrder = <<>> \/ rrIndex < Len(tenantOrder)
    /\ activeBy \in [Tenants -> Nat]
    /\ globalActive \in Nat
    /\ tickScheduled \in BOOLEAN
    /\ paused \subseteq Tenants
    /\ stopped \in BOOLEAN
    /\ drain \in {"none", "waiting", "resolved", "timeout"}

\* Tenants may be paused by the configuration from the start.
SchedulerInit ==
    /\ depth = [t \in Tenants |-> 0]
    /\ tenantOrder = <<>>
    /\ rrIndex = 0
    /\ activeBy = [t \in Tenants |-> 0]
    /\ globalActive = 0
    /\ tickScheduled = FALSE
    /\ paused \in SUBSET Tenants
    /\ stopped = FALSE
    /\ drain = "none"

\* No job runs, none waits.
Idle(running, waiting) == running = 0 /\ \A t \in Tenants : waiting[t] = 0
-----------------------------------------------------------------------------
\* enqueue().  Once stopped, a job is logged and forgotten.
Enqueue(t) ==
    /\ ~stopped
    /\ depth[t] < MaxDepth
    /\ depth' = [depth EXCEPT ![t] = @ + 1]
    /\ tenantOrder' = IF t \in ToSet(tenantOrder) THEN tenantOrder ELSE Append(tenantOrder, t)
    /\ tickScheduled' = TRUE
    /\ UNCHANGED <<rrIndex, activeBy, globalActive, paused, stopped, drain>>

\* setPaused(), after the callback's state has changed.
Pause(t) ==
    /\ t \notin paused
    /\ paused' = paused \cup {t}
    /\ UNCHANGED <<depth, tenantOrder, rrIndex, activeBy, globalActive,
                   tickScheduled, stopped, drain>>

Unpause(t) ==
    /\ t \in paused
    /\ paused' = paused \ {t}
    /\ tickScheduled' = TRUE
    /\ UNCHANGED <<depth, tenantOrder, rrIndex, activeBy, globalActive, stopped, drain>>

\* One round: the tenants from rrIndex on ...
Round ==
    LET n == Len(tenantOrder)
    IN  [i \in 1..n |-> tenantOrder[1 + ((rrIndex + i - 1) % n)]]

\* ... of which those may start a job that are not paused, have one waiting
\* and are below their limit ...
Launchable(t) ==
    /\ t \notin paused
    /\ depth[t] > 0
    /\ activeBy[t] < Cap

\* ... and of these, in order, as many do as the global limit leaves room for:
\* one job each.
Launched ==
    LET round == Round
        able == {i \in DOMAIN round : Launchable(round[i])}
    IN  {round[i] : i \in {j \in able :
            globalActive + Cardinality(able \cap 1..j) <= GlobalConcurrency}}

\* Mutant of NextRound: each round starts with the same tenant.
NextRound_Same(launched) == rrIndex

\* A round that launched a job is followed by one from the next tenant on.
NextRound(launched) == IF launched = {} THEN rrIndex ELSE (rrIndex + 1) % Len(tenantOrder)

\* cleanupEmptyTenants(): only tenants with a job waiting or running keep
\* their entry ...
InUse(waiting, running) == {t \in Tenants : waiting[t] > 0 \/ running[t] > 0}

Left(set) ==
    LET left[n \in 0..Len(tenantOrder)] ==
          IF n = 0 THEN <<>>
          ELSE IF tenantOrder[n] \in set THEN Append(left[n - 1], tenantOrder[n])
          ELSE left[n - 1]
    IN  left[Len(tenantOrder)]

\* ... and rrIndex stays in bounds.
Cleaned(waiting, running, rr) ==
    /\ tenantOrder' = Left(InUse(waiting, running))
    /\ rrIndex' = IF tenantOrder' = <<>> THEN 0 ELSE rr % Len(tenantOrder')

\* Mutant of Drained: only the queues are looked at.
Drained_Running(running, waiting) ==
    drain' = IF drain = "waiting" /\ Idle(0, waiting) THEN "resolved" ELSE drain

\* checkDrained().
Drained(running, waiting) ==
    drain' = IF drain = "waiting" /\ Idle(running, waiting) THEN "resolved" ELSE drain

\* processTick().  Without tenants it returns at once.
Tick ==
    /\ tickScheduled
    /\ tickScheduled' = FALSE
    /\ IF tenantOrder = <<>>
       THEN UNCHANGED <<depth, tenantOrder, rrIndex, activeBy, globalActive, drain>>
       ELSE \E launched \in {Launched} :
              LET step == [t \in Tenants |-> IF t \in launched THEN 1 ELSE 0]
              IN  /\ depth' = [t \in Tenants |-> depth[t] - step[t]]
                  /\ activeBy' = [t \in Tenants |-> activeBy[t] + step[t]]
                  /\ globalActive' = globalActive + Cardinality(launched)
                  /\ Cleaned(depth', activeBy', NextRound(launched))
                  /\ Drained(globalActive', depth')
    /\ UNCHANGED <<paused, stopped>>

\* Mutant of Woken: the tick is left to the next enqueue().
Woken_Not == tickScheduled

\* scheduleTick() at the end of a job.
Woken == TRUE

\* executeJob(): the job ends, well or not.
Finish(t) ==
    /\ activeBy[t] > 0
    /\ activeBy' = [activeBy EXCEPT ![t] = @ - 1]
    /\ globalActive' = globalActive - 1
    /\ tickScheduled' = Woken
    /\ UNCHANGED <<depth, tenantOrder, rrIndex, paused, stopped, drain>>

\* IngestionQueue.stop(): stop(), then drain() ...
Stop ==
    /\ ~stopped
    /\ stopped' = TRUE
    /\ drain' = IF Idle(globalActive, depth) THEN "resolved" ELSE "waiting"
    /\ UNCHANGED <<depth, tenantOrder, rrIndex, activeBy, globalActive,
                   tickScheduled, paused>>

\* ... for five seconds.
DrainTimeout ==
    /\ drain = "waiting"
    /\ drain' = "timeout"
    /\ UNCHANGED <<depth, tenantOrder, rrIndex, activeBy, globalActive,
                   tickScheduled, paused, stopped>>
-----------------------------------------------------------------------------
SchedulerNext ==
    \/ \E t \in Tenants : Enqueue(t) \/ Pause(t) \/ Unpause(t) \/ Finish(t)
    \/ Tick
    \/ Stop
    \/ DrainTimeout

SchedulerSpec == SchedulerInit /\ [][SchedulerNext]_schedulerVars

\* The microtask queue is served, and every job ends.
SchedulerFairSpec == SchedulerSpec /\ WF_schedulerVars(Tick) /\ \A t \in Tenants : WF_schedulerVars(Finish(t))
-----------------------------------------------------------------------------
\* drain() resolves when all work is done, and nothing starts afterwards.
DrainedIsIdle == drain = "resolved" => Idle(globalActive, depth)

\* "no tenant is systematically starved" (tenant-scheduler.ts:177): a tenant
\* with a job waiting gets one started, unless it is paused.
NobodyStarves ==
    \A t \in Tenants : depth[t] > 0 ~> activeBy[t] > 0 \/ t \in paused

\* What is true of it: as long as no tenant runs out of work and leaves the
\* round, rrIndex comes to every tenant of it, those that join it included.
\* Each time one leaves, rrIndex is reduced modulo a smaller number and may
\* fall back behind a tenant whose turn was near.
NoStarvation ==
    []<><<Len(tenantOrder') < Len(tenantOrder)>>_tenantOrder \/ NobodyStarves

\* A drain ends by itself, not only by its timeout: when the jobs end and no
\* tenant is left paused, all work gets done.
DrainEnds == (drain = "waiting") ~> (drain # "waiting" \/ paused # {})
=============================================================================
