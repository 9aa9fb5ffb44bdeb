------------------------- MODULE DaemonLifecycleProofs -------------------------
(***************************************************************************)
(* Theorems about DaemonLifecycle for any number of processes, commands,   *)
(* subsystems and launches.                                                *)
(*                                                                         *)
(* A daemon that serves holds the start lock as long as no process was     *)
(* suspended: a stale lock then belongs to a dead process.  OneDaemon is   *)
(* no more than that; Findable needs that only the holder of the lock, or  *)
(* a `wotw stop` that waits for it, takes the PID file away.  Shutdown     *)
(* goes down the subsystems from the last to the first, so that what is    *)
(* still up above its current one is late or has failed.                   *)
(***************************************************************************)
EXTENDS DaemonLifecycle, TLAPS

\* Only a process past the lock starts or stops subsystems.
Shaped ==
    \A d \in Daemons : stage[d] # "up" => starting[d] = N + 1 /\ halting[d] = N + 1

\* Until a suspension the lock is that of the only daemon that may serve.
LockInv ==
    freezes = 0 =>
        /\ frozen = {}
        /\ lockStale => ~Alive(lock)
        /\ \A d \in Daemons : stage[d] = "up" /\ halting[d] >= 0 => lock = d

\* ... whom the PID file and whoever waits to remove it name.
Named(d) == pidFile = d /\ \A s \in Stoppers : stopper[s].does = "wait" => stopper[s].whom = d
FileInv ==
    freezes = 0 => \A d \in Daemons : Serves(d) /\ d \notin exposed => Named(d)

\* Starting goes up the subsystems, stopping goes down.
StartsInOrder(d) ==
    starting[d] \in Subsystems =>
        /\ \A i \in up[d] : i <= starting[d]
        /\ stage[d] = "up" /\ halting[d] >= 1 => Ingestion \in up[d]
StopsInOrder(d) == \A i \in up[d] : i > halting[d] => i \in late[d] \cup failed[d]
QueueOutlivesWatcher(d) ==
    Watcher \in up[d] \ (late[d] \cup failed[d]) => Ingestion \in up[d]

OrderInv ==
    \A d \in Daemons : StartsInOrder(d) /\ StopsInOrder(d) /\ QueueOutlivesWatcher(d)
-----------------------------------------------------------------------------
\* A process that is gone has left nothing but its files, and others are not
\* concerned.
LEMMA GoneStep ==
  ASSUME TypeOK, Shaped, NEW d \in Daemons, Gone(d)
  PROVE  /\ stage'[d] = "none" /\ starting'[d] = N + 1 /\ halting'[d] = N + 1
         /\ up'[d] = {} /\ late'[d] = {} /\ failed'[d] = {}
         /\ \A e \in Daemons \ {d} :
               /\ stage'[e] = stage[e] /\ starting'[e] = starting[e]
               /\ halting'[e] = halting[e] /\ up'[e] = up[e] /\ late'[e] = late[e]
               /\ failed'[e] = failed[e]
               /\ e \in exposed' <=> e \in exposed
         /\ frozen' = frozen \ {d}
         /\ UNCHANGED <<lock, lockStale, launches, freezes>>
<1>1. /\ stage'[d] = "none" /\ starting'[d] = N + 1 /\ halting'[d] = N + 1
      /\ up'[d] = {} /\ late'[d] = {} /\ failed'[d] = {}
  BY DEF Gone, TypeOK
<1>2. ASSUME NEW e \in Daemons \ {d}
      PROVE  /\ stage'[e] = stage[e] /\ starting'[e] = starting[e]
             /\ halting'[e] = halting[e] /\ up'[e] = up[e] /\ late'[e] = late[e]
             /\ failed'[e] = failed[e]
             /\ e \in exposed' <=> e \in exposed
  BY DEF Gone, TypeOK
<1>3. frozen' = frozen \ {d} /\ UNCHANGED <<lock, lockStale, launches, freezes>>
  BY DEF Gone, counts
<1>4. QED
  BY <1>1, <1>2, <1>3

\* What the PID file and the commands become when a process goes.
GoneAnyhow(d) ==
    \/ ConstructionFails(d) \/ Refused(d) \/ TermUnhandled(d) \/ Exit(d) \/ Kill(d)

LEMMA GoneAnyhowStep ==
  ASSUME NEW d \in Daemons, GoneAnyhow(d)
  PROVE  Gone(d) /\ UNCHANGED <<pidFile, stopper>>
BY DEF GoneAnyhow, ConstructionFails, Refused, TermUnhandled, Exit, Kill, Leaves

\* A `wotw stop --force` kills the process it waits for.
LEMMA ForcedStep ==
  ASSUME TypeOK, NEW s \in Stoppers, StopForces(s)
  PROVE  /\ stopper[s].whom \in Daemons
         /\ Gone(stopper[s].whom)
         /\ pidFile' = NoDaemon
         /\ stopper' = [stopper EXCEPT ![s] = [does |-> "done", whom |-> NoDaemon]]
BY DEF StopForces, StopperLeaves, Alive

\* The variables keep their types, and a process that is not past the lock has
\* no subsystem under way.
THEOREM LifecycleTyped == Spec => [](TypeOK /\ Shaped)
<1>1. Init => TypeOK /\ Shaped
  <2> SUFFICES ASSUME Init PROVE TypeOK /\ Shaped
    OBVIOUS
  <2>1. lockStale \in BOOLEAN
    BY DEF Init
  <2>2. /\ stage \in [Daemons -> Stages]
        /\ starting \in [Daemons -> 1 .. N + 1]
        /\ halting \in [Daemons -> -1 .. N + 1]
    BY LifecycleAssumption DEF Init, Stages
  <2>3. TypeOK
    BY <2>1, <2>2, LifecycleAssumption DEF Init, TypeOK
  <2>4. QED
    BY <2>3 DEF Init, Shaped
<1>2. TypeOK /\ Shaped /\ [Next]_vars => TypeOK' /\ Shaped'
  <2> SUFFICES ASSUME TypeOK, Shaped, [Next]_vars PROVE TypeOK' /\ Shaped'
    OBVIOUS
  <2> USE LifecycleAssumption
  <2>1. ASSUME NEW d \in Daemons, Gone(d), pidFile' \in {pidFile, NoDaemon},
               stopper' \in [Stoppers -> [does : {"idle", "wait", "done"},
                                          whom : Daemons \cup {NoDaemon}]]
        PROVE  TypeOK' /\ Shaped'
    <3>1. TypeOK'
      <4>1. /\ stage' \in [Daemons -> Stages]
            /\ starting' \in [Daemons -> 1 .. N + 1]
            /\ halting' \in [Daemons -> -1 .. N + 1]
        BY <2>1 DEF Gone, TypeOK, Stages
      <4>2. /\ up' \in [Daemons -> SUBSET Subsystems]
            /\ late' \in [Daemons -> SUBSET Subsystems]
            /\ failed' \in [Daemons -> SUBSET Subsystems]
        BY <2>1 DEF Gone, TypeOK
      <4>3. QED
        BY <2>1, <4>1, <4>2 DEF Gone, TypeOK, counts
    <3>2. Shaped'
      BY <2>1, GoneStep DEF Shaped
    <3>3. QED BY <3>1, <3>2
  <2>2. ASSUME NEW d \in Daemons, GoneAnyhow(d) PROVE TypeOK' /\ Shaped'
    BY <2>1, <2>2, GoneAnyhowStep DEF TypeOK
  <2>3. ASSUME NEW s \in Stoppers, StopForces(s) PROVE TypeOK' /\ Shaped'
    BY <2>1, <2>3, ForcedStep DEF TypeOK
  <2>4. ASSUME NEW d \in Daemons, Launch(d), waited' \in SUBSET Daemons
        PROVE  TypeOK' /\ Shaped'
    BY <2>4 DEF Launch, TypeOK, Shaped, Stages, process, files
  <2>5. ASSUME NEW d \in Daemons, Check(d) PROVE TypeOK' /\ Shaped'
    BY <2>5 DEF Check, TypeOK, Shaped, Stages, process, files, counts
  <2>6. ASSUME NEW d \in Daemons, Begin(d) PROVE TypeOK' /\ Shaped'
    <3>1. lockStale' \in BOOLEAN
      BY <2>6 DEF Begin
    <3>2. /\ stage' \in [Daemons -> Stages]
          /\ starting' \in [Daemons -> 1 .. N + 1]
          /\ up' \in [Daemons -> SUBSET Subsystems]
      BY <2>6 DEF Begin, TypeOK, Stages, Subsystems
    <3>3. TypeOK'
      BY <2>6, <3>1, <3>2 DEF Begin, TypeOK, counts
    <3>4. Shaped'
      BY <2>6 DEF Begin, TypeOK, Shaped
    <3>5. QED BY <3>3, <3>4
  <2>7. ASSUME NEW d \in Daemons, StartDone(d) PROVE TypeOK' /\ Shaped'
    <3>1. starting[d] + 1 \in 1 .. N + 1
      BY <2>7 DEF StartDone, Subsystems
    <3>2. TypeOK'
      BY <2>7, <3>1 DEF StartDone, TypeOK, Subsystems, files, counts
    <3>3. Shaped'
      BY <2>7 DEF StartDone, TypeOK, Shaped
    <3>4. QED BY <3>2, <3>3
  <2>8. ASSUME NEW d \in Daemons, StartFails(d) PROVE TypeOK' /\ Shaped'
    <3>1. starting' = [starting EXCEPT ![d] = N + 1] /\ Halted(d) /\ stage[d] = "up"
      BY <2>8 DEF StartFails
    <3>2. starting[d] \in Subsystems
      BY <2>8 DEF StartFails
    <3>3. /\ starting' \in [Daemons -> 1 .. N + 1]
          /\ halting' \in [Daemons -> -1 .. N + 1]
      BY <3>1 DEF Halted, TypeOK
    <3>4. /\ up' \in [Daemons -> SUBSET Subsystems]
          /\ failed' \in [Daemons -> SUBSET Subsystems]
      BY <2>8, <3>2 DEF StartFails, Fails, TypeOK
    <3>5. TypeOK'
      BY <2>8, <3>3, <3>4 DEF StartFails, TypeOK, files
    <3>6. Shaped'
      BY <2>8, <3>1 DEF StartFails, Halted, TypeOK, Shaped
    <3>7. QED BY <3>5, <3>6
  <2>9. ASSUME NEW d \in Daemons, Term(d) PROVE TypeOK' /\ Shaped'
    BY <2>9 DEF Term, Halted, TypeOK, Shaped, files, counts
  <2>10. ASSUME NEW d \in Daemons, Notice(d) PROVE TypeOK' /\ Shaped'
    BY <2>10 DEF Notice, Halted, TypeOK, Shaped, counts
  <2>11. ASSUME NEW d \in Daemons, StopDone(d) \/ StopRejects(d) PROVE TypeOK' /\ Shaped'
    <3>1. halting[d] \in Subsystems /\ NextStop(d)
      BY <2>11 DEF StopDone, StopRejects
    <3>2. stage[d] = "up"
      BY <3>1 DEF Shaped, Subsystems
    <3>3. halting[d] - 1 \in -1 .. N + 1
      BY <3>1 DEF Subsystems
    <3>4. up' \in [Daemons -> SUBSET Subsystems] /\ failed' \in [Daemons -> SUBSET Subsystems]
      BY <2>11, <3>1 DEF StopDone, StopRejects, Fails, TypeOK
    <3>5. TypeOK'
      BY <3>1, <3>3, <3>4 DEF NextStop, TypeOK
    <3>6. Shaped'
      BY <3>1, <3>2 DEF NextStop, TypeOK, Shaped
    <3>7. QED BY <3>5, <3>6
  <2>12. ASSUME NEW d \in Daemons, ReleaseLock(d) PROVE TypeOK' /\ Shaped'
    <3>1. lockStale' \in BOOLEAN
      BY <2>12 DEF ReleaseLock, TypeOK
    <3>2. TypeOK'
      BY <2>12, <3>1 DEF ReleaseLock, TypeOK, counts
    <3>3. stage[d] = "up"
      BY <2>12 DEF ReleaseLock, Shaped
    <3>4. Shaped'
      BY <2>12, <3>3 DEF ReleaseLock, TypeOK, Shaped
    <3>5. QED BY <3>2, <3>4
  <2>13. ASSUME NEW d \in Daemons, LaunchTold(d) \/ LaunchTimeout(d) PROVE TypeOK' /\ Shaped'
    BY <2>13 DEF LaunchTold, LaunchTimeout, Waited, TypeOK, Shaped, process, files, counts
  <2>14. ASSUME NEW d \in Daemons, Freeze(d) \/ Thaw(d) PROVE TypeOK' /\ Shaped'
    BY <2>14 DEF Freeze, Thaw, TypeOK, Shaped, process, files, counts
  <2>15. ASSUME NEW d \in Daemons, Renew(d) PROVE TypeOK' /\ Shaped'
    BY <2>15 DEF Renew, TypeOK, Shaped, process, counts
  <2>16. CASE GoStale
    BY <2>16 DEF GoStale, TypeOK, Shaped, process, counts
  <2>17. ASSUME NEW s \in Stoppers, StopReads(s) PROVE TypeOK' /\ Shaped'
    BY <2>17 DEF StopReads, Alive, TypeOK, Shaped, process, files, counts
  <2>18. ASSUME NEW s \in Stoppers, StopRemoves(s) \/ StopGivesUp(s) PROVE TypeOK' /\ Shaped'
    BY <2>18 DEF StopRemoves, StopGivesUp, StopperLeaves, TypeOK, Shaped, process, files, counts
  <2>19. CASE UNCHANGED vars
    BY <2>19 DEF vars, TypeOK, Shaped
  <2>20. ASSUME NEW d \in Daemons, LaunchDetached(d) \/ LaunchForeground(d)
         PROVE  TypeOK' /\ Shaped'
    BY <2>4, <2>20 DEF LaunchDetached, LaunchForeground, TypeOK
  <2>21. QED
    BY <2>2, <2>3, <2>5, <2>6, <2>7, <2>8, <2>9, <2>10, <2>11, <2>12, <2>13, <2>14, <2>15,
       <2>16, <2>17, <2>18, <2>19, <2>20
      DEF Next, Startup, Shutdown, StopCommand, Launcher, GoneAnyhow
<1>3. QED
  BY <1>1, <1>2, PTL DEF Spec
-----------------------------------------------------------------------------
\* The steps that touch neither the lock nor a daemon that may serve.
LEMMA LockKept ==
  ASSUME TypeOK, LockInv, freezes' = 0 => freezes = 0, frozen' \subseteq frozen,
         lockStale' => lockStale, lock' = lock,
         \A d \in Daemons : /\ stage'[d] = "up" /\ halting'[d] >= 0 =>
                                stage[d] = "up" /\ halting[d] >= 0
                            /\ stage'[d] # "none" => stage[d] # "none" \/ d # lock
  PROVE  LockInv'
BY DEF LockInv, Alive

\* As long as no process was suspended, a daemon that serves or shuts down holds
\* the lock.
LEMMA LockIsHeld == Spec => []LockInv
<1>1. Init => LockInv
  BY DEF Init, LockInv
<1>2. TypeOK /\ Shaped /\ LockInv /\ [Next]_vars => LockInv'
  <2> SUFFICES ASSUME TypeOK, Shaped, LockInv, [Next]_vars PROVE LockInv'
    OBVIOUS
  <2> USE LifecycleAssumption
  <2>1. ASSUME NEW d \in Daemons, Gone(d) PROVE LockInv'
    BY <2>1, GoneStep, LockKept
  <2>2. ASSUME NEW d \in Daemons, GoneAnyhow(d) PROVE LockInv'
    BY <2>1, <2>2, GoneAnyhowStep
  <2>3. ASSUME NEW s \in Stoppers, StopForces(s) PROVE LockInv'
    BY <2>1, <2>3, ForcedStep
  <2>4. ASSUME NEW d \in Daemons, LaunchDetached(d) \/ LaunchForeground(d) PROVE LockInv'
    <3>1. Launch(d)
      BY <2>4 DEF LaunchDetached, LaunchForeground
    <3>2. QED
      BY <3>1, LockKept DEF Launch, process, files, TypeOK
  <2>5. ASSUME NEW d \in Daemons, Check(d) PROVE LockInv'
    BY <2>5, LockKept DEF Check, process, files, counts, TypeOK
  <2>6. ASSUME NEW d \in Daemons, Begin(d) PROVE LockInv'
    <3>1. SUFFICES ASSUME freezes = 0
                   PROVE  /\ frozen' = {}
                          /\ ~lockStale'
                          /\ \A e \in Daemons :
                                stage'[e] = "up" /\ halting'[e] >= 0 => lock' = e
      BY <2>6 DEF LockInv, Begin, counts
    <3>2. ASSUME NEW e \in Daemons \ {d} PROVE ~(stage[e] = "up" /\ halting[e] >= 0)
      BY <2>6, <3>1 DEF Begin, LockFree, LockInv, Alive
    <3>3. QED
      BY <2>6, <3>1, <3>2 DEF Begin, LockInv, TypeOK
  <2>7. ASSUME NEW d \in Daemons, StartDone(d) PROVE LockInv'
    BY <2>7, LockKept DEF StartDone, files, counts
  <2>8. ASSUME NEW d \in Daemons, StartFails(d) \/ Term(d) \/ Notice(d) PROVE LockInv'
    <3>1. /\ stage[d] = "up" /\ Halted(d)
          /\ UNCHANGED <<stage, lock, lockStale, frozen, freezes>>
      BY <2>8 DEF StartFails, Term, Notice, files, counts
    <3>2. ASSUME NEW e \in Daemons, halting'[e] >= 0 PROVE halting[e] >= 0
      BY <3>1, <3>2 DEF Halted, TypeOK
    <3>3. QED
      BY <3>1, <3>2, LockKept
  <2>9. ASSUME NEW d \in Daemons, StopDone(d) \/ StopRejects(d) PROVE LockInv'
    <3>1. halting[d] \in Subsystems /\ NextStop(d)
      BY <2>9 DEF StopDone, StopRejects
    <3>2. ASSUME NEW e \in Daemons, halting'[e] >= 0 PROVE halting[e] >= 0
      BY <3>1, <3>2 DEF NextStop, TypeOK, Subsystems
    <3>3. QED
      BY <3>1, <3>2, LockKept DEF NextStop
  <2>10. ASSUME NEW d \in Daemons, ReleaseLock(d) PROVE LockInv'
    <3>1. stage[d] = "up" /\ halting[d] = 0
      BY <2>10 DEF ReleaseLock, Shaped
    <3>2. SUFFICES ASSUME freezes = 0
                   PROVE  /\ frozen' = {}
                          /\ lockStale' => ~Alive(lock)'
                          /\ \A e \in Daemons :
                                stage'[e] = "up" /\ halting'[e] >= 0 => lock' = e
      BY <2>10 DEF LockInv, ReleaseLock, counts
    <3>3. ASSUME NEW e \in Daemons, stage'[e] = "up", halting'[e] >= 0 PROVE FALSE
      BY <2>10, <3>1, <3>2, <3>3 DEF ReleaseLock, LockInv, TypeOK
    <3>4. frozen' = {} /\ stage' = stage
      BY <2>10, <3>2 DEF ReleaseLock, LockInv
    <3>5. lockStale' => ~Alive(lock)'
      BY <2>10, <3>2, <3>4 DEF ReleaseLock, LockInv, Alive
    <3>6. QED
      BY <3>3, <3>4, <3>5
  <2>11. ASSUME NEW d \in Daemons, LaunchTold(d) \/ LaunchTimeout(d) PROVE LockInv'
    BY <2>11, LockKept DEF LaunchTold, LaunchTimeout, process, files, counts
  <2>12. ASSUME NEW d \in Daemons, Freeze(d) PROVE LockInv'
    BY <2>12 DEF Freeze, LockInv, TypeOK
  <2>13. ASSUME NEW d \in Daemons, Thaw(d) PROVE LockInv'
    BY <2>13, LockKept DEF Thaw, process, files, counts
  <2>14. ASSUME NEW d \in Daemons, Renew(d) PROVE LockInv'
    BY <2>14, LockKept DEF Renew, process, counts
  <2>15. CASE GoStale
    BY <2>15 DEF GoStale, LockInv, Runs, Alive, process, counts
  <2>16. ASSUME NEW s \in Stoppers, StopReads(s) \/ StopRemoves(s) \/ StopGivesUp(s)
         PROVE  LockInv'
    BY <2>16, LockKept DEF StopReads, StopRemoves, StopGivesUp, process, files, counts
  <2>17. CASE UNCHANGED vars
    BY <2>17, LockKept DEF vars
  <2>18. QED
    BY <2>2, <2>3, <2>4, <2>5, <2>6, <2>7, <2>8, <2>9, <2>10, <2>11, <2>12, <2>13, <2>14,
       <2>15, <2>16, <2>17
      DEF Next, Startup, Shutdown, StopCommand, Launcher, GoneAnyhow
<1>3. QED
  BY <1>1, <1>2, LifecycleTyped, PTL DEF Spec

\* Never two daemons at once, however starts, stops, kills and files left behind
\* fall together, unless some process was suspended.
THEOREM NeverTwoDaemons == Spec => []OneDaemon
<1>1. TypeOK /\ LockInv => OneDaemon
  BY LifecycleAssumption DEF TypeOK, LockInv, OneDaemon, Serves
<1>2. QED
  BY <1>1, LockIsHeld, LifecycleTyped, PTL
-----------------------------------------------------------------------------
\* The steps that take the PID file from nobody and wait for nobody else.
LEMMA FileKept ==
  ASSUME FileInv, freezes' = 0 => freezes = 0,
         \A d \in Daemons : Serves(d)' /\ d \notin exposed' =>
             /\ Serves(d) /\ d \notin exposed /\ pidFile' = pidFile
             /\ \A s \in Stoppers : stopper'[s].does = "wait" =>
                    stopper'[s] = stopper[s] \/ stopper'[s].whom = pidFile
  PROVE  FileInv'
BY DEF FileInv, Named

\* A daemon that serves is named by the PID file and by whoever waits to remove
\* it.
LEMMA FileIsRight == Spec => []FileInv
<1>1. Init => FileInv
  BY DEF Init, FileInv, Serves
<1>2. TypeOK /\ Shaped /\ LockInv /\ FileInv /\ [Next]_vars => FileInv'
  <2> SUFFICES ASSUME TypeOK, Shaped, LockInv, FileInv, [Next]_vars PROVE FileInv'
    OBVIOUS
  <2> USE LifecycleAssumption
  <2>1. ASSUME NEW d \in Daemons, GoneAnyhow(d) PROVE FileInv'
    BY <2>1, GoneAnyhowStep, GoneStep, FileKept DEF Serves
  <2>2. ASSUME NEW s \in Stoppers, StopForces(s) PROVE FileInv'
    <3> DEFINE w == stopper[s].whom
    <3>1. SUFFICES ASSUME freezes = 0, NEW d \in Daemons, Serves(d)', d \notin exposed'
                   PROVE  FALSE
      BY <2>2, ForcedStep, GoneStep DEF FileInv
    <3>2. w \in Daemons /\ Gone(w)
      BY <2>2, ForcedStep
    <3>3. d # w /\ Serves(d) /\ d \notin exposed
      BY <3>1, <3>2, GoneStep DEF Serves
    <3>4. stopper[s].does = "wait"
      BY <2>2 DEF StopForces
    <3>5. QED
      BY <3>1, <3>3, <3>4 DEF FileInv, Named
  <2>3. ASSUME NEW d \in Daemons, LaunchDetached(d) \/ LaunchForeground(d) PROVE FileInv'
    <3>1. Launch(d)
      BY <2>3 DEF LaunchDetached, LaunchForeground
    <3>2. QED
      BY <3>1, FileKept DEF Launch, Serves, process, files, TypeOK
  <2>4. ASSUME NEW d \in Daemons, Check(d) PROVE FileInv'
    BY <2>4, FileKept DEF Check, Serves, process, files, counts, TypeOK
  <2>5. ASSUME NEW d \in Daemons, Begin(d) PROVE FileInv'
    <3>1. SUFFICES ASSUME freezes = 0, NEW e \in Daemons, Serves(e)', e \notin exposed'
                   PROVE  Named(e)'
      BY <2>5 DEF Begin, FileInv, counts
    <3>2. CASE e = d
      <4>1. ~Removing
        BY <2>5, <3>1, <3>2 DEF Begin
      <4>2. QED
        BY <2>5, <3>2, <4>1 DEF Begin, Removing, Named
    <3>3. CASE e # d
      <4>1. Serves(e)
        BY <2>5, <3>1, <3>3 DEF Begin, Serves, TypeOK
      <4>2. lock = e /\ ~lockStale
        BY <3>1, <4>1 DEF LockInv, Serves, Alive, TypeOK
      <4>3. QED
        BY <2>5, <4>2 DEF Begin, LockFree
    <3>4. QED BY <3>2, <3>3
  <2>6. ASSUME NEW d \in Daemons, StartDone(d) PROVE FileInv'
    BY <2>6, FileKept DEF StartDone, Serves, files, counts
  <2>7. ASSUME NEW d \in Daemons, StartFails(d) \/ Term(d) \/ Notice(d) PROVE FileInv'
    <3>1. /\ Halted(d)
          /\ UNCHANGED <<stage, pidFile, stopper, exposed, freezes>>
      BY <2>7 DEF StartFails, Term, Notice, files, counts
    <3>2. ASSUME NEW e \in Daemons, Serves(e)' PROVE Serves(e)
      BY <3>1, <3>2 DEF Halted, Serves, TypeOK
    <3>3. QED
      BY <3>1, <3>2, FileKept
  <2>8. ASSUME NEW d \in Daemons, StopDone(d) \/ StopRejects(d) PROVE FileInv'
    <3>1. halting[d] \in Subsystems /\ NextStop(d)
      BY <2>8 DEF StopDone, StopRejects
    <3>2. stage[d] = "up"
      BY <3>1 DEF Shaped, Subsystems
    <3>3. SUFFICES ASSUME freezes = 0, NEW e \in Daemons, Serves(e)', e \notin exposed'
                   PROVE  Named(e)'
      BY <3>1 DEF NextStop, FileInv
    <3>4. e # d
      BY <3>1, <3>3 DEF NextStop, Serves, Subsystems, TypeOK
    <3>5. stage[e] = "up" /\ halting[e] >= 0
      BY <3>1, <3>3, <3>4 DEF NextStop, Serves, TypeOK
    <3>6. QED
      BY <3>1, <3>2, <3>3, <3>4, <3>5 DEF LockInv, Subsystems
  <2>9. ASSUME NEW d \in Daemons, ReleaseLock(d) PROVE FileInv'
    BY <2>9, FileKept DEF ReleaseLock, Serves, TypeOK, counts
  <2>10. ASSUME NEW d \in Daemons,
                LaunchTold(d) \/ LaunchTimeout(d) \/ Freeze(d) \/ Thaw(d) \/ Renew(d)
         PROVE  FileInv'
    <3>1. UNCHANGED <<stage, halting, pidFile, stopper, exposed>> /\ (freezes' = 0 => freezes = 0)
      BY <2>10 DEF LaunchTold, LaunchTimeout, Freeze, Thaw, Renew, process, files, counts, TypeOK
    <3>2. QED
      BY <3>1, FileKept DEF Serves
  <2>11. CASE GoStale
    BY <2>11, FileKept DEF GoStale, Serves, process, counts
  <2>12. ASSUME NEW s \in Stoppers, StopReads(s) PROVE FileInv'
    BY <2>12, FileKept DEF StopReads, Serves, TypeOK, process, files, counts
  <2>13. ASSUME NEW s \in Stoppers, StopRemoves(s) PROVE FileInv'
    <3>1. SUFFICES ASSUME freezes = 0, NEW d \in Daemons, Serves(d)', d \notin exposed'
                   PROVE  FALSE
      BY <2>13 DEF StopRemoves, FileInv, counts
    <3>2. Serves(d) /\ d \notin exposed
      BY <2>13, <3>1 DEF StopRemoves, Serves, process
    <3>3. QED
      BY <2>13, <3>1, <3>2 DEF StopRemoves, FileInv, Named, Serves, Alive
  <2>14. ASSUME NEW s \in Stoppers, StopGivesUp(s) PROVE FileInv'
    BY <2>14, FileKept DEF StopGivesUp, StopperLeaves, Serves, TypeOK, process, files, counts
  <2>15. CASE UNCHANGED vars
    BY <2>15, FileKept DEF vars, Serves
  <2>16. QED
    BY <2>1, <2>2, <2>3, <2>4, <2>5, <2>6, <2>7, <2>8, <2>9, <2>10, <2>11, <2>12, <2>13, <2>14,
       <2>15
      DEF Next, Startup, Shutdown, StopCommand, Launcher, GoneAnyhow
<1>3. QED
  BY <1>1, <1>2, LifecycleTyped, LockIsHeld, PTL DEF Spec

\* `wotw status` and `wotw stop` find a daemon that serves, but for a suspension
\* or a `wotw stop` that was under way when it started.
THEOREM ServingIsFindable == Spec => []Findable
<1>1. FileInv => Findable
  BY DEF FileInv, Findable, Named
<1>2. QED
  BY <1>1, FileIsRight, PTL
-----------------------------------------------------------------------------
\* Subsystems start in order and stop in the reverse order, whatever rejects and
\* whenever a shutdown begins.
LEMMA OrderIsKept == Spec => []OrderInv
<1>1. Init => OrderInv
  BY DEF Init, OrderInv, StartsInOrder, StopsInOrder, QueueOutlivesWatcher
<1>2. TypeOK /\ Shaped /\ OrderInv /\ [Next]_vars => OrderInv'
  <2> SUFFICES ASSUME TypeOK, Shaped, OrderInv, [Next]_vars PROVE OrderInv'
    OBVIOUS
  <2> USE LifecycleAssumption DEF OrderInv
  <2> DEFINE Same(d) == /\ up'[d] = up[d] /\ late'[d] = late[d] /\ failed'[d] = failed[d]
                        /\ starting'[d] = starting[d] /\ halting'[d] = halting[d]
                        /\ stage'[d] = "up" <=> stage[d] = "up"
             Ordered(d) == StartsInOrder(d) /\ StopsInOrder(d) /\ QueueOutlivesWatcher(d)
  <2>1. ASSUME NEW d \in Daemons, Same(d) PROVE Ordered(d)'
    BY <2>1 DEF StartsInOrder, StopsInOrder, QueueOutlivesWatcher
  <2>2. ASSUME NEW d \in Daemons, up'[d] = {}, starting'[d] = N + 1 PROVE Ordered(d)'
    BY <2>2 DEF StartsInOrder, StopsInOrder, QueueOutlivesWatcher, Subsystems
  <2>3. ASSUME NEW d \in Daemons, Gone(d) PROVE OrderInv'
    <3>1. ASSUME NEW e \in Daemons \ {d} PROVE Same(e)
      BY <2>3, GoneStep
    <3>2. up'[d] = {} /\ starting'[d] = N + 1
      BY <2>3, GoneStep
    <3>3. QED
      BY <2>1, <2>2, <3>1, <3>2
  <2>4. ASSUME NEW d \in Daemons, GoneAnyhow(d) PROVE OrderInv'
    BY <2>3, <2>4, GoneAnyhowStep
  <2>5. ASSUME NEW s \in Stoppers, StopForces(s) PROVE OrderInv'
    BY <2>3, <2>5, ForcedStep
  <2>6. ASSUME NEW d \in Daemons,
               LaunchDetached(d) \/ LaunchForeground(d) \/ Check(d)
        PROVE  OrderInv'
    <3>1. ASSUME NEW e \in Daemons PROVE Same(e)
      BY <2>6 DEF LaunchDetached, LaunchForeground, Launch, Check, process, TypeOK
    <3>2. QED
      BY <2>1, <3>1
  <2>7. ASSUME NEW d \in Daemons, Begin(d) PROVE OrderInv'
    <3>1. ASSUME NEW e \in Daemons \ {d} PROVE Same(e)
      BY <2>7 DEF Begin, TypeOK
    <3>2. /\ up'[d] = {1} /\ starting'[d] = 1 /\ halting'[d] = N + 1
      BY <2>7 DEF Begin, TypeOK, Shaped
    <3>3. Ordered(d)'
      BY <3>2 DEF StartsInOrder, StopsInOrder, QueueOutlivesWatcher, Ingestion, Watcher
    <3>4. QED
      BY <2>1, <3>1, <3>3
  <2>8. ASSUME NEW d \in Daemons, StartDone(d) PROVE OrderInv'
    <3> DEFINE next == starting[d] + 1
    <3>1. ASSUME NEW e \in Daemons \ {d} PROVE Same(e)
      BY <2>8 DEF StartDone, TypeOK
    <3>2. /\ stage[d] = "up" /\ stage'[d] = "up"
          /\ starting[d] \in Subsystems
          /\ starting'[d] = next
          /\ halting'[d] = halting[d]
          /\ up'[d] = up[d] \cup ({next} \cap Subsystems)
          /\ late'[d] = late[d] \cup {i \in {next} \cap Subsystems : i >= halting[d]}
          /\ failed'[d] = failed[d]
      BY <2>8 DEF StartDone, TypeOK
    <3>3. Ordered(d)
      OBVIOUS
    <3>4. StartsInOrder(d)'
      BY <3>2, <3>3 DEF StartsInOrder, Subsystems, TypeOK
    <3>5. StopsInOrder(d)'
      BY <3>2, <3>3 DEF StopsInOrder, Subsystems, TypeOK
    <3>6. QueueOutlivesWatcher(d)'
      <4>1. CASE Watcher \in up[d]
        BY <3>2, <3>3, <4>1 DEF QueueOutlivesWatcher
      <4>2. CASE Watcher \notin up[d] /\ next = Watcher /\ halting[d] >= 1
        BY <3>2, <3>3, <4>2 DEF QueueOutlivesWatcher, StartsInOrder
      <4>3. CASE next = Watcher /\ ~(halting[d] >= 1)
        BY <3>2, <4>3 DEF QueueOutlivesWatcher, Watcher, Subsystems, TypeOK
      <4>4. CASE Watcher \notin up[d] /\ next # Watcher
        BY <3>2, <4>4 DEF QueueOutlivesWatcher
      <4>5. QED BY <4>1, <4>2, <4>3, <4>4
    <3>7. QED
      BY <2>1, <3>1, <3>4, <3>5, <3>6
  <2>9. ASSUME NEW d \in Daemons, StartFails(d) PROVE OrderInv'
    <3>1. ASSUME NEW e \in Daemons \ {d} PROVE Same(e)
      BY <2>9 DEF StartFails, Fails, Halted, TypeOK
    <3>2. /\ starting[d] \in Subsystems
          /\ starting'[d] = N + 1
          /\ halting'[d] = IF halting[d] = N + 1 THEN N ELSE halting[d]
          /\ up'[d] = up[d] \ {starting[d]}
          /\ late'[d] = late[d]
          /\ failed'[d] = failed[d] \cup {starting[d]}
      BY <2>9 DEF StartFails, Fails, Halted, TypeOK
    <3>3. Ordered(d)
      OBVIOUS
    <3>4. StartsInOrder(d)'
      BY <3>2 DEF StartsInOrder, Subsystems
    <3>5. StopsInOrder(d)'
      BY <3>2, <3>3 DEF StopsInOrder, Subsystems, TypeOK
    <3>6. QueueOutlivesWatcher(d)'
      BY <3>2, <3>3 DEF QueueOutlivesWatcher, StartsInOrder, Ingestion, Watcher
    <3>7. QED
      BY <2>1, <3>1, <3>4, <3>5, <3>6
  <2>10. ASSUME NEW d \in Daemons, Term(d) \/ Notice(d) PROVE OrderInv'
    <3>1. Halted(d) /\ UNCHANGED <<stage, starting, up, late, failed>>
      BY <2>10 DEF Term, Notice
    <3>2. ASSUME NEW e \in Daemons \ {d} PROVE Same(e)
      BY <3>1 DEF Halted, TypeOK
    <3>3. halting'[d] = IF halting[d] = N + 1 THEN N ELSE halting[d]
      BY <3>1 DEF Halted, TypeOK
    <3>4. Ordered(d)'
      BY <3>1, <3>3 DEF StartsInOrder, StopsInOrder, QueueOutlivesWatcher, Subsystems, TypeOK
    <3>5. QED
      BY <2>1, <3>2, <3>4
  <2>11. ASSUME NEW d \in Daemons, StopDone(d) \/ StopRejects(d) PROVE OrderInv'
    <3> DEFINE h == halting[d]
    <3>1. /\ h \in Subsystems
          /\ halting'[d] = h - 1
          /\ UNCHANGED <<stage, starting, late>>
      BY <2>11 DEF StopDone, StopRejects, NextStop, TypeOK
    <3>2. ASSUME NEW e \in Daemons \ {d} PROVE Same(e)
      BY <2>11 DEF StopDone, StopRejects, NextStop, Fails, TypeOK
    <3>3. Ordered(d)
      OBVIOUS
    <3>4. CASE StopDone(d)
      <4>1. up'[d] = up[d] \ ({h} \ late[d]) /\ failed' = failed
        BY <3>4 DEF StopDone, TypeOK
      <4>2. StartsInOrder(d)'
        BY <3>1, <3>3, <4>1 DEF StartsInOrder, Ingestion, Subsystems
      <4>3. StopsInOrder(d)'
        <5>1. SUFFICES ASSUME NEW i \in up'[d], i > halting'[d]
                       PROVE  i \in late'[d] \cup failed'[d]
          BY DEF StopsInOrder
        <5>2. i \in up[d] /\ i \in Subsystems
          BY <4>1 DEF TypeOK
        <5>3. CASE i = h
          BY <3>1, <4>1, <5>3
        <5>4. CASE i # h
          <6>1. i > h
            BY <3>1, <5>1, <5>2, <5>4 DEF Subsystems
          <6>2. QED
            BY <3>1, <3>3, <4>1, <5>2, <6>1 DEF StopsInOrder
        <5>5. QED BY <5>3, <5>4
      <4>4. QueueOutlivesWatcher(d)'
        <5>1. CASE h = Ingestion
          <6>1. Watcher \in up[d] => Watcher \in late[d] \cup failed[d]
            BY <3>3, <5>1 DEF StopsInOrder, Ingestion, Watcher
          <6>2. QED
            BY <3>1, <4>1, <6>1 DEF QueueOutlivesWatcher
        <5>2. CASE h # Ingestion
          BY <3>1, <3>3, <4>1, <5>2 DEF QueueOutlivesWatcher
        <5>3. QED BY <5>1, <5>2
      <4>5. QED
        BY <2>1, <3>2, <4>2, <4>3, <4>4
    <3>5. CASE StopRejects(d)
      <4>1. up' = up /\ failed'[d] = failed[d] \cup {h}
        BY <3>5 DEF StopRejects, Fails, TypeOK
      <4>2. StartsInOrder(d)'
        BY <3>1, <3>3, <4>1 DEF StartsInOrder, Subsystems
      <4>3. StopsInOrder(d)'
        BY <3>1, <3>3, <4>1 DEF StopsInOrder, Subsystems, TypeOK
      <4>4. QueueOutlivesWatcher(d)'
        BY <3>1, <3>3, <4>1 DEF QueueOutlivesWatcher
      <4>5. QED
        BY <2>1, <3>2, <4>2, <4>3, <4>4
    <3>6. QED
      BY <2>11, <3>4, <3>5
  <2>12. ASSUME NEW d \in Daemons, ReleaseLock(d) PROVE OrderInv'
    <3>1. ASSUME NEW e \in Daemons \ {d} PROVE Same(e)
      BY <2>12 DEF ReleaseLock, TypeOK
    <3>2. /\ halting[d] = 0 /\ halting'[d] = -1
          /\ UNCHANGED <<stage, starting, up, late, failed>>
      BY <2>12 DEF ReleaseLock, TypeOK
    <3>3. Ordered(d)'
      BY <3>2 DEF StartsInOrder, StopsInOrder, QueueOutlivesWatcher, Subsystems, TypeOK
    <3>4. QED
      BY <2>1, <3>1, <3>3
  <2>13. CASE UNCHANGED <<stage, process>>
    BY <2>1, <2>13 DEF process
  <2>14. ASSUME NEW d \in Daemons,
                LaunchTold(d) \/ LaunchTimeout(d) \/ Freeze(d) \/ Thaw(d) \/ Renew(d)
         PROVE  OrderInv'
    BY <2>13, <2>14 DEF LaunchTold, LaunchTimeout, Freeze, Thaw, Renew
  <2>15. ASSUME NEW s \in Stoppers, StopReads(s) \/ StopRemoves(s) \/ StopGivesUp(s)
         PROVE  OrderInv'
    BY <2>13, <2>15 DEF StopReads, StopRemoves, StopGivesUp
  <2>16. CASE GoStale \/ UNCHANGED vars
    BY <2>13, <2>16 DEF GoStale, vars, process
  <2>17. QED
    BY <2>4, <2>5, <2>6, <2>7, <2>8, <2>9, <2>10, <2>11, <2>12, <2>14, <2>15, <2>16
      DEF Next, Startup, Shutdown, StopCommand, Launcher, GoneAnyhow
<1>3. QED
  BY <1>1, <1>2, LifecycleTyped, PTL DEF Spec

\* When a daemon lets go of its files, what still runs started behind the back of
\* the shutdown or refused to stop; and the watcher never runs without the queue,
\* except so.
THEOREM ShutdownLeavesNothing == Spec => []ShutdownIsComplete
<1>1. TypeOK /\ OrderInv => ShutdownIsComplete
  <2> SUFFICES ASSUME TypeOK, OrderInv, NEW d \in Daemons
               PROVE  /\ halting[d] <= 0 => up[d] \subseteq late[d] \cup failed[d]
                      /\ Watcher \in up[d] \ (late[d] \cup failed[d]) => Ingestion \in up[d]
    BY DEF ShutdownIsComplete
  <2>1. ASSUME halting[d] <= 0, NEW i \in up[d] PROVE i > halting[d]
    BY <2>1, LifecycleAssumption DEF TypeOK, Subsystems
  <2>2. QED
    BY <2>1 DEF OrderInv, StopsInOrder, QueueOutlivesWatcher
<1>2. QED
  BY <1>1, LifecycleTyped, OrderIsKept, PTL
=============================================================================
