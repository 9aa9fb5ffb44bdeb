---------------------------- MODULE DaemonLifecycle ----------------------------
(***************************************************************************)
(* The life of the daemon processes of one wiki: `wotw start` launches     *)
(* one (src/cli/commands/start.ts, src/daemon/process-manager.ts), which   *)
(* builds its subsystems (src/daemon/entry.ts), looks at the PID file,     *)
(* takes the start lock, writes the PID file and starts the subsystems one *)
(* by one (src/daemon/index.ts, src/daemon/lifecycle.ts); a signal, a      *)
(* failed start or a lost lock shuts it down in reverse; `wotw stop`       *)
(* signals whom the PID file names and then removes that file.             *)
(*                                                                         *)
(* Processes interleave freely and may be killed at any point.  A process  *)
(* is suspended (a closed laptop, a stalled VM, a blocked event loop) at   *)
(* most MaxFreezes times; its lock goes stale meanwhile.  A PID is reused  *)
(* only once no file and no command names it.  The lock is                 *)
(* proper-lockfile: a directory whose age its holder renews, which belongs *)
(* to nobody in particular.                                                *)
(***************************************************************************)
EXTENDS Integers, FiniteSets

CONSTANTS
    Daemons,        \* the PIDs of processes running entry.js
    NoDaemon,       \* no process: a missing file, a free lock
    Stoppers,       \* `wotw stop` commands
    N,              \* subsystems, in the order they are attached
    MaxLaunches,    \* bound: processes started
    MaxFreezes,     \* bound: suspensions
    MaxRejects      \* bound: subsystems that fail to start or stop at a time

ASSUME LifecycleAssumption ==
    /\ NoDaemon \notin Daemons
    /\ N \in Nat \ {0, 1}
    /\ MaxLaunches \in Nat
    /\ MaxFreezes \in Nat
    /\ MaxRejects \in Nat

VARIABLES
    stage,      \* how far the process of each daemon is
    starting,   \* the subsystem whose start() is awaited; N + 1: none is left
    halting,    \* the subsystem whose stop() is awaited; N + 1: not shutting
                \* down; 0: the lock is being released; -1: about to exit
    up,         \* the subsystems that are started and not stopped
    late,       \* those started after shutdown had called their stop()
    failed,     \* those whose start() or stop() rejected
    pidFile,    \* the process the PID file names
    lock,       \* who took the start lock
    lockStale,  \* ... and has not renewed it for ten seconds
    lostLock,   \* the daemons that know that their lock is gone
    signalled,  \* the daemons with a SIGTERM to handle
    frozen,     \* the daemons that are suspended
    waited,     \* the daemons whose `wotw start` waits for their PID file
    stopper,    \* each `wotw stop`, and the process it waits for
    exposed,    \* the daemons that wrote the PID file while a `wotw stop`
                \* was under way (history)
    launches,   \* processes started so far
    freezes     \* suspensions so far

vars == <<stage, starting, halting, up, late, failed, pidFile, lock, lockStale, lostLock,
          signalled, frozen, waited, stopper, exposed, launches, freezes>>
process == <<starting, halting, up, late, failed>>
files == <<pidFile, lock, lockStale, lostLock>>
counts == <<launches, freezes>>
-----------------------------------------------------------------------------
Subsystems == 1 .. N

\* The queue of the ingestion, and the watcher that hands it its batches.
Ingestion == 1
Watcher == 2

Stages == {"none", "init", "checked", "up"}

TypeOK ==
    /\ stage \in [Daemons -> Stages]
    /\ starting \in [Daemons -> 1 .. N + 1]
    /\ halting \in [Daemons -> -1 .. N + 1]
    /\ up \in [Daemons -> SUBSET Subsystems]
    /\ late \in [Daemons -> SUBSET Subsystems]
    /\ failed \in [Daemons -> SUBSET Subsystems]
    /\ pidFile \in Daemons \cup {NoDaemon}
    /\ lock \in Daemons \cup {NoDaemon}
    /\ lockStale \in BOOLEAN
    /\ lostLock \subseteq Daemons
    /\ signalled \subseteq Daemons
    /\ frozen \subseteq Daemons
    /\ waited \subseteq Daemons
    /\ stopper \in [Stoppers -> [does : {"idle", "wait", "done"},
                                 whom : Daemons \cup {NoDaemon}]]
    /\ exposed \subseteq Daemons
    /\ launches \in 0 .. MaxLaunches
    /\ freezes \in 0 .. MaxFreezes

\* Nothing runs; a process that was killed may have left its files.
Init ==
    /\ stage = [d \in Daemons |-> "none"]
    /\ starting = [d \in Daemons |-> N + 1]
    /\ halting = [d \in Daemons |-> N + 1]
    /\ up = [d \in Daemons |-> {}]
    /\ late = [d \in Daemons |-> {}]
    /\ failed = [d \in Daemons |-> {}]
    /\ pidFile \in Daemons \cup {NoDaemon}
    /\ lock \in {pidFile, NoDaemon}
    /\ lockStale = FALSE
    /\ lostLock = {}
    /\ signalled = {}
    /\ frozen = {}
    /\ waited = {}
    /\ stopper = [s \in Stoppers |-> [does |-> "idle", whom |-> NoDaemon]]
    /\ exposed = {}
    /\ launches = 0
    /\ freezes = 0

\* kill(pid, 0) succeeds, of a suspended process too.
Alive(d) == d \in Daemons /\ stage[d] # "none"

\* The process takes steps.
Runs(d) == Alive(d) /\ d \notin frozen

\* Past the lock, and not on its way out.
Serves(d) == stage[d] = "up" /\ halting[d] = N + 1
-----------------------------------------------------------------------------
(* Starting. *)

\* `wotw start`, unless the PID file names a live daemon.
Launch(d) ==
    /\ launches < MaxLaunches
    /\ launches' = launches + 1
    /\ stage[d] = "none"
    /\ d \notin {pidFile, lock} \cup {stopper[s].whom : s \in Stoppers}
    /\ ~Alive(pidFile)
    /\ stage' = [stage EXCEPT ![d] = "init"]
    /\ UNCHANGED <<process, files, signalled, frozen, stopper, exposed, freezes>>

\* Detached it waits for the child's PID file, in the foreground it only
\* forwards signals.
LaunchDetached(d) == Launch(d) /\ waited' = waited \cup {d}
LaunchForeground(d) == Launch(d) /\ UNCHANGED waited

\* The process is gone and nothing of it is left but its files; a `wotw start`
\* that waits for it reports the exit, or runs into its timeout to no effect.
Gone(d) ==
    /\ stage' = [stage EXCEPT ![d] = "none"]
    /\ starting' = [starting EXCEPT ![d] = N + 1]
    /\ halting' = [halting EXCEPT ![d] = N + 1]
    /\ up' = [up EXCEPT ![d] = {}]
    /\ late' = [late EXCEPT ![d] = {}]
    /\ failed' = [failed EXCEPT ![d] = {}]
    /\ lostLock' = lostLock \ {d}
    /\ signalled' = signalled \ {d}
    /\ frozen' = frozen \ {d}
    /\ waited' = waited \ {d}
    /\ exposed' = exposed \ {d}
    /\ UNCHANGED <<lock, lockStale, counts>>

Leaves(d) == Runs(d) /\ Gone(d) /\ UNCHANGED <<pidFile, stopper>>

\* An exit before run() has the lock: a bad configuration, another daemon alive.
ConstructionFails(d) == stage[d] = "init" /\ Leaves(d)

\* run(): checkDaemonAlive, then the lock is awaited.
Check(d) ==
    /\ stage[d] = "init"
    /\ Runs(d)
    /\ ~Alive(pidFile)
    /\ stage' = [stage EXCEPT ![d] = "checked"]
    /\ UNCHANGED <<process, files, signalled, frozen, waited, stopper, exposed, counts>>

\* Mutant of LockFree: the lock directory is created if missing, and no matter.
LockFree_Always == TRUE

LockFree == lock = NoDaemon \/ lockStale

Refused(d) == stage[d] = "checked" /\ ~LockFree /\ Leaves(d)

\* A stopper that will remove the PID file whatever it then holds.
Removing == \E s \in Stoppers : stopper[s].does = "wait"

\* The lock is ours: PID file, signal handlers and the first start() in one go.
Begin(d) ==
    /\ stage[d] = "checked"
    /\ Runs(d)
    /\ LockFree
    /\ stage' = [stage EXCEPT ![d] = "up"]
    /\ starting' = [starting EXCEPT ![d] = 1]
    /\ up' = [up EXCEPT ![d] = {1}]
    /\ pidFile' = d
    /\ lock' = d
    /\ lockStale' = FALSE
    /\ exposed' = IF Removing THEN exposed \cup {d} ELSE exposed
    /\ UNCHANGED <<halting, late, failed, lostLock, signalled, frozen, waited, stopper, counts>>

\* A start() is over and the loop calls the next, shutting down or not.
StartDone(d) ==
    /\ stage[d] = "up"
    /\ Runs(d)
    /\ starting[d] \in Subsystems
    /\ starting' = [starting EXCEPT ![d] = @ + 1]
    /\ LET next == starting[d] + 1
       IN  /\ up' = [up EXCEPT ![d] = @ \cup ({next} \cap Subsystems)]
           /\ late' = [late EXCEPT ![d] =
                          @ \cup {i \in {next} \cap Subsystems : i >= halting[d]}]
    /\ UNCHANGED <<stage, halting, failed, files, signalled, frozen, waited, stopper, exposed, counts>>

\* Its promise rejects.
Fails(d, i) ==
    /\ Cardinality(UNION {{e} \X failed[e] : e \in Daemons}) < MaxRejects
    /\ failed' = [failed EXCEPT ![d] = @ \cup {i}]

\* Mutant of Halted: a shutdown during startup is lost.
Halted_WhenStarted(d) ==
    halting' = [halting EXCEPT ![d] = IF @ = N + 1 /\ starting[d] = N + 1 THEN N ELSE @]

\* shutdown(): the flag, and the first stop().
Halted(d) == halting' = [halting EXCEPT ![d] = IF @ = N + 1 THEN N ELSE @]

\* A start() rejects: shutdown(1), and the loop is over.
StartFails(d) ==
    /\ stage[d] = "up"
    /\ Runs(d)
    /\ starting[d] \in Subsystems
    /\ Fails(d, starting[d])
    /\ starting' = [starting EXCEPT ![d] = N + 1]
    /\ up' = [up EXCEPT ![d] = @ \ {starting[d]}]
    /\ Halted(d)
    /\ UNCHANGED <<stage, late, files, signalled, frozen, waited, stopper, exposed, launches, freezes>>
-----------------------------------------------------------------------------
(* Stopping. *)

\* A SIGTERM arrives: it shuts the daemon down ...
Term(d) ==
    /\ d \in signalled
    /\ stage[d] = "up"
    /\ Runs(d)
    /\ signalled' = signalled \ {d}
    /\ Halted(d)
    /\ UNCHANGED <<stage, starting, up, late, failed, files, frozen, waited, stopper, exposed, counts>>

\* ... or, before run() has installed its handlers, just ends the process.
TermUnhandled(d) == d \in signalled /\ stage[d] # "up" /\ Leaves(d)

\* A stop() is over, whose effect is on what was up when it was called; then
\* comes the one before, or the PID file is removed, whosever it is.
NextStop(d) ==
    /\ halting' = [halting EXCEPT ![d] = @ - 1]
    /\ pidFile' = IF halting[d] = 1 THEN NoDaemon ELSE pidFile
    /\ UNCHANGED <<stage, starting, late, lock, lockStale, lostLock, signalled, frozen,
                   waited, stopper, exposed, launches, freezes>>

StopDone(d) ==
    /\ halting[d] \in Subsystems
    /\ Runs(d)
    /\ up' = [up EXCEPT ![d] = @ \ ({halting[d]} \ late[d])]
    /\ NextStop(d)
    /\ UNCHANGED failed

\* Mutant of StopRejects: the error ends the loop over the subsystems.
StopRejects_EndsLoop(d) ==
    /\ halting[d] \in Subsystems
    /\ Runs(d)
    /\ Fails(d, halting[d])
    /\ halting' = [halting EXCEPT ![d] = 0]
    /\ pidFile' = NoDaemon
    /\ UNCHANGED <<stage, starting, up, late, lock, lockStale, lostLock, signalled, frozen,
                   waited, stopper, exposed, launches, freezes>>

\* ... also when it rejects, which is logged.
StopRejects(d) ==
    /\ halting[d] \in Subsystems
    /\ Runs(d)
    /\ Fails(d, halting[d])
    /\ NextStop(d)
    /\ UNCHANGED up

\* releaseLock(): the directory is removed, whosever it is, unless its loss
\* was noticed.
ReleaseLock(d) ==
    /\ halting[d] = 0
    /\ Runs(d)
    /\ halting' = [halting EXCEPT ![d] = -1]
    /\ IF d \in lostLock THEN UNCHANGED <<lock, lockStale>>
       ELSE lock' = NoDaemon /\ lockStale' = FALSE
    /\ UNCHANGED <<stage, starting, up, late, failed, pidFile, lostLock, signalled, frozen, waited,
                   stopper, exposed, counts>>

\* Mutant of Exit: a hook on exit removes the PID file once more.
Exit_CleansUp(d) ==
    /\ halting[d] = -1 /\ Runs(d) /\ Gone(d)
    /\ pidFile' = NoDaemon /\ UNCHANGED stopper

\* process.exit(), after the log is flushed.
Exit(d) == halting[d] = -1 /\ Leaves(d)

\* `wotw stop` reads the PID file; a live process gets a SIGTERM.
StopReads(s) ==
    /\ stopper[s].does = "idle"
    /\ stopper' = [stopper EXCEPT ![s] =
                       [does |-> IF pidFile = NoDaemon THEN "done" ELSE "wait", whom |-> pidFile]]
    /\ signalled' = IF Alive(pidFile) THEN signalled \cup {pidFile} ELSE signalled
    /\ UNCHANGED <<stage, process, files, frozen, waited, exposed, counts>>

StopperLeaves(s) == stopper' = [stopper EXCEPT ![s] = [does |-> "done", whom |-> NoDaemon]]

\* ... and once that process is gone, or was never there, removes the file.
StopRemoves(s) ==
    /\ stopper[s].does = "wait"
    /\ ~Alive(stopper[s].whom)
    /\ pidFile' = NoDaemon
    /\ StopperLeaves(s)
    /\ UNCHANGED <<stage, process, lock, lockStale, lostLock, signalled, frozen, waited,
                   exposed, counts>>

\* The ten seconds are over: with --force a SIGKILL and the file is removed ...
StopForces(s) ==
    /\ stopper[s].does = "wait"
    /\ Alive(stopper[s].whom)
    /\ Gone(stopper[s].whom)
    /\ pidFile' = NoDaemon
    /\ StopperLeaves(s)

\* ... else an error.
StopGivesUp(s) ==
    /\ stopper[s].does = "wait"
    /\ Alive(stopper[s].whom)
    /\ StopperLeaves(s)
    /\ UNCHANGED <<stage, process, files, signalled, frozen, waited, exposed, counts>>
-----------------------------------------------------------------------------
(* `wotw start`, detached, polls every 100 ms for up to 15 s. *)

Waited(d) == d \in waited /\ waited' = waited \ {d}

LaunchTold(d) ==
    /\ pidFile = d
    /\ Waited(d)
    /\ UNCHANGED <<stage, process, files, signalled, frozen, stopper, exposed, counts>>

LaunchTimeout(d) ==
    /\ pidFile # d
    /\ Waited(d)
    /\ signalled' = signalled \cup {d}
    /\ UNCHANGED <<stage, process, files, frozen, stopper, exposed, counts>>
-----------------------------------------------------------------------------
(* The environment and the lock. *)

\* SIGKILL, an out-of-memory kill, a power cut.
Kill(d) == Alive(d) /\ Gone(d) /\ UNCHANGED <<pidFile, stopper>>

\* A suspension matters from the look at the PID file on.
Freeze(d) ==
    /\ stage[d] \in {"checked", "up"}
    /\ Runs(d)
    /\ freezes < MaxFreezes
    /\ freezes' = freezes + 1
    /\ frozen' = frozen \cup {d}
    /\ UNCHANGED <<stage, process, files, signalled, waited, stopper, exposed, launches>>

Thaw(d) ==
    /\ d \in frozen
    /\ frozen' = frozen \ {d}
    /\ UNCHANGED <<stage, process, files, signalled, waited, stopper, exposed, counts>>

\* Ten seconds without a renewal: longer than any running process needs from
\* its look at the PID file to the lock.
GoStale ==
    /\ lock # NoDaemon
    /\ ~Runs(lock)
    /\ ~lockStale
    /\ \A d \in Daemons : Runs(d) => stage[d] # "checked"
    /\ lockStale' = TRUE
    /\ UNCHANGED <<stage, process, pidFile, lock, lostLock, signalled, frozen, waited, stopper,
                   exposed, counts>>

\* The holder's timer: the lock is renewed if it is still its own ...
Renew(d) ==
    /\ Runs(d)
    /\ lock = d
    /\ d \notin lostLock
    /\ lockStale
    /\ lockStale' = FALSE
    /\ UNCHANGED <<stage, process, pidFile, lock, lostLock, signalled, frozen, waited, stopper,
                   exposed, counts>>

\* ... else the error, uncaught, shuts the daemon down.
Notice(d) ==
    /\ stage[d] = "up"
    /\ Runs(d)
    /\ lock # d
    /\ halting[d] >= 0
    /\ d \notin lostLock
    /\ lostLock' = lostLock \cup {d}
    /\ Halted(d)
    /\ UNCHANGED <<stage, starting, up, late, failed, pidFile, lock, lockStale, signalled, frozen,
                   waited, stopper, exposed, counts>>
-----------------------------------------------------------------------------
Startup(d) ==
    \/ LaunchDetached(d) \/ LaunchForeground(d)
    \/ ConstructionFails(d) \/ Check(d) \/ Refused(d) \/ Begin(d)
    \/ StartDone(d) \/ StartFails(d)

Shutdown(d) ==
    \/ Term(d) \/ TermUnhandled(d) \/ Notice(d)
    \/ StopDone(d) \/ StopRejects(d) \/ ReleaseLock(d) \/ Exit(d)

StopCommand(s) == StopReads(s) \/ StopRemoves(s) \/ StopForces(s) \/ StopGivesUp(s)

Launcher(d) == LaunchTold(d) \/ LaunchTimeout(d)

Next ==
    \/ \E d \in Daemons : \/ Startup(d) \/ Shutdown(d) \/ Launcher(d)
                           \/ Kill(d) \/ Freeze(d) \/ Thaw(d) \/ Renew(d)
    \/ \E s \in Stoppers : StopCommand(s)
    \/ GoStale

Spec == Init /\ [][Next]_vars

\* A signal is delivered, an awaited start() and stop() ends, timers fire and a
\* suspended process goes on: every stop() the daemon awaits is bounded by a
\* timeout of its own or by the requests in flight.
FairSpec ==
    /\ Spec
    /\ \A d \in Daemons : WF_vars(Shutdown(d) \/ Thaw(d) \/ Launcher(d))
-----------------------------------------------------------------------------
(* Properties. *)

\* Two daemons serve one wiki at a time only after some process was suspended
\* for longer than a lock lasts: neither the order in which starts, stops and
\* kills fall nor a file left by a killed process brings that about.
OneDaemon ==
    \A d, e \in Daemons : Serves(d) /\ Serves(e) /\ d # e => freezes > 0

\* `wotw status` and `wotw stop` find a daemon that serves, unless it started
\* while a `wotw stop` was under way or a process was suspended.
Findable ==
    \A d \in Daemons : Serves(d) /\ d \notin exposed /\ freezes = 0 => pidFile = d

\* When the daemon gives its PID file and lock away, what still runs was
\* started behind the back of the shutdown, or refused to stop; and the
\* watcher never runs without the queue it hands its batches to, except so.
ShutdownIsComplete ==
    \A d \in Daemons :
        /\ halting[d] <= 0 => up[d] \subseteq late[d] \cup failed[d]
        /\ Watcher \in up[d] \ (late[d] \cup failed[d]) => Ingestion \in up[d]

\* A daemon that was told to stop, by `wotw stop` or a `wotw start` that reports
\* a failure, or that failed to start a subsystem, does stop.
StopsWhenTold ==
    \A d \in Daemons : (d \in signalled \/ halting[d] # N + 1) ~> (stage[d] = "none")
=============================================================================
