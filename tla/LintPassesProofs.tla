---------------------------- MODULE LintPassesProofs ----------------------------
(***************************************************************************)
(* A theorem about LintPasses for any wiki, thresholds, quota and number   *)
(* of passes of the interval.                                              *)
(*                                                                         *)
(* What spaces the failures of a finding is that it is not asked about     *)
(* while it is in backoff, and that hardly two passes of the daemon run at *)
(* a time.  The second is inFlight, which leaves out the pass of the       *)
(* start: with it, two may ask about a finding before one of them fails.   *)
(***************************************************************************)
EXTENDS LintPasses, TLAPS

\* The passes that share the map of failed attempts.
DaemonPasses == Ticks \cup {"startup"}

\* A record of the five fields of Idle.
Shaped(j) ==
    /\ j = [on |-> j.on, todo |-> j.todo, fixed |-> j.fixed, asked |-> j.asked, seen |-> j.seen]
    /\ j.on \in BOOLEAN /\ j.asked \in BOOLEAN
    /\ j.asked => j.on

Count(tries, f) == IF f \in DOMAIN tries THEN tries[f] ELSE 0
Failures(f) == Count(failed, f)
Subject(x) == Head(pass[x].todo)
Slack == IF overlapped THEN 1 ELSE 0

PassesInv ==
    /\ pass = [x \in Passes |-> pass[x]]
    /\ \A x \in Passes : Shaped(pass[x])
    /\ failed \in [DOMAIN failed -> Nat]
    /\ starting \in BOOLEAN /\ overlapped \in BOOLEAN

\* Two passes of the daemon overlap only where the model says so.
AloneInv ==
    /\ starting => \A x \in DaemonPasses : ~pass[x].on
    /\ \A t, u \in Ticks : pass[t].on /\ pass[u].on => t = u
    /\ \A t \in Ticks : pass[t].on /\ pass["startup"].on => overlapped

\* Who asks about a finding has found it out of backoff; at most one other has
\* failed since.
BackoffInv ==
    /\ FailuresAreSpaced
    /\ \A x \in DaemonPasses : pass[x].asked => Failures(Subject(x)) <= Slack
    /\ \A x, y \in DaemonPasses :
          x # y /\ pass[x].asked /\ pass[y].asked /\ Subject(x) = Subject(y)
             => Failures(Subject(x)) = 0

SpacedInv == PassesInv /\ AloneInv /\ BackoffInv
-----------------------------------------------------------------------------
LEMMA InitSpaced == Init => SpacedInv
<1> SUFFICES ASSUME Init PROVE SpacedInv
  OBVIOUS
<1>1. pass = [x \in Passes |-> Idle] /\ failed = <<>> /\ starting = TRUE /\ overlapped = FALSE
  BY DEF Init
<1>2. Shaped(Idle) /\ ~Idle.on /\ ~Idle.asked
  BY DEF Shaped, Idle
<1>3. DOMAIN failed = {} /\ failed = [x \in {} |-> 0]
  BY <1>1
<1>4. DaemonPasses \subseteq Passes /\ Ticks \subseteq Passes /\ "startup" \in Passes
  BY DEF DaemonPasses, Passes
<1>5. \A x \in Passes : pass[x] = Idle
  BY <1>1
<1>6. PassesInv
  BY <1>1, <1>2, <1>3, <1>5 DEF PassesInv
<1>7. AloneInv
  BY <1>2, <1>4, <1>5 DEF AloneInv
<1>8. BackoffInv
  BY <1>2, <1>3, <1>4, <1>5 DEF BackoffInv, FailuresAreSpaced, Failures, Count, Slack
<1> QED
  BY <1>6, <1>7, <1>8 DEF SpacedInv

\* A pass that is done with a finding asks nothing.
LEMMA PassedPasses ==
  ASSUME PassesInv, NEW x \in Passes, NEW fixed, pass' = Passed(x, fixed)
  PROVE  /\ pass' = [y \in Passes |-> pass'[y]]
         /\ \A y \in Passes : Shaped(pass'[y])
         /\ \A y \in Passes : pass'[y].on = pass[y].on
         /\ \A y \in Passes \ {x} : pass'[y] = pass[y]
         /\ ~pass'[x].asked
<1>1. \A y \in Passes : pass[y] = [on |-> pass[y].on, todo |-> pass[y].todo, fixed |-> pass[y].fixed,
                                   asked |-> pass[y].asked, seen |-> pass[y].seen]
  BY DEF PassesInv, Shaped
<1> DEFINE new == [pass[x] EXCEPT !.todo = Tail(@), !.fixed = Counted(pass[x], fixed),
                                  !.asked = FALSE, !.seen = <<>>]
<1>2. pass' = [pass EXCEPT ![x] = new]
  BY DEF Passed
<1>3. new = [on |-> pass[x].on, todo |-> Tail(pass[x].todo),
             fixed |-> Counted(pass[x], fixed), asked |-> FALSE, seen |-> <<>>]
  <2> DEFINE j == pass[x] t == Tail(j.todo) c == Counted(j, fixed)
  <2>1. j = [on |-> j.on, todo |-> j.todo, fixed |-> j.fixed, asked |-> j.asked, seen |-> j.seen]
    BY <1>1
  <2>2. new = [j EXCEPT !.todo = t, !.fixed = c, !.asked = FALSE, !.seen = <<>>]
    OBVIOUS
  <2> HIDE DEF j, t, c, new
  <2>3. new = [on |-> j.on, todo |-> t, fixed |-> c, asked |-> FALSE, seen |-> <<>>]
    BY <2>1, <2>2
  <2> QED
    BY <2>3 DEF j, t, c
<1> HIDE DEF new
<1>4. \A y \in Passes : pass'[y] = IF y = x THEN new ELSE pass[y]
  BY <1>2 DEF PassesInv
<1>5. pass' = [y \in Passes |-> pass'[y]]
  BY <1>2 DEF PassesInv
<1>6. new.on = pass[x].on /\ ~new.asked /\ (pass[x].on \in BOOLEAN => Shaped(new))
  BY <1>3 DEF Shaped
<1> QED
  BY <1>4, <1>5, <1>6 DEF PassesInv, Shaped

\* Only what is fixed lifts the backoff, and a failure counts once.
LEMMA AttemptedFailures ==
  ASSUME PassesInv, NEW x \in DaemonPasses, NEW fixed \in BOOLEAN,
         failed' = Attempted(x, fixed)
  PROVE  /\ failed' \in [DOMAIN failed' -> Nat]
         /\ \A f : f # Subject(x) => Count(failed', f) = Count(failed, f)
         /\ Count(failed', Subject(x)) = IF fixed THEN 0 ELSE Count(failed, Subject(x)) + 1
         /\ DOMAIN failed' \subseteq DOMAIN failed \cup {Subject(x)}
<1>1. x # "command"
  BY LintAssumption DEF DaemonPasses
<1> DEFINE f == Subject(x)
<1> DEFINE fewer == [g \in DOMAIN failed \ {f} |-> failed[g]]
           more == [g \in DOMAIN failed \cup {f} |->
                      (IF g \in DOMAIN failed THEN failed[g] ELSE 0) + (IF g = f THEN 1 ELSE 0)]
<1>2. failed' = IF fixed THEN fewer ELSE more
  BY <1>1 DEF Attempted, Subject
<1>3. \A g \in DOMAIN failed : failed[g] \in Nat
  BY DEF PassesInv
<1> HIDE DEF f
<1>4. /\ DOMAIN fewer = DOMAIN failed \ {f} /\ DOMAIN more = DOMAIN failed \cup {f}
      /\ \A g \in DOMAIN fewer : fewer[g] = failed[g]
      /\ \A g \in DOMAIN failed \ {f} : more[g] = failed[g]
      /\ more[f] = Count(failed, f) + 1
  BY <1>3 DEF Count
<1>5. fewer \in [DOMAIN fewer -> Nat] /\ more \in [DOMAIN more -> Nat]
  BY <1>3
<1> HIDE DEF fewer, more
<1>6. /\ \A g : g # f => Count(fewer, g) = Count(failed, g) /\ Count(more, g) = Count(failed, g)
      /\ Count(fewer, f) = 0 /\ Count(more, f) = Count(failed, f) + 1
  BY <1>4 DEF Count
<1> QED
  BY <1>2, <1>4, <1>5, <1>6 DEF f

\* A step that starts no pass and lifts no overlap leaves the passes as alone.
LEMMA AloneKept ==
  ASSUME AloneInv, starting' = starting, overlapped => overlapped',
         \A x \in DaemonPasses : pass'[x].on => pass[x].on
  PROVE  AloneInv'
  BY DEF AloneInv, DaemonPasses

\* A step after which nobody asks who did not, about the same, and nothing has
\* failed more often, spaces failures as before.
LEMMA BackoffKept ==
  ASSUME PassesInv, PassesInv', BackoffInv, overlapped => overlapped',
         \A f : Count(failed', f) <= Count(failed, f),
         \A x \in DaemonPasses : pass'[x].asked => pass'[x] = pass[x]
  PROVE  BackoffInv'
<1>1. Slack \in {0, 1} /\ Slack' \in {0, 1} /\ Slack <= Slack'
  BY DEF Slack, PassesInv
<1>2. \A f : Count(failed, f) \in Nat /\ Count(failed', f) \in Nat
  BY DEF PassesInv, Count
<1>3. FailuresAreSpaced'
  <2>1. \A f \in DOMAIN failed' : Count(failed', f) = failed'[f]
    BY DEF Count
  <2>2. \A f : Count(failed, f) <= 1 + Slack
    BY <1>1 DEF BackoffInv, FailuresAreSpaced, Count, Slack, PassesInv
  <2>3. \A f \in DOMAIN failed' : failed'[f] <= 1 + Slack'
    BY <1>1, <1>2, <2>1, <2>2
  <2> QED
    BY <2>3 DEF FailuresAreSpaced, Slack
<1>4. ASSUME NEW x \in DaemonPasses, pass'[x].asked
      PROVE  Count(failed', Subject(x)') <= Slack'
  <2>1. Subject(x)' = Subject(x) /\ pass[x].asked
    BY <1>4 DEF Subject
  <2>2. Count(failed, Subject(x)) <= Slack
    BY <2>1 DEF BackoffInv, Failures
  <2> QED
    BY <1>1, <1>2, <2>1, <2>2
<1>5. ASSUME NEW x \in DaemonPasses, NEW y \in DaemonPasses, x # y, pass'[x].asked,
             pass'[y].asked, Subject(x)' = Subject(y)'
      PROVE  Count(failed', Subject(x)') = 0
  <2>1. Subject(x)' = Subject(x) /\ pass[x].asked /\ Subject(y)' = Subject(y) /\ pass[y].asked
    BY <1>5 DEF Subject
  <2>2. Count(failed, Subject(x)) = 0
    BY <1>5, <2>1 DEF BackoffInv, Failures
  <2> QED
    BY <1>2, <2>1, <2>2
<1> QED
  BY <1>3, <1>4, <1>5 DEF BackoffInv, Failures

\* Both together, for the steps that count no failure.
LEMMA Kept ==
  ASSUME PassesInv, PassesInv', AloneInv, BackoffInv,
         UNCHANGED <<failed, starting, overlapped>>,
         \A x \in DaemonPasses : pass'[x].on => pass[x].on,
         \A x \in DaemonPasses : pass'[x].asked => pass'[x] = pass[x]
  PROVE  SpacedInv'
<1>1. \A f : Count(failed', f) <= Count(failed, f)
  BY DEF PassesInv, Count
<1>2. AloneInv'
  BY AloneKept
<1>3. BackoffInv'
  BY <1>1, BackoffKept
<1> QED
  BY <1>2, <1>3 DEF SpacedInv

\* A pass that is done with an attempt: what it adds to the failures of its
\* finding was not there when it asked, unless another pass of the daemon asked
\* about the same, and then the two overlap.
LEMMA AttemptSpaced ==
  ASSUME SpacedInv, NEW x \in Passes, NEW fixed \in BOOLEAN,
         pass[x].asked \/ (pass[x].on /\ ~Throttled(x)),
         pass' = Passed(x, fixed), failed' = Attempted(x, fixed),
         starting' = starting, overlapped' = overlapped
  PROVE  SpacedInv'
<1> DEFINE f == Subject(x)
<1>1. PassesInv /\ AloneInv /\ BackoffInv /\ pass[x].on
  BY DEF SpacedInv, PassesInv, Shaped
<1>2. DaemonPasses \subseteq Passes /\ \A y \in Passes : y \in DaemonPasses \/ y = "command"
  BY DEF DaemonPasses, Passes
<1>3. x \notin DaemonPasses => failed' = failed
  BY <1>2 DEF Attempted
<1>4. x \in DaemonPasses =>
        /\ failed' \in [DOMAIN failed' -> Nat]
        /\ \A g : g # f => Count(failed', g) = Count(failed, g)
        /\ Count(failed', f) = IF fixed THEN 0 ELSE Count(failed, f) + 1
        /\ DOMAIN failed' \subseteq DOMAIN failed \cup {f}
  BY <1>1, AttemptedFailures
<1>5. /\ pass' = [y \in Passes |-> pass'[y]] /\ \A y \in Passes : Shaped(pass'[y])
      /\ \A y \in Passes : pass'[y].on = pass[y].on
      /\ \A y \in Passes \ {x} : pass'[y] = pass[y]
      /\ ~pass'[x].asked
  BY <1>1, PassedPasses
<1>6. PassesInv'
  BY <1>1, <1>3, <1>4, <1>5 DEF PassesInv
<1>7. AloneInv'
  BY <1>1, <1>2, <1>5, AloneKept
<1>8. \A g : Count(failed, g) \in Nat
  BY <1>1 DEF PassesInv, Count
<1>9. \A y \in DaemonPasses : pass'[y].asked => y # x /\ pass'[y] = pass[y]
  BY <1>2, <1>5
<1>10. CASE x \notin DaemonPasses \/ fixed
  <2>1. \A g : Count(failed', g) <= Count(failed, g)
    BY <1>3, <1>4, <1>8, <1>10
  <2> QED
    BY <1>1, <1>6, <1>7, <1>9, <2>1, BackoffKept DEF SpacedInv
<1>11. CASE x \in DaemonPasses /\ ~fixed
  <2>1. Slack \in {0, 1} /\ Slack' = Slack /\ (overlapped => Slack = 1)
    BY <1>1 DEF Slack, PassesInv
  <2>2. Count(failed, f) <= Slack /\ (~pass[x].asked => Count(failed, f) = 0)
    <3>1. CASE pass[x].asked
      BY <1>1, <1>11, <3>1 DEF BackoffInv, Failures
    <3>2. CASE ~pass[x].asked
      <4>1. Count(failed, f) = 0
        BY <1>2, <1>11, <3>2, LintAssumption DEF Throttled, Subject, Count, DaemonPasses
      <4> QED
        BY <2>1, <4>1
    <3> QED
      BY <3>1, <3>2
  <2>3. \A g : Count(failed, g) <= 1 + Slack
    BY <1>1, <2>1 DEF BackoffInv, FailuresAreSpaced, Count, Slack
  <2>4. FailuresAreSpaced'
    <3>1. \A g : Count(failed', g) <= 1 + Slack
      BY <1>4, <1>8, <1>11, <2>1, <2>2, <2>3
    <3> QED
      BY <2>1, <3>1 DEF FailuresAreSpaced, Count, Slack
  <2>5. ASSUME NEW y \in DaemonPasses, pass'[y].asked
        PROVE  overlapped /\ pass[y].asked /\ pass[y].on /\ y # x /\ Subject(y)' = Subject(y)
    <3>1. y # x /\ pass'[y] = pass[y] /\ pass[y].on /\ pass[y].asked
      BY <1>1, <1>2, <1>9, <2>5 DEF PassesInv, Shaped
    <3>2. overlapped
      BY <1>1, <1>11, <3>1 DEF AloneInv, DaemonPasses
    <3> QED
      BY <3>1, <3>2 DEF Subject
  <2>6. ASSUME NEW y \in DaemonPasses, pass'[y].asked
        PROVE  Count(failed', Subject(y)') <= Slack'
    <3>1. overlapped /\ pass[y].asked /\ y # x /\ Subject(y)' = Subject(y)
      BY <2>5, <2>6
    <3>2. CASE Subject(y) = f
      <4>1. Count(failed, f) = 0
        BY <1>1, <1>11, <2>2, <3>1, <3>2 DEF BackoffInv, Failures
      <4> QED
        BY <1>4, <1>11, <2>1, <3>1, <3>2, <4>1
    <3>3. CASE Subject(y) # f
      <4>1. Count(failed, Subject(y)) <= Slack
        BY <1>1, <3>1 DEF BackoffInv, Failures
      <4> QED
        BY <1>4, <1>11, <2>1, <3>1, <3>3, <4>1
    <3> QED
      BY <3>2, <3>3
  <2>7. ASSUME NEW y \in DaemonPasses, NEW z \in DaemonPasses, pass'[y].asked, pass'[z].asked
        PROVE  y = z
    <3>1. pass[y].on /\ pass[z].on /\ pass[x].on /\ y # x /\ z # x
      BY <1>1, <2>5, <2>7
    <3> QED
      BY <1>1, <1>11, <3>1 DEF AloneInv, DaemonPasses
  <2>8. BackoffInv'
    BY <2>4, <2>6, <2>7 DEF BackoffInv, Failures
  <2> QED
    BY <1>6, <1>7, <2>8 DEF SpacedInv
<1> QED
  BY <1>10, <1>11

\* No step from a state of the invariant breaks it.
LEMMA StepSpaced == SpacedInv /\ [Next]_vars => SpacedInv'
<1> SUFFICES ASSUME SpacedInv, [Next]_vars PROVE SpacedInv'
  OBVIOUS
<1>a. PassesInv /\ AloneInv /\ BackoffInv
  BY DEF SpacedInv
<1>b. Shaped(Idle) /\ ~Idle.on /\ ~Idle.asked
  BY DEF Shaped, Idle
<1>c. /\ DaemonPasses \subseteq Passes /\ Ticks \subseteq DaemonPasses /\ "startup" \in DaemonPasses
      /\ "startup" \in Passes /\ "command" \in Passes
      /\ "command" \notin DaemonPasses /\ "startup" \notin Ticks
  BY LintAssumption DEF DaemonPasses, Passes
<1>d. \A f : Count(failed, f) \in Nat
  BY <1>a DEF PassesInv, Count
<1>e. ASSUME NEW x \in Passes, pass' = Begun(x)
      PROVE  /\ pass' = [y \in Passes |-> pass'[y]] /\ \A y \in Passes : Shaped(pass'[y])
             /\ pass'[x].on /\ ~pass'[x].asked
             /\ \A y \in Passes \ {x} : pass'[y] = pass[y]
  <2> DEFINE new == [Idle EXCEPT !.on = TRUE, !.todo = Report]
  <2>1. pass' = [pass EXCEPT ![x] = new]
    BY <1>e DEF Begun
  <2>2. new = [on |-> TRUE, todo |-> Report, fixed |-> 0, asked |-> FALSE, seen |-> <<>>]
    <3> DEFINE r == Report none == <<>>
    <3>1. new = [[on |-> FALSE, todo |-> none, fixed |-> 0, asked |-> FALSE, seen |-> none]
                   EXCEPT !.on = TRUE, !.todo = r]
      BY DEF Idle
    <3> HIDE DEF r, none, new
    <3>2. new = [on |-> TRUE, todo |-> r, fixed |-> 0, asked |-> FALSE, seen |-> none]
      BY <3>1
    <3> QED
      BY <3>2 DEF r, none
  <2>3. Shaped(new) /\ new.on /\ ~new.asked
    BY <2>2 DEF Shaped
  <2> HIDE DEF new
  <2> QED
    BY <1>a, <2>1, <2>3 DEF PassesInv
<1>f. ASSUME NEW x \in Passes, pass' = [pass EXCEPT ![x] = Idle]
      PROVE  /\ pass' = [y \in Passes |-> pass'[y]] /\ \A y \in Passes : Shaped(pass'[y])
             /\ ~pass'[x].on /\ ~pass'[x].asked
             /\ \A y \in Passes \ {x} : pass'[y] = pass[y]
  BY <1>a, <1>b, <1>f DEF PassesInv
<1>1. CASE Startup
  <2>1. /\ starting /\ starting' = FALSE /\ pass' = Begun("startup")
        /\ failed' = failed /\ overlapped' = overlapped
    BY <1>1 DEF Startup
  <2>2. PassesInv'
    BY <1>a, <1>c, <1>e, <2>1 DEF PassesInv
  <2>3. AloneInv'
    BY <1>a, <1>c, <1>e, <2>1 DEF AloneInv
  <2>4. BackoffInv'
    BY <1>a, <1>c, <1>d, <1>e, <2>1, <2>2, BackoffKept
  <2> QED
    BY <2>2, <2>3, <2>4 DEF SpacedInv
<1>2. CASE Tick
  <2> DEFINE t == CHOOSE t \in Ticks : ~pass[t].on
  <2>1. /\ ~starting /\ \A u \in Ticks : ~pass[u].on
        /\ t \in Ticks /\ pass' = Begun(t)
        /\ overlapped' = (overlapped \/ pass["startup"].on)
        /\ failed' = failed /\ starting' = starting
    BY <1>2 DEF Tick, MayTick
  <2> HIDE DEF t
  <2>2. PassesInv'
    BY <1>a, <1>c, <1>e, <2>1 DEF PassesInv, Shaped
  <2>3. AloneInv'
    BY <1>a, <1>c, <1>e, <2>1 DEF AloneInv
  <2>4. \A y \in DaemonPasses : pass'[y].asked => pass'[y] = pass[y]
    BY <1>c, <1>e, <2>1
  <2>5. \A f : Count(failed', f) <= Count(failed, f)
    BY <1>d, <2>1
  <2>6. overlapped => overlapped'
    BY <2>1
  <2>7. BackoffInv'
    BY <1>a, <2>2, <2>4, <2>5, <2>6, BackoffKept
  <2> QED
    BY <2>2, <2>3, <2>7 DEF SpacedInv
<1>3. CASE Command
  <2>1. pass' = Begun("command") /\ UNCHANGED <<failed, starting, overlapped>>
    BY <1>3 DEF Command
  <2>2. PassesInv'
    BY <1>a, <1>c, <1>e, <2>1 DEF PassesInv
  <2>3. \A y \in DaemonPasses : pass'[y] = pass[y]
    BY <1>c, <1>e, <2>1
  <2> QED
    BY <1>a, <1>d, <2>1, <2>2, <2>3, AloneKept, BackoffKept DEF SpacedInv
<1>4. ASSUME NEW x \in Passes, Skip(x) PROVE SpacedInv'
  <2>1. pass' = Passed(x, FALSE) /\ UNCHANGED <<failed, starting, overlapped>>
    BY <1>4 DEF Skip
  <2>2. PassesInv'
    BY <1>a, <2>1, PassedPasses DEF PassesInv
  <2>3. \A y \in DaemonPasses : pass'[y].on => pass[y].on
    BY <1>a, <1>c, <2>1, PassedPasses
  <2>4. \A y \in DaemonPasses : pass'[y].asked => pass'[y] = pass[y]
    BY <1>a, <1>c, <2>1, PassedPasses
  <2> QED
    BY <1>a, <1>d, <2>1, <2>2, <2>3, <2>4, Kept DEF SpacedInv
<1>5. ASSUME NEW x \in Passes, Ask(x) PROVE SpacedInv'
  <2> DEFINE taken == [p \in Head(pass[x].todo).pages |-> wiki[p]]
  <2> DEFINE new == [pass[x] EXCEPT !.asked = TRUE, !.seen = taken]
  <2>1. /\ pass[x].on /\ ~pass[x].asked /\ ~Throttled(x) /\ pass' = [pass EXCEPT ![x] = new]
        /\ UNCHANGED <<failed, starting, overlapped>>
    BY <1>a, <1>5 DEF Ask, AtFinding, PassesInv
  <2>2. new = [on |-> pass[x].on, todo |-> pass[x].todo, fixed |-> pass[x].fixed,
               asked |-> TRUE, seen |-> taken]
    <3> DEFINE j == pass[x]
    <3>1. j = [on |-> j.on, todo |-> j.todo, fixed |-> j.fixed, asked |-> j.asked, seen |-> j.seen]
      BY <1>a DEF PassesInv, Shaped
    <3>2. new = [j EXCEPT !.asked = TRUE, !.seen = taken]
      OBVIOUS
    <3> HIDE DEF j, new, taken
    <3>3. new = [on |-> j.on, todo |-> j.todo, fixed |-> j.fixed, asked |-> TRUE, seen |-> taken]
      BY <3>1, <3>2
    <3> QED
      BY <3>3 DEF j
  <2>3. new.on /\ new.asked /\ new.todo = pass[x].todo /\ Shaped(new)
    BY <2>1, <2>2 DEF Shaped
  <2> HIDE DEF new
  <2>4. /\ pass' = [y \in Passes |-> pass'[y]] /\ pass'[x] = new
        /\ \A y \in Passes \ {x} : pass'[y] = pass[y]
    BY <1>a, <2>1 DEF PassesInv
  <2>5. PassesInv'
    BY <1>a, <2>1, <2>3, <2>4 DEF PassesInv
  <2>6. AloneInv'
    BY <1>a, <1>c, <2>1, <2>3, <2>4, AloneKept
  <2>7. BackoffInv'
    <3>1. \A y \in Passes : Subject(y)' = Subject(y)
      BY <2>3, <2>4 DEF Subject
    <3>2. x \in DaemonPasses => Count(failed, Subject(x)) = 0
      BY <1>c, <2>1 DEF Throttled, Subject, Count
    <3>3. Slack \in Nat
      BY DEF Slack
    <3> QED
      BY <1>a, <1>c, <2>1, <2>4, <3>1, <3>2, <3>3
      DEF BackoffInv, Failures, FailuresAreSpaced, Slack
  <2> QED
    BY <2>5, <2>6, <2>7 DEF SpacedInv
<1>6. ASSUME NEW x \in Passes, Answer(x) \/ HealLinks(x) PROVE SpacedInv'
  <2> DEFINE Done(fixed) ==
        /\ pass[x].asked \/ (pass[x].on /\ ~Throttled(x))
        /\ pass' = Passed(x, fixed) /\ failed' = Attempted(x, fixed)
        /\ starting' = starting /\ overlapped' = overlapped
  <2>1. Fail(x) => Done(FALSE)
    BY DEF Fail
  <2>2. Heal(x) => Done(TRUE)
    BY DEF Heal
  <2>3. HealPoorly(x) => Done(TRUE)
    BY DEF HealPoorly
  <2>4. HealLinks(x) => Done(wiki' # wiki)
    BY DEF HealLinks, AtFinding
  <2>5. \E fixed \in BOOLEAN : Done(fixed)
    BY <1>6, <2>1, <2>2, <2>3, <2>4 DEF Answer
  <2> QED
    BY <2>5, AttemptSpaced
<1>7. ASSUME NEW x \in Passes, Finish(x) \/ Throw(x) PROVE SpacedInv'
  <2>1. pass' = [pass EXCEPT ![x] = Idle] /\ UNCHANGED <<failed, starting, overlapped>>
    BY <1>7 DEF Finish, Throw
  <2>2. PassesInv'
    BY <1>a, <1>f, <2>1 DEF PassesInv
  <2>3. \A y \in DaemonPasses : pass'[y].on => pass[y].on
    BY <1>c, <1>f, <2>1
  <2>4. \A y \in DaemonPasses : pass'[y].asked => pass'[y] = pass[y]
    BY <1>c, <1>f, <2>1
  <2> QED
    BY <1>a, <1>d, <2>1, <2>2, <2>3, <2>4, Kept DEF SpacedInv
<1>8. CASE \E f \in Findings : Expire(f)
  <2>1. PICK f \in DOMAIN failed : failed' = [g \in DOMAIN failed \ {f} |-> failed[g]]
    BY <1>8 DEF Expire
  <2>2. pass' = pass /\ starting' = starting /\ overlapped' = overlapped
    BY <1>8 DEF Expire
  <2>3. DOMAIN failed' = DOMAIN failed \ {f} /\ failed' \in [DOMAIN failed' -> Nat]
    BY <1>a, <2>1 DEF PassesInv
  <2>4. PassesInv'
    BY <1>a, <2>2, <2>3 DEF PassesInv
  <2>5. \A g : Count(failed', g) <= Count(failed, g)
    BY <1>d, <2>1, <2>3 DEF Count
  <2> QED
    BY <1>a, <2>2, <2>4, <2>5, AloneKept, BackoffKept DEF SpacedInv
<1>9. CASE Write \/ Orphan \/ Age \/ UNCHANGED vars
  <2>1. UNCHANGED <<pass, failed, starting, overlapped>>
    BY <1>9 DEF Write, Orphan, Age, vars
  <2> QED
    BY <1>a, <2>1 DEF SpacedInv, PassesInv, AloneInv, BackoffInv, FailuresAreSpaced, Failures,
       Subject, Slack
<1>10. CASE Restart
  <2>1. /\ pass' = [x \in Passes |-> IF x = "command" THEN pass[x] ELSE Idle]
        /\ failed' = <<>> /\ starting' = TRUE /\ overlapped' = FALSE
    BY <1>10 DEF Restart
  <2>2. DOMAIN failed' = {} /\ failed' \in [DOMAIN failed' -> Nat]
    BY <2>1
  <2>3. PassesInv'
    BY <1>a, <1>b, <2>1, <2>2 DEF PassesInv
  <2>4. \A x \in DaemonPasses : ~pass'[x].on /\ ~pass'[x].asked
    BY <1>b, <1>c, <2>1
  <2>5. AloneInv' /\ BackoffInv'
    BY <1>c, <2>2, <2>4 DEF AloneInv, BackoffInv, FailuresAreSpaced
  <2> QED
    BY <2>3, <2>5 DEF SpacedInv
<1> QED
  BY <1>1, <1>2, <1>3, <1>4, <1>5, <1>6, <1>7, <1>8, <1>9, <1>10 DEF Next, Proceed
-----------------------------------------------------------------------------
\* A finding fails once before it is left alone, and twice only if the interval
\* came up in the pass of the start, whatever passes, answers, restarts and
\* writes come in between (heal-handlers.ts, lint-scheduler.ts).
THEOREM SpacedFailures == Spec => []FailuresAreSpaced
<1>1. SpacedInv => FailuresAreSpaced
  BY DEF SpacedInv, BackoffInv
<1> QED
  BY <1>1, InitSpaced, StepSpaced, PTL DEF Spec
=============================================================================
