--------------------------- MODULE WikiWritersProofs ---------------------------
(***************************************************************************)
(* Theorems about WikiWriters for any wiki, any number of writers, replies *)
(* and failures.                                                           *)
(*                                                                         *)
(* What is promised of a pass is promised if it had the wiki for itself.   *)
(* Then everything it knows of the wiki is still so: what it loaded, what  *)
(* it hashed, and that what differs from the wiki it began with is among   *)
(* the pages that it wrote or repaired.  AloneInv says how far it has come *)
(* at each of its stages.                                                  *)
(***************************************************************************)
EXTENDS WikiWriters, TLAPS

\* The pages written so far, by any text of the agent.
Known == [Pages -> [text : 0 .. replies, related : SUBSET Pages, orphaned : BOOLEAN]]

Fields == {"kind", "stage", "todo", "left", "mine", "relinked", "seen", "alone", "base",
           "skipped", "noted", "saved"}
IsJob(j) ==
    /\ j = [f \in Fields |-> j[f]]
    /\ j.left \subseteq Pages /\ j.mine \subseteq Pages /\ j.relinked \subseteq Pages
    /\ j.alone \in BOOLEAN

\* The stages that a pass of each kind goes through.
Route(kind) ==
    CASE kind = "ingest" -> {"agent", "edit", "reconcile", "load", "relink", "index", "hash",
                             "record", "commit", "end"}
      [] kind = "compound" -> {"agent", "edit", "load", "relink", "index", "record", "commit", "end"}
      [] kind = "heal" -> {"agent", "edit", "reconcile", "record", "commit", "end"}
      [] kind = "merge" -> {"agent", "edit", "reconcile", "load", "relink", "record", "commit", "end"}
      [] kind = "backlinks" -> {"load", "relink", "record", "commit", "end"}
      [] kind = "archive" -> {"mark", "index", "record", "commit", "end"}
      [] kind = "approve" -> {"place", "drop", "record", "index", "commit", "end"}
      [] kind = "reject" -> {"drop"}
      [] OTHER -> {}

\* The stages once the pages are written.
Late == {"index", "hash", "record", "commit", "end"}

ShapeInv ==
    /\ replies \in Nat /\ unreviewed \subseteq 1 .. replies /\ disturbances \in Nat
    /\ live \in Known /\ staged \in Known
    /\ job = [w \in Writers |-> job[w]]
    /\ \A w \in Writers : IsJob(job[w]) /\ job[w].todo \in Known

\* What a pass is to write is there.
Put(j) == \A p \in j.left : j.todo[p] # Absent

RouteInv ==
    \A w \in Writers : Running(w) =>
        /\ job[w].kind \in Kinds \ {"none"}
        /\ job[w].stage \in Route(job[w].kind)
        /\ job[w].stage = "edit" => job[w].left \subseteq job[w].mine
        /\ job[w].stage = "relink" => job[w].left \subseteq job[w].relinked
        /\ job[w].stage \in {"agent", "place"} => job[w].mine = {}
        /\ job[w].stage \in {"agent", "edit", "reconcile", "load"} => job[w].relinked = {}
        /\ job[w].kind = "backlinks" /\ job[w].stage = "load" => job[w].mine = {}
        /\ job[w].stage \in {"edit", "relink", "place"} => Put(job[w])

\* A pass that is alone is the only one.
Alone(w) == Running(w) /\ job[w].alone
ApartInv ==
    /\ \A w \in Writers : Alone(w) => Others(w) = {}
    /\ disturbances = 0 => \A w \in Writers : Running(w) => job[w].alone
-----------------------------------------------------------------------------
BothWays(w) == \A p \in Present(w) : \A q \in w[p].related \cap Present(w) : p \in w[q].related

\* The wiki as it will be when the links are written.
Goal(j) == [p \in Pages |-> IF p \in j.left THEN j.todo[p] ELSE live[p]]

\* A pass whose links, indexes, record are done.
Linked(j) == j.kind \in Relinking /\ j.stage \in {"index", "hash", "record", "commit", "end"}
Indexed(j) ==
    \/ j.kind \in {"ingest", "compound"} /\ j.stage \in {"hash", "record", "commit", "end"}
    \/ j.kind = "approve" /\ j.stage \in {"commit", "end"}
    \/ j.kind = "archive" /\ j.mine # {} /\ j.stage \in {"record", "commit", "end"}
Noted(j) == j.stage \in {"commit", "end"} \/ (j.kind = "approve" /\ j.stage = "index")

\* What differs from the wiki that the pass began with.
Covered(j) ==
    \A p \in Pages : live[p] # j.base[p] =>
        IF live[p] = Absent THEN j.kind = "ingest" /\ staging
        ELSE p \in j.mine \cup j.relinked \cup j.skipped

Sure(j) ==
    /\ Covered(j)
    /\ j.stage = "relink" => BothWays(Goal(j))
    /\ Linked(j) => BothWays(live)
    /\ j.kind \in Relinking /\ j.stage = "index" /\ j.relinked = {} => j.seen = live
    /\ Indexed(j) => listed = Pages /\ (j.kind # "approve" => found = Pages)
    /\ j.kind = "ingest" /\ j.stage = "record" => \A p \in Accountable(j) : j.seen[p] = live[p]
    /\ Noted(j) /\ j.noted => Accountable(j) \cap Present(live) \subseteq recorded
    /\ j.kind = "approve" /\ j.stage = "commit" => j.seen = live
    /\ j.stage = "end" /\ j.saved => (j.mine \cup j.relinked) \cap Present(live) \subseteq committed

AloneInv == \A w \in Writers : Alone(w) => Sure(job[w])

\* A text that is still to be reviewed, and that the reconciler did not fail to move.
Unseen(p, t) == t \in unreviewed /\ <<p, t>> \notin astray

\* Such a text is where the pass that wrote it will come
\* to it.
Hides(w, p) ==
    /\ job[w].kind = "ingest" /\ staging
    /\ \/ job[w].stage = "edit" /\ p \in job[w].mine
       \/ job[w].stage = "reconcile" /\ p \in job[w].left

ReviewInv ==
    disturbances = 0 =>
        /\ \A p \in Present(live) : Unseen(p, live[p].text) => \E w \in Writers : Hides(w, p)
        /\ \A w \in Writers : job[w].stage \in {"edit", "relink"} =>
              \A p \in job[w].left : Unseen(p, job[w].todo[p].text) =>
                  job[w].stage = "edit" /\ job[w].kind = "ingest" /\ staging

WritersInv == ShapeInv /\ RouteInv /\ ApartInv /\ AloneInv /\ ReviewInv
-----------------------------------------------------------------------------
\* A step of a pass changes that pass only.
LEMMA Turns ==
    ASSUME ShapeInv, NEW w \in Writers, NEW k, Becomes(w, k)
    PROVE  /\ job' = [v \in Writers |-> job'[v]]
           /\ job'[w] = k
           /\ \A v \in Writers \ {w} : job'[v] = job[v]
BY DEF ShapeInv, Becomes

LEMMA RestIsJob ==
    ASSUME ShapeInv
    PROVE  IsJob(Rest) /\ Nothing \in Known /\ Rest.todo = Nothing
<1>1. IsJob(Rest) /\ Rest.todo = Nothing
  BY DEF Rest, IsJob, Fields
<1>2. Nothing \in Known
  BY DEF ShapeInv, Nothing, Absent, Known
<1> QED  BY <1>1, <1>2

\* Links are only added to pages that are there.
LEMMA RepairedFacts ==
    ASSUME ShapeInv
    PROVE  /\ Repaired(live) \in Known
           /\ \A p \in Pages : Repaired(live)[p] = Absent <=> live[p] = Absent
           /\ \A p \in Pages : Repaired(live)[p].text = live[p].text
           /\ BothWays(Repaired(live))
<1> DEFINE r == Repaired(live)
<1>1. ASSUME NEW p \in Pages, live[p] = Absent
      PROVE  r[p] = Absent
  BY <1>1 DEF Repaired
<1>2. ASSUME NEW p \in Pages, live[p] # Absent
      PROVE  /\ r[p] \in [text : 0 .. replies, related : SUBSET Pages, orphaned : BOOLEAN]
             /\ r[p].text = live[p].text /\ r[p].orphaned = live[p].orphaned
             /\ r[p].related = live[p].related \cup {q \in Present(live) : p \in live[q].related}
  <2>1. live[p] \in [text : 0 .. replies, related : SUBSET Pages, orphaned : BOOLEAN]
    BY DEF ShapeInv, Known
  <2>2. r[p] = [live[p] EXCEPT !.related =
                  live[p].related \cup {q \in Present(live) : p \in live[q].related}]
    BY <1>2 DEF Repaired
  <2> HIDE DEF r
  <2> QED  BY <2>1, <2>2 DEF Present
<1>3. ASSUME NEW p \in Pages, live[p] # Absent
      PROVE  r[p] # Absent
  <2>1. SUFFICES ASSUME r[p] = Absent PROVE FALSE
    OBVIOUS
  <2>2. live[p] = [text |-> live[p].text, related |-> live[p].related, orphaned |-> live[p].orphaned]
    BY DEF ShapeInv, Known
  <2>3. live[p].text = 0 /\ live[p].orphaned = FALSE /\ live[p].related \subseteq {}
    BY <1>2, <1>3, <2>1 DEF Absent
  <2> QED  BY <1>3, <2>2, <2>3 DEF Absent
<1>4. r \in Known
  <2>1. \A p \in Pages : r[p] \in [text : 0 .. replies, related : SUBSET Pages, orphaned : BOOLEAN]
    BY <1>1, <1>2 DEF ShapeInv, Known
  <2>2. r = [p \in Pages |-> r[p]]
    BY DEF Repaired
  <2> HIDE DEF r
  <2> QED  BY <2>1, <2>2 DEF Known
<1>5. BothWays(r)
  <2> SUFFICES ASSUME NEW p \in Present(r), NEW q \in r[p].related \cap Present(r)
               PROVE  p \in r[q].related
    BY DEF BothWays
  <2>1. p \in Pages /\ q \in Pages /\ p \in Present(live) /\ q \in Present(live)
    BY <1>1 DEF Present
  <2> HIDE DEF r
  <2> QED  BY <2>1, <1>2 DEF Present
<1> HIDE DEF r
<1>6. \A p \in Pages : r[p].text = live[p].text
  BY <1>1, <1>2
<1>7. \A p \in Pages : r[p] = Absent <=> live[p] = Absent
  BY <1>1, <1>3
<1> QED  BY <1>4, <1>5, <1>6, <1>7 DEF r

\* The agent writes texts that are new.
LEMMA EditsAreNew ==
    ASSUME ShapeInv, NEW kind, NEW e \in Edits(kind)
    PROVE  /\ DOMAIN e \subseteq Pages
           /\ \A p \in DOMAIN e : /\ e[p] \in [text : 0 .. replies + 1, related : SUBSET Pages,
                                               orphaned : BOOLEAN]
                                  /\ e[p].text = replies + 1
<1> DEFINE new == [text : {replies + 1}, related : LinkLists, orphaned : {FALSE}]
<1>1. ASSUME NEW ps \in SUBSET Pages, e \in UNION {[qs -> new] : qs \in SUBSET ps \ {{}}}
      PROVE  DOMAIN e \subseteq Pages /\ \A p \in DOMAIN e : e[p] \in new
  <2> HIDE DEF new
  <2>1. PICK qs \in SUBSET ps : e \in [qs -> new]
    BY <1>1
  <2> QED  BY <2>1
<1>2. ASSUME e \in {[p \in {q} |-> [Absent EXCEPT !.text = replies + 1]] : q \in Syntheses}
      PROVE  /\ DOMAIN e \subseteq Pages
             /\ \A p \in DOMAIN e : e[p] = [text |-> replies + 1, related |-> {}, orphaned |-> FALSE]
  <2>1. PICK q \in Syntheses : e = [p \in {q} |-> [Absent EXCEPT !.text = replies + 1]]
    BY <1>2
  <2> QED  BY <2>1, WritersAssumption DEF Absent
<1>3. \A x \in new : /\ x \in [text : 0 .. replies + 1, related : SUBSET Pages, orphaned : BOOLEAN]
                     /\ x.text = replies + 1
  <2>1. replies + 1 \in 0 .. replies + 1
    BY DEF ShapeInv
  <2>2. SUFFICES ASSUME NEW x \in new
                 PROVE  /\ x = [text |-> x.text, related |-> x.related, orphaned |-> x.orphaned]
                        /\ x.text = replies + 1 /\ x.related \in LinkLists /\ x.orphaned \in BOOLEAN
    BY <2>1, WritersAssumption
  <2> QED  OBVIOUS
<1>4. CASE kind = "compound"
  <2>1. e \in {[p \in {q} |-> [Absent EXCEPT !.text = replies + 1]] : q \in Syntheses}
    BY <1>4 DEF Edits
  <2>2. replies + 1 \in 0 .. replies + 1
    BY DEF ShapeInv
  <2>3. \A p \in DOMAIN e : e[p] = [text |-> replies + 1, related |-> {}, orphaned |-> FALSE]
    BY <1>2, <2>1
  <2>4. DOMAIN e \subseteq Pages
    BY <1>2, <2>1
  <2>5. SUFFICES ASSUME NEW p \in DOMAIN e
                 PROVE  /\ e[p] \in [text : 0 .. replies + 1, related : SUBSET Pages,
                                     orphaned : BOOLEAN]
                        /\ e[p].text = replies + 1
    BY <2>4
  <2>6. e[p] = [text |-> replies + 1, related |-> {}, orphaned |-> FALSE]
    BY <2>3
  <2> QED  BY <2>2, <2>6
<1>5. CASE kind # "compound"
  <2>1. \E ps \in SUBSET Pages : e \in UNION {[qs -> new] : qs \in SUBSET ps \ {{}}}
    <3>1. CASE kind = "ingest"
      BY <3>1 DEF Edits
    <3>2. CASE kind # "ingest"
      BY <1>5, <3>2 DEF Edits, Present
    <3> QED  BY <3>1, <3>2
  <2> QED  BY <1>1, <1>3, <2>1
<1> QED  BY <1>4, <1>5

\* Beginning a pass tells the others that they are not alone.
LEMMA Begins ==
    ASSUME ShapeInv, NEW w \in Writers, NEW pass, IsJob(pass), Begin(w, pass)
    PROVE  /\ ~Running(w)
           /\ job' = [v \in Writers |-> job'[v]]
           /\ job'[w] = [pass EXCEPT !.alone = (Others(w) = {}),
                                     !.base = IF Others(w) = {} THEN live ELSE Nothing]
           /\ \A v \in Others(w) : job'[v] = [job[v] EXCEPT !.alone = FALSE, !.base = Nothing]
           /\ \A v \in Writers \ {w} : v \notin Others(w) => job'[v] = job[v]
           /\ disturbances' = disturbances + (IF Others(w) = {} THEN 0 ELSE 1)
<1>1. w \notin Others(w) /\ Others(w) \subseteq Writers
  BY DEF Others
<1>2. ~Running(w)
  BY DEF Begin, MayBegin
<1>3. disturbances' = disturbances + (IF Others(w) = {} THEN 0 ELSE 1)
  BY DEF Begin
<1>4. job' = [v \in Writers |->
                IF v \in Others(w)
                THEN [job[v] EXCEPT !.alone = FALSE, !.base = Nothing]
                ELSE IF v = w
                THEN [pass EXCEPT !.alone = (Others(w) = {}),
                                  !.base = IF Others(w) = {} THEN live ELSE Nothing]
                ELSE job[v]]
  BY DEF Begin
<1>5. job' = [v \in Writers |-> job'[v]]
  BY <1>4
<1> QED  BY <1>1, <1>2, <1>3, <1>4, <1>5

\* A pass that begins holds nothing yet.
LEMMA BeginKeeps ==
    ASSUME WritersInv, NEW w \in Writers, NEW pass, IsJob(pass), pass.todo \in Known,
           Begin(w, pass), pass.kind \in Kinds \ {"none"},
           pass.stage \in Route(pass.kind),
           pass.stage \in {"agent", "load", "mark", "place", "drop"},
           pass.mine = {}, pass.relinked = {},
           pass.stage = "place" => Put(pass),
           UNCHANGED <<wiki, derived, trail, review>>
    PROVE  WritersInv'
<1> USE DEF WritersInv
<1>1. /\ ~Running(w)
      /\ job' = [v \in Writers |-> job'[v]]
      /\ job'[w] = [pass EXCEPT !.alone = (Others(w) = {}),
                                !.base = IF Others(w) = {} THEN live ELSE Nothing]
      /\ \A v \in Others(w) : job'[v] = [job[v] EXCEPT !.alone = FALSE, !.base = Nothing]
      /\ \A v \in Writers \ {w} : v \notin Others(w) => job'[v] = job[v]
      /\ disturbances' = disturbances + (IF Others(w) = {} THEN 0 ELSE 1)
  BY Begins
<1>2. UNCHANGED <<live, staged, listed, found, recorded, committed, staging, replies, unreviewed,
                 astray>>
  BY DEF wiki, derived, trail, review
<1>3. /\ IsJob(job'[w]) /\ job'[w].kind = pass.kind /\ job'[w].stage = pass.stage
      /\ job'[w].todo = pass.todo /\ job'[w].left = pass.left
      /\ job'[w].mine = {} /\ job'[w].relinked = {}
      /\ job'[w].alone = (Others(w) = {}) /\ (Others(w) = {} => job'[w].base = live)
  <2>1. pass = [f \in Fields |-> pass[f]]
    BY DEF IsJob
  <2> QED  BY <1>1, <2>1 DEF IsJob, Fields
<1>4. ASSUME NEW v \in Writers \ {w}
      PROVE  /\ IsJob(job'[v]) /\ job'[v].kind = job[v].kind /\ job'[v].stage = job[v].stage
             /\ job'[v].todo = job[v].todo /\ job'[v].left = job[v].left
             /\ job'[v].mine = job[v].mine /\ job'[v].relinked = job[v].relinked
             /\ Running(v) => Others(w) # {} /\ job'[v].alone = FALSE
             /\ ~Running(v) => job'[v] = job[v]
  <2>1. IsJob(job[v])
    BY DEF ShapeInv
  <2>2. Running(v) <=> v \in Others(w)
    BY DEF Others
  <2>3. CASE Running(v)
    <3>1. job'[v] = [job[v] EXCEPT !.alone = FALSE, !.base = Nothing] /\ Others(w) # {}
      BY <1>1, <2>2, <2>3
    <3> QED  BY <2>1, <2>3, <3>1 DEF IsJob, Fields
  <2>4. CASE ~Running(v)
    BY <1>1, <2>1, <2>2, <2>4
  <2> QED  BY <2>3, <2>4
<1>5. disturbances' \in Nat /\ (disturbances' = 0 => disturbances = 0 /\ Others(w) = {})
  <2>1. disturbances \in Nat
    BY DEF ShapeInv
  <2>2. CASE Others(w) = {}
    BY <1>1, <2>1, <2>2
  <2>3. CASE Others(w) # {}
    <3>1. disturbances' = disturbances + 1
      BY <1>1, <2>3
    <3> QED  BY <2>1, <3>1
  <2> QED  BY <2>2, <2>3
<1>6. ShapeInv'
  <2>1. \A v \in Writers : IsJob(job'[v]) /\ job'[v].todo \in Known
    BY <1>3, <1>4 DEF ShapeInv
  <2> QED  BY <1>1, <1>2, <1>5, <2>1 DEF ShapeInv, IsJob, Known
<1>7. RouteInv'
  <2> SUFFICES ASSUME NEW v \in Writers, Running(v)'
               PROVE  /\ job'[v].kind \in Kinds \ {"none"}
                      /\ job'[v].stage \in Route(job'[v].kind)
                      /\ job'[v].stage = "edit" => job'[v].left \subseteq job'[v].mine
                      /\ job'[v].stage = "relink" => job'[v].left \subseteq job'[v].relinked
                      /\ job'[v].stage \in {"agent", "place"} => job'[v].mine = {}
                      /\ job'[v].stage \in {"agent", "edit", "reconcile", "load"} => job'[v].relinked = {}
                      /\ job'[v].kind = "backlinks" /\ job'[v].stage = "load" => job'[v].mine = {}
                      /\ job'[v].stage \in {"edit", "relink", "place"} => Put(job'[v])
    BY DEF RouteInv
  <2>1. CASE v = w
    <3>1. pass.stage = "place" => Put(job'[w])
      BY <1>3 DEF Put
    <3> QED  BY <1>3, <2>1, <3>1
  <2>2. CASE v # w
    <3>1. Put(job[v]) => Put(job'[v])
      BY <1>4, <2>2 DEF Put
    <3> QED  BY <1>4, <2>2, <3>1 DEF RouteInv, Running
  <2> QED  BY <2>1, <2>2
<1>8. ApartInv'
  <2>1. ASSUME NEW v \in Writers, Alone(v)', NEW u \in Others(v)'
        PROVE  FALSE
    <3>1. u \in Writers \ {v} /\ job'[u].kind # "none" /\ job'[v].kind # "none" /\ job'[v].alone
      BY <2>1 DEF Others, Alone, Running
    <3>2. CASE v = w
      BY <1>3, <1>4, <3>1, <3>2 DEF Running
    <3>3. CASE v # w
      BY <1>4, <3>1, <3>3 DEF Running
    <3> QED  BY <3>2, <3>3
  <2>2. ASSUME disturbances' = 0, NEW v \in Writers, Running(v)'
        PROVE  job'[v].alone
    BY <1>3, <1>4, <1>5, <2>2 DEF Running
  <2>3. \A v \in Writers : Others(v)' \subseteq Writers
    BY DEF Others
  <2> QED  BY <2>1, <2>2, <2>3 DEF ApartInv
<1>9. AloneInv'
  <2> SUFFICES ASSUME NEW v \in Writers, Alone(v)' PROVE Sure(job[v])'
    BY DEF AloneInv
  <2>1. v = w /\ Others(w) = {}
    BY <1>3, <1>4 DEF Alone, Running
  <2>2. live' = live /\ job'[v].base = live
    BY <1>2, <1>3, <2>1
  <2>3. Covered(job[v])'
    BY <2>2 DEF Covered, Present
  <2>4. job'[v].stage \in {"agent", "load", "mark", "place", "drop"}
    BY <1>3, <2>1
  <2> QED  BY <2>3, <2>4 DEF Sure, Linked, Indexed, Noted
<1>10. ReviewInv'
  <2> SUFFICES ASSUME disturbances' = 0
               PROVE  /\ \A p \in Present(live) : Unseen(p, live[p].text) =>
                            \E v \in Writers : Hides(v, p)'
                      /\ \A v \in Writers : job'[v].stage \in {"edit", "relink"} =>
                            \A p \in job'[v].left : Unseen(p, job'[v].todo[p].text) =>
                                job'[v].stage = "edit" /\ job'[v].kind = "ingest" /\ staging
    BY <1>2 DEF ReviewInv, Present, Unseen
  <2>1. \A v \in Writers, p \in Pages : Hides(v, p) => Hides(v, p)'
    BY <1>1, <1>2, <1>4 DEF Hides, Running
  <2>2. /\ \A p \in Present(live) : Unseen(p, live[p].text) => \E v \in Writers : Hides(v, p)
        /\ \A v \in Writers : job[v].stage \in {"edit", "relink"} =>
              \A p \in job[v].left : Unseen(p, job[v].todo[p].text) =>
                  job[v].stage = "edit" /\ job[v].kind = "ingest" /\ staging
    BY <1>5 DEF ReviewInv
  <2>3. ASSUME NEW p \in Present(live), Unseen(p, live[p].text)
        PROVE  \E v \in Writers : Hides(v, p)'
    BY <2>1, <2>2, <2>3 DEF Present
  <2>4. ASSUME NEW v \in Writers, job'[v].stage \in {"edit", "relink"},
               NEW p \in job'[v].left, Unseen(p, job'[v].todo[p].text)
        PROVE  job'[v].stage = "edit" /\ job'[v].kind = "ingest" /\ staging
    <3>1. v # w
      BY <1>3, <2>4
    <3> QED  BY <1>4, <2>2, <2>4, <3>1
  <2> QED  BY <2>3, <2>4
<1> QED  BY <1>6, <1>7, <1>8, <1>9, <1>10

\* With nothing disturbed, a pass under way is the only one, and the texts to be
\* reviewed are its own.
LEMMA OwnTexts ==
    ASSUME WritersInv, NEW w \in Writers, Running(w), disturbances = 0
    PROVE  /\ \A v \in Writers \ {w} : ~Running(v)
           /\ \A p \in Present(live) : Unseen(p, live[p].text) => Hides(w, p)
<1>1. \A v \in Writers \ {w} : ~Running(v)
  BY DEF WritersInv, ApartInv, Alone, Others
<1>2. \A v \in Writers, p \in Pages : Hides(v, p) => Running(v)
  BY DEF Hides, Running
<1> QED  BY <1>1, <1>2 DEF WritersInv, ReviewInv, Present

\* What is left to show of a step of a pass under way: how its own job, and the
\* pages it comes to, fare.
LEMMA StepKeeps ==
    ASSUME WritersInv, NEW w \in Writers, Running(w),
           job' = [v \in Writers |-> job'[v]], \A v \in Writers \ {w} : job'[v] = job[v],
           IsJob(job'[w]), job'[w].todo \in Known',
           live' \in Known', staged' \in Known',
           replies' \in Nat, replies' >= replies, unreviewed' \subseteq 1 .. replies',
           unreviewed' \subseteq unreviewed \cup {replies + 1}, astray \subseteq astray',
           staging' = staging,
           disturbances' \in Nat, disturbances' = 0 => disturbances = 0,
           Running(w)' =>
              /\ job'[w].kind = job[w].kind
              /\ job'[w].alone = job[w].alone
              /\ job'[w].stage \in Route(job'[w].kind)
              /\ job'[w].stage = "edit" => job'[w].left \subseteq job'[w].mine
              /\ job'[w].stage = "relink" => job'[w].left \subseteq job'[w].relinked
              /\ job'[w].stage \in {"agent", "place"} => job'[w].mine = {}
              /\ job'[w].stage \in {"agent", "edit", "reconcile", "load"} => job'[w].relinked = {}
              /\ job'[w].kind = "backlinks" /\ job'[w].stage = "load" => job'[w].mine = {}
              /\ job'[w].stage \in {"edit", "relink", "place"} => Put(job'[w]),
           Running(w)' /\ Alone(w) => Sure(job[w])',
           disturbances' = 0 =>
              /\ \A p \in Present(live)' : Unseen(p, live[p].text)' => Hides(w, p)'
              /\ job'[w].stage \in {"edit", "relink"} =>
                    \A p \in job'[w].left : Unseen(p, job[w].todo[p].text)' =>
                        job'[w].stage = "edit" /\ job'[w].kind = "ingest" /\ staging
    PROVE  WritersInv'
<1> USE DEF WritersInv
<1>1. ShapeInv'
  <2>1. Known \subseteq Known'
    <3>1. replies \in Nat /\ 0 .. replies \subseteq 0 .. replies'
      BY DEF ShapeInv
    <3> QED  BY <3>1 DEF Known
  <2>2. \A v \in Writers : IsJob(job'[v]) /\ job'[v].todo \in Known'
    BY <2>1 DEF ShapeInv
  <2> QED  BY <2>2 DEF ShapeInv, IsJob
<1>2. RouteInv'
  <2> SUFFICES ASSUME NEW v \in Writers, Running(v)'
               PROVE  /\ job'[v].kind \in Kinds \ {"none"}
                      /\ job'[v].stage \in Route(job'[v].kind)
                      /\ job'[v].stage = "edit" => job'[v].left \subseteq job'[v].mine
                      /\ job'[v].stage = "relink" => job'[v].left \subseteq job'[v].relinked
                      /\ job'[v].stage \in {"agent", "place"} => job'[v].mine = {}
                      /\ job'[v].stage \in {"agent", "edit", "reconcile", "load"} => job'[v].relinked = {}
                      /\ job'[v].kind = "backlinks" /\ job'[v].stage = "load" => job'[v].mine = {}
                      /\ job'[v].stage \in {"edit", "relink", "place"} => Put(job'[v])
    BY DEF RouteInv
  <2>1. CASE v = w
    BY <2>1 DEF RouteInv
  <2>2. CASE v # w
    BY <2>2 DEF RouteInv, Running
  <2> QED  BY <2>1, <2>2
<1>3. ASSUME NEW v \in Writers, Alone(v)'
      PROVE  v = w /\ Alone(w)
  <2>1. CASE v = w
    BY <1>3, <2>1 DEF Alone
  <2>2. CASE v # w
    <3>1. Alone(v) /\ w \in Others(v)
      BY <1>3, <2>2 DEF Alone, Others, Running
    <3> QED  BY <3>1 DEF ApartInv
  <2> QED  BY <2>1, <2>2
<1>4. ApartInv'
  <2>1. ASSUME NEW v \in Writers, Alone(v)', NEW u \in Others(v)'
        PROVE  FALSE
    <3>1. v = w /\ Alone(w)
      BY <1>3, <2>1
    <3>2. u \in Others(w)
      BY <2>1, <3>1 DEF Others, Running
    <3> QED  BY <3>1, <3>2 DEF ApartInv
  <2>2. ASSUME disturbances' = 0, NEW v \in Writers, Running(v)'
        PROVE  job'[v].alone
    <3>1. CASE v = w
      BY <2>2, <3>1 DEF ApartInv
    <3>2. CASE v # w
      BY <2>2, <3>2 DEF ApartInv, Running
    <3> QED  BY <3>1, <3>2
  <2>3. \A v \in Writers : Others(v)' \subseteq Writers
    BY DEF Others
  <2> QED  BY <2>1, <2>2, <2>3 DEF ApartInv
<1>5. AloneInv'
  BY <1>3 DEF AloneInv, Alone
<1>6. ReviewInv'
  <2> SUFFICES ASSUME disturbances' = 0
               PROVE  /\ \A p \in Present(live)' : Unseen(p, live[p].text)' =>
                            \E v \in Writers : Hides(v, p)'
                      /\ \A v \in Writers : job'[v].stage \in {"edit", "relink"} =>
                            \A p \in job'[v].left : Unseen(p, job[v].todo[p].text)' =>
                                job'[v].stage = "edit" /\ job'[v].kind = "ingest" /\ staging'
    BY DEF ReviewInv
  <2>1. ASSUME NEW v \in Writers \ {w}, job'[v].stage \in {"edit", "relink"},
               NEW p \in job'[v].left, Unseen(p, job[v].todo[p].text)'
        PROVE  job'[v].stage = "edit" /\ job'[v].kind = "ingest" /\ staging'
    <3>1. job[v].todo \in Known /\ p \in Pages /\ replies \in Nat
      BY <2>1 DEF ShapeInv, IsJob
    <3>2. job[v].todo[p].text # replies + 1
      BY <3>1 DEF Known
    <3>3. Unseen(p, job[v].todo[p].text)
      BY <2>1, <3>2 DEF Unseen
    <3> QED  BY <2>1, <3>3 DEF ReviewInv
  <2> QED  BY <2>1
<1> QED  BY <1>1, <1>2, <1>4, <1>5, <1>6

\* A pass that ends leaves no text of its own to be reviewed, but if it is aborted.
LEMMA LeavingKeeps ==
    ASSUME WritersInv, NEW w \in Writers, Running(w), Becomes(w, Rest),
           UNCHANGED <<live, review>>, staged' \in Known,
           disturbances' \in Nat, disturbances' = 0 => disturbances = 0,
           disturbances' = 0 /\ job[w].kind = "ingest" => job[w].stage \notin {"edit", "reconcile"}
    PROVE  WritersInv'
<1>1. ShapeInv
  BY DEF WritersInv
<1>2. /\ job' = [v \in Writers |-> job'[v]]
      /\ job'[w] = Rest
      /\ \A v \in Writers \ {w} : job'[v] = job[v]
  BY <1>1, Turns
<1>3. /\ live' = live /\ staging' = staging /\ replies' = replies /\ unreviewed' = unreviewed
      /\ astray' = astray
      /\ replies \in Nat /\ unreviewed \subseteq 1 .. replies /\ live \in Known
  BY <1>1 DEF review, ShapeInv
<1>4. IsJob(job'[w]) /\ job'[w].todo \in Known' /\ Known' = Known
  BY <1>1, <1>2, <1>3, RestIsJob DEF Known
<1>5. ~Running(w)' /\ job'[w].stage = "end"
  BY <1>2 DEF Running, Rest
<1>6. ASSUME disturbances' = 0, NEW p \in Present(live)', Unseen(p, live[p].text)'
      PROVE  FALSE
  <2>1. Hides(w, p)
    BY <1>3, <1>6, OwnTexts DEF Present, Unseen
  <2> QED  BY <1>6, <2>1 DEF Hides
<1> QED  BY <1>2, <1>3, <1>4, <1>5, <1>6, StepKeeps

\* A step that touches no page of the wiki, of a pass that has no more texts of
\* its own to bring to review.
LEMMA CalmKeeps ==
    ASSUME WritersInv, NEW w \in Writers, Running(w), NEW k, Becomes(w, k),
           IsJob(k), k.todo \in Known, k.kind = job[w].kind, k.alone = job[w].alone,
           k.stage \in Route(k.kind) \cap Late,
           UNCHANGED <<live, review, disturbances>>, staged' \in Known,
           job[w].stage \notin {"edit", "reconcile"},
           Alone(w) => Sure(job[w])'
    PROVE  WritersInv'
<1>1. ShapeInv
  BY DEF WritersInv
<1>2. /\ job' = [v \in Writers |-> job'[v]]
      /\ job'[w] = k
      /\ \A v \in Writers \ {w} : job'[v] = job[v]
  BY <1>1, Turns
<1>3. /\ live' = live /\ staging' = staging /\ replies' = replies /\ unreviewed' = unreviewed
      /\ astray' = astray
      /\ disturbances' = disturbances /\ disturbances \in Nat
      /\ replies \in Nat /\ unreviewed \subseteq 1 .. replies /\ live \in Known
  BY <1>1 DEF review, ShapeInv
<1>4. Known' = Known
  BY <1>3 DEF Known
<1>5. ASSUME disturbances' = 0, NEW p \in Present(live)', Unseen(p, live[p].text)'
      PROVE  FALSE
  <2>1. Hides(w, p)
    BY <1>3, <1>5, OwnTexts DEF Present, Unseen
  <2> QED  BY <2>1 DEF Hides
<1> QED  BY <1>2, <1>3, <1>4, <1>5, StepKeeps DEF Late

\* The last steps of a pass.
LEMMA NoReplyKeeps ==
    ASSUME WritersInv, NEW w \in Writers, NoReply(w) \/ End(w) \/ Abort(w)
    PROVE  WritersInv'
<1>1. Running(w) /\ Becomes(w, Rest) /\ UNCHANGED <<live, review>> /\ staged' \in Known
  BY DEF NoReply, End, Abort, WritersInv, ShapeInv, wiki
<1>2. disturbances \in Nat
  BY DEF WritersInv, ShapeInv
<1>3. CASE NoReply(w) \/ End(w)
  <2>1. disturbances' = disturbances /\ job[w].stage \in {"agent", "end"}
    BY <1>3 DEF NoReply, End
  <2> QED  BY <1>1, <1>2, <2>1, LeavingKeeps
<1>4. CASE Abort(w)
  <2>1. disturbances' = disturbances + 1
    BY <1>4 DEF Abort
  <2> QED  BY <1>1, <1>2, <2>1, LeavingKeeps
<1> QED  BY <1>3, <1>4

LEMMA IndexKeeps ==
    ASSUME WritersInv, NEW w \in Writers, Index(w)
    PROVE  WritersInv'
<1> DEFINE k == [job[w] EXCEPT
                   !.stage = CASE job[w].kind = "ingest" -> "hash"
                               [] job[w].kind = "approve" -> "commit"
                               [] OTHER -> "record",
                   !.seen = IF job[w].kind = "approve" THEN live ELSE Nothing]
<1>1. /\ job[w].kind \in Sharing \cup {"approve"} /\ job[w].stage = "index" /\ Running(w)
      /\ Becomes(w, k) /\ UNCHANGED <<live, staged, recorded, committed, review, disturbances>>
      /\ listed' = AsSeen(FinalPages(job[w]))
      /\ found' = IF job[w].kind \in Sharing THEN AsSeen(FinalPages(job[w])) ELSE found
  BY DEF Index, At, Running, Sharing, wiki, trail
<1>2. ShapeInv /\ IsJob(job[w]) /\ job[w].todo \in Known
  BY DEF WritersInv, ShapeInv
<1>3. /\ IsJob(k) /\ k.todo = job[w].todo /\ k.kind = job[w].kind /\ k.alone = job[w].alone
      /\ k.stage = (CASE job[w].kind = "ingest" -> "hash"
                      [] job[w].kind = "approve" -> "commit"
                      [] OTHER -> "record")
      /\ k.seen = (IF job[w].kind = "approve" THEN live ELSE Nothing)
      /\ k.base = job[w].base /\ k.skipped = job[w].skipped /\ k.mine = job[w].mine /\ k.relinked = job[w].relinked
      /\ k.noted = job[w].noted
  BY <1>2 DEF IsJob, Fields
<1>4. job'[w] = k
  BY <1>1, <1>2, Turns
<1> HIDE DEF k
<1>5. k.stage \in Route(k.kind) \cap Late
  BY <1>1, <1>3 DEF Sharing, Route, Late
<1>6. staged' \in Known
  BY <1>1, <1>2 DEF ShapeInv
<1>7. ASSUME Alone(w) PROVE Sure(job[w])'
  <2>1. Sure(job[w])
    BY <1>7 DEF WritersInv, AloneInv
  <2>2. Covered(job[w])'
    BY <1>1, <1>3, <1>4, <2>1 DEF Sure, Covered, review
  <2>3. Linked(job[w])' => BothWays(live)'
    BY <1>1, <1>3, <1>4, <2>1 DEF Sure, Linked, BothWays, Present
  <2>4. AsSeen(FinalPages(job[w])) = Pages
    BY <1>1, <2>1 DEF Sure, AsSeen, FinalPages
  <2>5. Noted(job[w])' /\ job'[w].noted =>
           Accountable(job[w])' \cap Present(live)' \subseteq recorded'
    BY <1>1, <1>3, <1>4, <2>1 DEF Sure, Noted, Accountable, Present, Sharing
  <2>6. Indexed(job[w])' => listed' = Pages /\ (job'[w].kind # "approve" => found' = Pages)
    BY <1>1, <1>3, <1>4, <2>4 DEF Indexed, Sharing
  <2>7. job'[w].kind = job[w].kind /\ job'[w].stage \in {"hash", "commit", "record"}
        /\ (job'[w].stage = "record" => job'[w].kind # "ingest")
        /\ (job'[w].kind = "approve" => job'[w].seen = live')
    BY <1>1, <1>3, <1>4
  <2> QED  BY <2>2, <2>3, <2>5, <2>6, <2>7 DEF Sure
<1> QED  BY <1>1, <1>2, <1>3, <1>5, <1>6, <1>7, CalmKeeps

LEMMA HashKeeps ==
    ASSUME WritersInv, NEW w \in Writers, Hash(w)
    PROVE  WritersInv'
<1> DEFINE k == [job[w] EXCEPT
                   !.stage = "record",
                   !.seen = [p \in Pages |-> IF p \in Accountable(job[w]) THEN live[p]
                                             ELSE Absent]]
<1>1. /\ job[w].kind = "ingest" /\ job[w].stage = "hash" /\ Running(w)
      /\ Becomes(w, k) /\ UNCHANGED <<live, staged, derived, trail, review, disturbances>>
  BY DEF Hash, At, Running, wiki
<1>2. ShapeInv /\ IsJob(job[w]) /\ job[w].todo \in Known
  BY DEF WritersInv, ShapeInv
<1>3. /\ IsJob(k) /\ k.todo = job[w].todo /\ k.kind = "ingest" /\ k.alone = job[w].alone
      /\ k.stage = "record"
      /\ k.seen = [p \in Pages |-> IF p \in Accountable(job[w]) THEN live[p] ELSE Absent]
      /\ k.base = job[w].base /\ k.skipped = job[w].skipped /\ k.mine = job[w].mine /\ k.relinked = job[w].relinked
  BY <1>1, <1>2 DEF IsJob, Fields
<1>4. job'[w] = k
  BY <1>1, <1>2, Turns
<1> HIDE DEF k
<1>5. k.stage \in Route(k.kind) \cap Late
  BY <1>3 DEF Route, Late
<1>6. staged' \in Known
  BY <1>1, <1>2 DEF ShapeInv
<1>7. ASSUME Alone(w) PROVE Sure(job[w])'
  <2>1. Sure(job[w])
    BY <1>7 DEF WritersInv, AloneInv
  <2>2. Covered(job[w])'
    BY <1>1, <1>3, <1>4, <2>1 DEF Sure, Covered, review
  <2>3. Linked(job[w])' => BothWays(live)'
    BY <1>1, <1>3, <1>4, <2>1 DEF Sure, Linked, BothWays, Present
  <2>4. Indexed(job[w])' => listed' = Pages /\ (job'[w].kind # "approve" => found' = Pages)
    BY <1>1, <1>3, <1>4, <2>1 DEF Sure, Indexed, derived
  <2>5. Accountable(job[w])' = Accountable(job[w]) /\ Accountable(job[w]) \subseteq Pages
    BY <1>2, <1>1, <1>3, <1>4 DEF Accountable, IsJob
  <2>6. \A p \in Accountable(job[w])' : job'[w].seen[p] = live'[p]
    BY <1>1, <1>3, <1>4, <2>5
  <2> QED  BY <1>3, <1>4, <2>2, <2>3, <2>4, <2>6 DEF Sure, Noted
<1> QED  BY <1>1, <1>2, <1>3, <1>5, <1>6, <1>7, CalmKeeps

\* The pass has come to its record, with or without appending it.
LEMMA RecordKeeps ==
    ASSUME WritersInv, NEW w \in Writers, Record(w) \/ RecordFails(w)
    PROVE  WritersInv'
<1> DEFINE on == [job[w] EXCEPT !.stage = AfterRecord(job[w].kind), !.seen = Nothing]
           off == [job[w] EXCEPT !.stage = AfterRecord(job[w].kind), !.seen = Nothing,
                                 !.noted = FALSE]
<1>1. /\ job[w].stage = "record" /\ Running(w)
      /\ UNCHANGED <<live, staged, derived, committed, review, disturbances>>
  BY DEF Record, RecordFails, wiki, trail
<1>2. ShapeInv /\ IsJob(job[w]) /\ job[w].todo \in Known
  BY DEF WritersInv, ShapeInv
<1>3. staged' \in Known /\ disturbances' = disturbances /\ disturbances \in Nat
  BY <1>1, <1>2 DEF ShapeInv
<1>4. job[w].kind \in {"ingest", "compound", "heal", "merge", "backlinks", "archive", "approve"}
  BY <1>1 DEF WritersInv, RouteInv, Route, Kinds
<1>5. CASE RecordFails(w) /\ job[w].kind = "backlinks"
  <2>1. Becomes(w, Rest)
    BY <1>5 DEF RecordFails
  <2> QED  BY <1>1, <1>3, <1>5, <2>1, LeavingKeeps
<1>6. ASSUME NEW k, k \in {on, off}, Becomes(w, k),
             k.noted => Record(w)
      PROVE  WritersInv'
  <2>1. /\ IsJob(k) /\ k.todo = job[w].todo /\ k.kind = job[w].kind /\ k.alone = job[w].alone
        /\ k.stage = AfterRecord(job[w].kind)
        /\ k.base = job[w].base /\ k.skipped = job[w].skipped /\ k.mine = job[w].mine /\ k.relinked = job[w].relinked
    BY <1>2, <1>6 DEF IsJob, Fields
  <2>2. job'[w] = k
    BY <1>2, <1>6, Turns
  <2>3. k.stage \in Route(k.kind) \cap Late
    BY <1>4, <2>1 DEF Route, AfterRecord, Late
  <2>4. ASSUME Alone(w) PROVE Sure(job[w])'
    <3>1. Sure(job[w])
      BY <2>4 DEF WritersInv, AloneInv
    <3>2. Covered(job[w])'
      BY <1>1, <2>1, <2>2, <3>1 DEF Sure, Covered, review
    <3>3. Linked(job[w])' => BothWays(live)'
      BY <1>1, <2>1, <2>2, <3>1 DEF Sure, Linked, BothWays, Present
    <3>4. Indexed(job[w])' => listed' = Pages /\ (job'[w].kind # "approve" => found' = Pages)
      BY <1>1, <2>1, <2>2, <3>1 DEF Sure, Indexed, derived, AfterRecord
    <3>5. Accountable(job[w])' = Accountable(job[w]) /\ Accountable(job[w]) \subseteq Pages
      BY <1>2, <2>1, <2>2 DEF Accountable, IsJob
    <3>6. ASSUME job'[w].noted
          PROVE  Accountable(job[w])' \cap Present(live)' \subseteq recorded'
      <4> DEFINE h == Hashed(job[w])
      <4>1. recorded' = (recorded \ Present(h)) \cup (Present(h) \cap AsSeen(h))
        BY <1>6, <2>2, <3>6 DEF Record
      <4>2. \A p \in Accountable(job[w]) : h[p] = live[p]
        BY <1>1, <3>1, <3>5 DEF Sure, Hashed
      <4> HIDE DEF h
      <4> QED  BY <1>1, <3>5, <4>1, <4>2 DEF Present, AsSeen
    <3>7. job'[w].stage \in {"commit", "index"}
          /\ (job'[w].stage = "index" <=> job'[w].kind = "approve")
      BY <2>1, <2>2 DEF AfterRecord
    <3> QED  BY <3>2, <3>3, <3>4, <3>6, <3>7 DEF Sure, Relinking
  <2> QED  BY <1>1, <1>2, <1>3, <1>6, <2>1, <2>3, <2>4, CalmKeeps
<1>7. CASE RecordFails(w) /\ job[w].kind # "backlinks"
  <2>1. Becomes(w, off)
    BY <1>7 DEF RecordFails
  <2>2. off.noted = FALSE
    BY <1>2 DEF IsJob, Fields
  <2> QED  BY <1>6, <2>1, <2>2
<1>8. CASE Record(w)
  BY <1>6, <1>8 DEF Record
<1> QED  BY <1>5, <1>7, <1>8

\* The pass has come to its commit, which may have failed.
LEMMA CommitKeeps ==
    ASSUME WritersInv, NEW w \in Writers, Commit(w) \/ CommitFails(w)
    PROVE  WritersInv'
<1> DEFINE on == [job[w] EXCEPT !.stage = "end", !.seen = Nothing]
           off == [job[w] EXCEPT !.stage = "end", !.seen = Nothing, !.saved = FALSE]
<1>1. /\ job[w].stage = "commit" /\ Running(w)
      /\ UNCHANGED <<live, staged, derived, recorded, review, disturbances>>
  BY DEF Commit, CommitFails, wiki, trail
<1>2. ShapeInv /\ IsJob(job[w]) /\ job[w].todo \in Known
  BY DEF WritersInv, ShapeInv
<1>3. staged' \in Known
  BY <1>1, <1>2 DEF ShapeInv
<1>4. job[w].kind \in Kinds \ {"none", "reject"}
  BY <1>1 DEF WritersInv, RouteInv, Route, Kinds
<1>5. ASSUME NEW k, k \in {on, off}, Becomes(w, k), k.saved => Commit(w)
      PROVE  WritersInv'
  <2>1. /\ IsJob(k) /\ k.todo = job[w].todo /\ k.kind = job[w].kind /\ k.alone = job[w].alone
        /\ k.stage = "end" /\ k.noted = job[w].noted
        /\ k.base = job[w].base /\ k.skipped = job[w].skipped /\ k.mine = job[w].mine /\ k.relinked = job[w].relinked
    BY <1>2, <1>5 DEF IsJob, Fields
  <2>2. job'[w] = k
    BY <1>2, <1>5, Turns
  <2>3. k.stage \in Route(k.kind) \cap Late
    BY <1>4, <2>1 DEF Route, Kinds, Late
  <2>4. ASSUME Alone(w) PROVE Sure(job[w])'
    <3>1. Sure(job[w])
      BY <2>4 DEF WritersInv, AloneInv
    <3>2. Covered(job[w])'
      BY <1>1, <2>1, <2>2, <3>1 DEF Sure, Covered, review
    <3>3. Linked(job[w])' => BothWays(live)'
      BY <1>1, <2>1, <2>2, <3>1 DEF Sure, Linked, BothWays, Present
    <3>4. Indexed(job[w])' => listed' = Pages /\ (job'[w].kind # "approve" => found' = Pages)
      BY <1>1, <2>1, <2>2, <3>1 DEF Sure, Indexed, derived
    <3>5. job'[w].noted => Accountable(job[w])' \cap Present(live)' \subseteq recorded'
      BY <1>1, <2>1, <2>2, <3>1 DEF Sure, Noted, Accountable, Present
    <3>6. ASSUME job'[w].saved
          PROVE  (job'[w].mine \cup job'[w].relinked) \cap Present(live)' \subseteq committed'
      <4>1. committed' = committed \cup Committed(job[w])
        BY <1>5, <2>2, <3>6 DEF Commit
      <4> QED  BY <1>1, <2>1, <2>2, <3>1, <4>1 DEF Sure, Committed, Present
    <3> QED  BY <2>1, <2>2, <3>2, <3>3, <3>4, <3>5, <3>6 DEF Sure
  <2> QED  BY <1>1, <1>2, <1>3, <1>5, <2>1, <2>3, <2>4, CalmKeeps
<1>6. CASE CommitFails(w)
  <2>1. off.saved = FALSE
    BY <1>2 DEF IsJob, Fields
  <2> QED  BY <1>5, <1>6, <2>1 DEF CommitFails
<1>7. CASE Commit(w)
  BY <1>5, <1>7 DEF Commit
<1> QED  BY <1>6, <1>7

LEMMA CandidateIsKnown ==
    ASSUME ShapeInv, NEW p \in Pages, NEW c \in {Absent, live[p]}
    PROVE  Candidate(p, c) \in Known
<1>1. /\ Absent \in [text : 0 .. replies, related : SUBSET Pages, orphaned : BOOLEAN]
      /\ live[p] \in [text : 0 .. replies, related : SUBSET Pages, orphaned : BOOLEAN]
      /\ \A q \in Pages : staged[q] \in [text : 0 .. replies, related : SUBSET Pages,
                                         orphaned : BOOLEAN]
  BY DEF ShapeInv, Known, Absent
<1> QED  BY <1>1 DEF Candidate, Known

LEMMA DropKeeps ==
    ASSUME WritersInv, NEW w \in Writers, Drop(w)
    PROVE  WritersInv'
<1> DEFINE k == [job[w] EXCEPT !.stage = "record", !.left = {}, !.todo = Nothing]
<1>1. /\ job[w].kind \in {"approve", "reject"} /\ job[w].stage = "drop" /\ Running(w)
      /\ UNCHANGED <<live, derived, trail, review, disturbances>>
  BY DEF Drop, At, Running
<1>2. ShapeInv /\ IsJob(job[w]) /\ job[w].todo \in Known
  BY DEF WritersInv, ShapeInv
<1>3. staged' \in Known
  <2>1. PICK p \in job[w].left : staged' = Candidate(p, Absent)
    BY DEF Drop
  <2>2. p \in Pages
    BY <1>2 DEF IsJob
  <2> QED  BY <1>2, <2>1, <2>2, CandidateIsKnown
<1>4. CASE job[w].kind = "reject"
  <2>1. Becomes(w, Rest)
    BY <1>4 DEF Drop
  <2>2. disturbances' = disturbances /\ disturbances \in Nat
    BY <1>1, <1>2 DEF ShapeInv
  <2> QED  BY <1>1, <1>3, <1>4, <2>1, <2>2, LeavingKeeps
<1>5. CASE job[w].kind = "approve"
  <2>1. Becomes(w, k)
    BY <1>5 DEF Drop
  <2>2. /\ IsJob(k) /\ k.todo = Nothing /\ k.kind = job[w].kind /\ k.alone = job[w].alone
        /\ k.stage = "record"
        /\ k.base = job[w].base /\ k.skipped = job[w].skipped /\ k.mine = job[w].mine /\ k.relinked = job[w].relinked
    BY <1>2 DEF IsJob, Fields
  <2>3. job'[w] = k
    BY <1>2, <2>1, Turns
  <2> HIDE DEF k
  <2>4. k.stage \in Route(k.kind) \cap Late /\ k.todo \in Known
    BY <1>2, <1>5, <2>2, RestIsJob DEF Route, Late
  <2>5. ASSUME Alone(w) PROVE Sure(job[w])'
    <3>1. Sure(job[w])
      BY <2>5 DEF WritersInv, AloneInv
    <3>2. Covered(job[w])'
      BY <1>1, <2>2, <2>3, <3>1 DEF Sure, Covered, review
    <3> QED  BY <1>5, <2>2, <2>3, <3>2 DEF Sure, Linked, Indexed, Noted, Relinking
  <2> QED  BY <1>1, <1>2, <1>3, <2>1, <2>2, <2>4, <2>5, CalmKeeps
<1> QED  BY <1>1, <1>4, <1>5

LEMMA MarkKeeps ==
    ASSUME WritersInv, NEW w \in Writers, Mark(w)
    PROVE  WritersInv'
<1>1. PICK p \in job[w].left :
         LET j == [job[w] EXCEPT !.left = @ \ {p},
                                 !.mine = IF live[p] = Absent THEN @ ELSE @ \cup {p}]
         IN  /\ live' = IF live[p] = Absent THEN live ELSE [live EXCEPT ![p].orphaned = TRUE]
             /\ Becomes(w, IF j.left # {} THEN j
                           ELSE [j EXCEPT !.stage = IF j.mine = {} THEN "record" ELSE "index"])
  BY DEF Mark
<1> DEFINE left == job[w].left \ {p}
           mine == IF live[p] = Absent THEN job[w].mine ELSE job[w].mine \cup {p}
           j == [job[w] EXCEPT !.left = left, !.mine = mine]
           k == IF left # {} THEN j
                ELSE [j EXCEPT !.stage = IF mine = {} THEN "record" ELSE "index"]
<1>2. /\ job[w].kind = "archive" /\ job[w].stage = "mark" /\ Running(w)
      /\ UNCHANGED <<staged, review, disturbances>>
  BY DEF Mark, At, Running
<1>3. ShapeInv /\ IsJob(job[w]) /\ job[w].todo \in Known /\ p \in Pages
  BY <1>1 DEF WritersInv, ShapeInv, IsJob
<1>4. /\ live' = IF live[p] = Absent THEN live ELSE [live EXCEPT ![p].orphaned = TRUE]
      /\ Becomes(w, k)
  <2>1. j.left = left /\ j.mine = mine
    BY <1>3 DEF IsJob, Fields
  <2> QED  BY <1>1, <2>1
<1>5. /\ IsJob(k) /\ k.todo = job[w].todo /\ k.kind = "archive" /\ k.alone = job[w].alone
      /\ k.stage \in {"mark", "record", "index"} /\ k.mine = mine
      /\ k.stage = "record" => mine = {}
      /\ k.base = job[w].base /\ k.skipped = job[w].skipped /\ k.relinked = job[w].relinked
  <2>1. left \subseteq Pages /\ mine \subseteq Pages
    BY <1>3 DEF IsJob
  <2>2. /\ IsJob(j) /\ j.todo = job[w].todo /\ j.kind = "archive" /\ j.alone = job[w].alone
        /\ j.stage = "mark" /\ j.mine = mine /\ j.left = left
        /\ j.base = job[w].base /\ j.skipped = job[w].skipped /\ j.relinked = job[w].relinked
    <3> HIDE DEF left, mine
    <3> QED  BY <1>2, <1>3, <2>1 DEF IsJob, Fields
  <2> HIDE DEF j, left, mine
  <2> QED  BY <2>2 DEF IsJob, Fields
<1>6. /\ job' = [v \in Writers |-> job'[v]]
      /\ job'[w] = k
      /\ \A v \in Writers \ {w} : job'[v] = job[v]
  <2> HIDE DEF k
  <2> QED  BY <1>3, <1>4, Turns
<1>7. /\ replies' = replies /\ unreviewed' = unreviewed /\ astray' = astray /\ staging' = staging /\ staged' = staged
      /\ disturbances' = disturbances /\ disturbances \in Nat /\ Known' = Known
      /\ replies \in Nat /\ unreviewed \subseteq 1 .. replies /\ staged \in Known
  BY <1>2, <1>3 DEF review, ShapeInv, Known
<1>8. /\ live' \in Known
      /\ \A q \in Pages : live'[q].text = live[q].text
      /\ \A q \in Pages \ {p} : live'[q] = live[q]
      /\ live[p] = Absent => live'[p] = Absent
  <2>1. live \in Known
    BY <1>3 DEF ShapeInv
  <2>2. CASE live[p] = Absent
    BY <1>4, <1>7, <2>1, <2>2
  <2>3. CASE live[p] # Absent
    <3>1. live' = [live EXCEPT ![p] = [live[p] EXCEPT !.orphaned = TRUE]]
      BY <1>4, <2>3
    <3>2. /\ [live[p] EXCEPT !.orphaned = TRUE].text = live[p].text
          /\ [live[p] EXCEPT !.orphaned = TRUE]
                \in [text : 0 .. replies, related : SUBSET Pages, orphaned : BOOLEAN]
      <4>1. live[p] \in [text : 0 .. replies, related : SUBSET Pages, orphaned : BOOLEAN]
        BY <1>3, <2>1 DEF Known
      <4> QED  BY <4>1
    <3> DEFINE x == [live[p] EXCEPT !.orphaned = TRUE]
    <3> HIDE DEF x
    <3> QED  BY <1>3, <2>1, <2>3, <3>1, <3>2 DEF Known, x
  <2> QED  BY <2>2, <2>3
<1> HIDE DEF k
<1>9. ASSUME disturbances' = 0, NEW q \in Present(live)', Unseen(q, live[q].text)'
      PROVE  FALSE
  <2>1. q \in Present(live) /\ Unseen(q, live[q].text)
    BY <1>7, <1>8, <1>9 DEF Present, Unseen
  <2>2. Hides(w, q)
    BY <1>2, <1>7, <1>9, <2>1, OwnTexts
  <2> QED  BY <1>2, <2>2 DEF Hides
<1>10. ASSUME Alone(w) PROVE Sure(job[w])'
  <2>1. Sure(job[w])
    BY <1>10 DEF WritersInv, AloneInv
  <2>2. Covered(job[w])'
    <3>1. live[p] # Absent => live'[p] # Absent
      BY <1>3, <1>4 DEF ShapeInv, Known, Absent
    <3> QED  BY <1>2, <1>5, <1>6, <1>7, <1>8, <2>1, <3>1 DEF Sure, Covered
  <2> QED  BY <1>5, <1>6, <2>2 DEF Sure, Linked, Indexed, Noted, Relinking
<1>11. /\ job'[w].kind = job[w].kind /\ job'[w].alone = job[w].alone
       /\ job'[w].stage \in Route(job'[w].kind) \cap {"mark", "record", "index"}
       /\ job'[w].kind = "archive"
  BY <1>2, <1>5, <1>6 DEF Route
<1>12. IsJob(job'[w]) /\ job'[w].todo \in Known'
  BY <1>3, <1>5, <1>6, <1>7
<1>13. /\ live' \in Known' /\ staged' \in Known' /\ replies' \in Nat /\ replies' >= replies
       /\ unreviewed' \subseteq 1 .. replies' /\ unreviewed' \subseteq unreviewed \cup {replies + 1}
  BY <1>7, <1>8
<1> QED  BY <1>2, <1>6, <1>7, <1>9, <1>10, <1>11, <1>12, <1>13, StepKeeps

LEMMA PlaceKeeps ==
    ASSUME WritersInv, NEW w \in Writers, Place(w)
    PROVE  WritersInv'
<1>1. /\ job[w].kind = "approve" /\ job[w].stage = "place" /\ Running(w)
      /\ UNCHANGED <<staged, staging, replies, astray, disturbances>>
  BY DEF Place, At, Running
<1>2. ShapeInv /\ IsJob(job[w]) /\ job[w].todo \in Known
  BY DEF WritersInv, ShapeInv
<1>3. /\ disturbances \in Nat /\ Known' = Known /\ staged \in Known /\ live \in Known
      /\ replies \in Nat /\ unreviewed \subseteq 1 .. replies
  BY <1>1, <1>2 DEF ShapeInv, Known
<1>4. CASE Becomes(w, Rest) /\ UNCHANGED <<live, unreviewed>>
  <2>1. UNCHANGED <<live, review>> /\ disturbances' = disturbances /\ staged' \in Known
    BY <1>1, <1>3, <1>4 DEF review
  <2> QED  BY <1>1, <1>3, <1>4, <2>1, LeavingKeeps
<1>5. ASSUME NEW p \in job[w].left, NEW to \in Pages,
             live' = [live EXCEPT ![to] = job[w].todo[p]],
             unreviewed' = unreviewed \ {job[w].todo[p].text},
             Becomes(w, [job[w] EXCEPT !.stage = "drop", !.mine = {to}])
      PROVE  WritersInv'
  <2> DEFINE k == [job[w] EXCEPT !.stage = "drop", !.mine = {to}]
  <2>1. p \in Pages
    BY <1>2 DEF IsJob
  <2>2. /\ IsJob(k) /\ k.todo = job[w].todo /\ k.kind = "approve" /\ k.alone = job[w].alone
        /\ k.stage = "drop" /\ k.mine = {to}
        /\ k.base = job[w].base /\ k.skipped = job[w].skipped /\ k.relinked = job[w].relinked
    BY <1>1, <1>2, <2>1 DEF IsJob, Fields
  <2>3. /\ job' = [v \in Writers |-> job'[v]]
        /\ job'[w] = k
        /\ \A v \in Writers \ {w} : job'[v] = job[v]
    <3> HIDE DEF k
    <3> QED  BY <1>2, <1>5, Turns DEF k
  <2> HIDE DEF k
  <2>4. /\ live' \in Known /\ live'[to] = job[w].todo[p]
        /\ \A q \in Pages \ {to} : live'[q] = live[q]
    BY <1>2, <1>3, <1>5, <2>1 DEF Known
  <2>5. ASSUME disturbances' = 0, NEW q \in Present(live)', Unseen(q, live[q].text)'
        PROVE  FALSE
    <3>1. q \in Present(live) /\ Unseen(q, live[q].text)
      BY <1>1, <1>5, <2>4, <2>5 DEF Present, Unseen
    <3>2. Hides(w, q)
      BY <1>1, <2>5, <3>1, OwnTexts
    <3> QED  BY <1>1, <3>2 DEF Hides
  <2>6. ASSUME Alone(w) PROVE Sure(job[w])'
    <3>1. Sure(job[w]) /\ job[w].mine = {} /\ job[w].todo[p] # Absent
      BY <1>1, <2>6 DEF WritersInv, AloneInv, RouteInv, Put
    <3>2. Covered(job[w])'
      BY <1>1, <2>2, <2>3, <2>4, <3>1 DEF Sure, Covered
    <3> QED  BY <2>2, <2>3, <3>2 DEF Sure, Linked, Indexed, Noted, Relinking
  <2>7. /\ job'[w].kind = job[w].kind /\ job'[w].alone = job[w].alone
        /\ job'[w].stage \in Route(job'[w].kind) /\ job'[w].stage = "drop"
    BY <1>1, <2>2, <2>3 DEF Route
  <2>8. IsJob(job'[w]) /\ job'[w].todo \in Known'
    BY <1>2, <1>3, <2>2, <2>3
  <2>9. /\ live' \in Known' /\ staged' \in Known' /\ replies' \in Nat /\ replies' >= replies
        /\ unreviewed' \subseteq 1 .. replies' /\ unreviewed' \subseteq unreviewed \cup {replies + 1}
        /\ disturbances' \in Nat /\ staging' = staging /\ astray \subseteq astray'
        /\ disturbances' = 0 => disturbances = 0
    BY <1>1, <1>3, <1>5, <2>4
  <2> QED  BY <1>1, <2>3, <2>5, <2>6, <2>7, <2>8, <2>9, StepKeeps
<1> QED  BY <1>4, <1>5 DEF Place

\* What the agent writes is new: nobody has put it anywhere yet.
LEMMA ReplyKeeps ==
    ASSUME WritersInv, NEW w \in Writers, Reply(w)
    PROVE  WritersInv'
<1>1. /\ job[w].stage = "agent" /\ Running(w) /\ replies' = replies + 1
      /\ UNCHANGED <<live, staged, derived, trail, staging, astray, disturbances>>
      /\ unreviewed' = IF job[w].kind = "ingest" /\ staging
                       THEN unreviewed \cup {replies'} ELSE unreviewed
  BY DEF Reply, wiki
<1>2. ShapeInv /\ IsJob(job[w]) /\ job[w].todo \in Known
  BY DEF WritersInv, ShapeInv
<1>3. PICK e \in Edits(job[w].kind) :
         Becomes(w, [job[w] EXCEPT
                       !.stage = "edit",
                       !.todo = [p \in Pages |-> IF p \in DOMAIN e THEN e[p] ELSE Absent],
                       !.left = DOMAIN e, !.mine = DOMAIN e])
  BY DEF Reply
<1> DEFINE todo == [p \in Pages |-> IF p \in DOMAIN e THEN e[p] ELSE Absent]
           k == [job[w] EXCEPT !.stage = "edit", !.todo = todo,
                               !.left = DOMAIN e, !.mine = DOMAIN e]
<1>4. /\ DOMAIN e \subseteq Pages
      /\ \A p \in DOMAIN e : /\ e[p] \in [text : 0 .. replies + 1, related : SUBSET Pages,
                                          orphaned : BOOLEAN]
                             /\ e[p].text = replies + 1
  BY <1>2, EditsAreNew
<1>5. /\ disturbances \in Nat /\ staged \in Known /\ live \in Known
      /\ replies \in Nat /\ unreviewed \subseteq 1 .. replies
  BY <1>2 DEF ShapeInv
<1>6. todo \in Known'
  <2>1. Absent \in [text : 0 .. replies + 1, related : SUBSET Pages, orphaned : BOOLEAN]
    BY <1>5 DEF Absent
  <2> QED  BY <1>1, <1>4, <2>1 DEF Known
<1>7. /\ IsJob(k) /\ k.todo = todo /\ k.kind = job[w].kind /\ k.alone = job[w].alone
      /\ k.stage = "edit" /\ k.mine = DOMAIN e /\ k.left = DOMAIN e
      /\ k.base = job[w].base /\ k.skipped = job[w].skipped /\ k.relinked = job[w].relinked
  <2> HIDE DEF todo
  <2> QED  BY <1>2, <1>4 DEF IsJob, Fields
<1>8. /\ job' = [v \in Writers |-> job'[v]]
      /\ job'[w] = k
      /\ \A v \in Writers \ {w} : job'[v] = job[v]
  <2>1. Becomes(w, k)
    BY <1>3
  <2> HIDE DEF k
  <2> QED  BY <1>2, <2>1, Turns
<1>9. \A p \in DOMAIN e : todo[p].text = replies + 1
  BY <1>4
<1>a. Put(k)
  <2>1. \A p \in DOMAIN e : todo[p] # Absent
    BY <1>5, <1>9 DEF Absent
  <2> HIDE DEF k, todo
  <2> QED  BY <1>7, <2>1 DEF Put
<1> HIDE DEF k, todo
<1>10. Known \subseteq Known'
  <2>1. 0 .. replies \subseteq 0 .. replies'
    BY <1>1, <1>5
  <2> QED  BY <2>1 DEF Known
<1>11. job[w].kind \in {"ingest", "compound", "heal", "merge"} /\ job[w].mine = {}
       /\ job[w].relinked = {}
  BY <1>1 DEF WritersInv, RouteInv, Route, Kinds
<1>12. ASSUME disturbances' = 0, NEW q \in Present(live)', Unseen(q, live[q].text)'
       PROVE  FALSE
  <2>1. q \in Present(live) /\ live[q].text \in 0 .. replies
    BY <1>1, <1>5, <1>12 DEF Present, Known
  <2>2. Unseen(q, live[q].text)
    BY <1>1, <1>5, <1>12, <2>1 DEF Unseen
  <2>3. Hides(w, q)
    BY <1>1, <1>12, <2>1, <2>2, OwnTexts
  <2> QED  BY <1>1, <2>3 DEF Hides
<1>13. ASSUME NEW p \in job'[w].left, Unseen(p, job[w].todo[p].text)'
       PROVE  job'[w].kind = "ingest" /\ staging
  <2>1. replies + 1 \in unreviewed' /\ replies + 1 \notin unreviewed
    BY <1>5, <1>7, <1>8, <1>9, <1>13 DEF Unseen
  <2> QED  BY <1>1, <1>7, <1>8, <2>1
<1>14. ASSUME Alone(w) PROVE Sure(job[w])'
  <2>1. Sure(job[w])
    BY <1>14 DEF WritersInv, AloneInv
  <2>2. Covered(job[w])'
    BY <1>1, <1>7, <1>8, <1>11, <2>1 DEF Sure, Covered, review
  <2> QED  BY <1>7, <1>8, <2>2 DEF Sure, Linked, Indexed, Noted
<1>15. /\ job'[w].kind = job[w].kind /\ job'[w].alone = job[w].alone
       /\ job'[w].stage \in Route(job'[w].kind) /\ job'[w].stage = "edit"
       /\ job'[w].left \subseteq job'[w].mine /\ job'[w].relinked = {} /\ Put(job'[w])
  BY <1>7, <1>8, <1>a, <1>11 DEF Route
<1>16. /\ IsJob(job'[w]) /\ job'[w].todo \in Known' /\ live' \in Known' /\ staged' \in Known'
  BY <1>1, <1>5, <1>6, <1>7, <1>8, <1>10
<1>17. /\ replies' \in Nat /\ replies' >= replies
       /\ unreviewed' \subseteq 1 .. replies' /\ unreviewed' \subseteq unreviewed \cup {replies + 1}
       /\ disturbances' \in Nat /\ staging' = staging /\ astray \subseteq astray'
       /\ disturbances' = 0 => disturbances = 0
  <2>1. replies' \in Nat /\ replies' >= replies
    BY <1>1, <1>5
  <2>2. unreviewed' \subseteq 1 .. replies' /\ unreviewed' \subseteq unreviewed \cup {replies + 1}
    BY <1>1, <1>5
  <2> QED  BY <1>1, <1>5, <2>1, <2>2
<1> QED  BY <1>1, <1>8, <1>12, <1>13, <1>14, <1>15, <1>16, <1>17, StepKeeps

\* What is loaded is the wiki as it is; what is to be written are its links repaired.
LEMMA LoadKeeps ==
    ASSUME WritersInv, NEW w \in Writers, Load(w)
    PROVE  WritersInv'
<1> DEFINE fix == Mutated(job[w])
           todo == [p \in Pages |-> IF p \in fix THEN Repaired(live)[p] ELSE Absent]
<1>1. /\ job[w].kind \in Relinking /\ job[w].stage = "load" /\ Running(w)
      /\ UNCHANGED <<live, staged, listed, found, recorded, committed, review, disturbances>>
      /\ Becomes(w,
             IF fix = {} /\ job[w].kind = "backlinks" THEN [job[w] EXCEPT !.stage = "end"]
             ELSE IF fix = {} THEN [Seeing(w) EXCEPT !.stage = AfterLinks(job[w].kind)]
             ELSE [Seeing(w) EXCEPT !.stage = "relink", !.left = fix, !.relinked = fix,
                                    !.todo = todo])
  BY DEF Load, At, Running, wiki, derived, trail, Relinking
<1>2. ShapeInv /\ IsJob(job[w]) /\ job[w].todo \in Known
  BY DEF WritersInv, ShapeInv
<1>3. /\ disturbances \in Nat /\ Known' = Known /\ staged \in Known /\ live \in Known
      /\ replies \in Nat /\ unreviewed \subseteq 1 .. replies
      /\ replies' = replies /\ unreviewed' = unreviewed /\ astray' = astray /\ staging' = staging
  BY <1>1, <1>2 DEF ShapeInv, Known, review
<1>4. /\ fix \subseteq Pages /\ \A p \in Pages \ fix : Repaired(live)[p] = live[p]
      /\ \A p \in fix : p \in Present(live) /\ Repaired(live)[p].text = live[p].text
      /\ BothWays(Repaired(live)) /\ Repaired(live) \in Known
  <2>1. ASSUME NEW p \in fix PROVE p \in Present(live)
    BY <1>2, RepairedFacts DEF Mutated, Present
  <2> QED  BY <1>2, <2>1, RepairedFacts DEF Mutated
<1>5. todo \in Known
  <2>1. Nothing \in Known
    BY <1>2, RestIsJob
  <2> HIDE DEF fix
  <2> QED  BY <1>4, <2>1 DEF Nothing, Known
<1>6. job[w].kind \in {"ingest", "compound", "merge", "backlinks"} /\ job[w].relinked = {}
      /\ (job[w].kind = "backlinks" => job[w].mine = {})
  BY <1>1 DEF WritersInv, RouteInv, Relinking
<1>7. /\ IsJob(Seeing(w)) /\ Seeing(w).kind = job[w].kind /\ Seeing(w).alone = job[w].alone
      /\ Seeing(w).todo = job[w].todo /\ Seeing(w).left = job[w].left
      /\ Seeing(w).base = job[w].base /\ Seeing(w).skipped = job[w].skipped /\ Seeing(w).mine = job[w].mine /\ Seeing(w).relinked = {}
      /\ job[w].kind \in Sharing => Seeing(w).seen = live
  BY <1>2, <1>6 DEF Seeing, IsJob, Fields
<1> HIDE DEF fix, todo
<1>8. fix = {} => BothWays(live)
  <2>1. ASSUME fix = {} PROVE Repaired(live) = live
    BY <1>3, <1>4, <2>1 DEF Known
  <2> QED  BY <1>4, <2>1
<1>9. CASE fix = {}
  <2>1. PICK k : /\ Becomes(w, k) /\ IsJob(k) /\ k.todo = job[w].todo /\ k.kind = job[w].kind
                 /\ k.alone = job[w].alone /\ k.base = job[w].base /\ k.skipped = job[w].skipped
                 /\ k.mine = job[w].mine /\ k.relinked = {}
                 /\ k.stage = (IF job[w].kind = "backlinks" THEN "end"
                               ELSE AfterLinks(job[w].kind))
                 /\ k.stage = "index" => k.seen = live
    <3>1. CASE job[w].kind = "backlinks"
      <4> DEFINE k == [job[w] EXCEPT !.stage = "end"]
      <4>1. Becomes(w, k)
        BY <1>1, <1>9, <3>1
      <4>2. /\ IsJob(k) /\ k.todo = job[w].todo /\ k.kind = job[w].kind
            /\ k.alone = job[w].alone /\ k.base = job[w].base /\ k.skipped = job[w].skipped
            /\ k.mine = job[w].mine /\ k.relinked = {} /\ k.stage = "end"
        BY <1>2, <1>6 DEF IsJob, Fields
      <4> HIDE DEF k
      <4> QED  BY <3>1, <4>1, <4>2
    <3>2. CASE job[w].kind # "backlinks"
      <4> DEFINE k == [Seeing(w) EXCEPT !.stage = AfterLinks(job[w].kind)]
      <4>1. Becomes(w, k)
        BY <1>1, <1>9, <3>2
      <4>2. /\ IsJob(k) /\ k.todo = job[w].todo /\ k.kind = job[w].kind
            /\ k.alone = job[w].alone /\ k.base = job[w].base /\ k.skipped = job[w].skipped
            /\ k.mine = job[w].mine /\ k.relinked = {} /\ k.stage = AfterLinks(job[w].kind)
            /\ k.seen = Seeing(w).seen
        BY <1>7 DEF IsJob, Fields
      <4>3. k.stage = "index" => k.seen = live
        BY <1>7, <4>2 DEF AfterLinks
      <4> HIDE DEF k
      <4> QED  BY <3>2, <4>1, <4>2, <4>3
    <3> QED  BY <3>1, <3>2
  <2>2. job'[w] = k
    BY <1>2, <2>1, Turns
  <2>3. k.stage \in Route(k.kind) \cap Late
    BY <1>6, <2>1 DEF Route, AfterLinks, Late, Sharing
  <2>4. ASSUME Alone(w) PROVE Sure(job[w])'
    <3>1. Sure(job[w])
      BY <2>4 DEF WritersInv, AloneInv
    <3>2. Covered(job[w])'
      BY <1>1, <1>6, <2>1, <2>2, <3>1 DEF Sure, Covered, review
    <3>3. BothWays(live)'
      BY <1>1, <1>8, <1>9 DEF BothWays, Present
    <3>4. job'[w].kind = job[w].kind /\ job'[w].stage \in {"index", "record", "end"}
          /\ (job'[w].stage = "end" <=> job'[w].kind = "backlinks")
          /\ (job'[w].stage = "index" => job'[w].seen = live')
          /\ (job'[w].kind \in Sharing => job'[w].stage = "index")
          /\ job'[w].relinked = {} /\ (job'[w].kind = "backlinks" => job'[w].mine = {})
      BY <1>1, <1>6, <2>1, <2>2 DEF AfterLinks, Sharing
    <3> QED  BY <1>6, <3>2, <3>3, <3>4
             DEF Sure, Indexed, Noted, Sharing, Accountable
  <2> QED  BY <1>1, <1>2, <1>3, <2>1, <2>3, <2>4, CalmKeeps
<1>10. CASE fix # {}
  <2> DEFINE k == [Seeing(w) EXCEPT !.stage = "relink", !.left = fix, !.relinked = fix,
                                    !.todo = todo]
  <2>1. Becomes(w, k)
    BY <1>1, <1>10
  <2>2. /\ IsJob(k) /\ k.todo = todo /\ k.kind = job[w].kind /\ k.alone = job[w].alone
        /\ k.stage = "relink" /\ k.left = fix /\ k.relinked = fix
        /\ k.base = job[w].base /\ k.skipped = job[w].skipped /\ k.mine = job[w].mine
    BY <1>4, <1>7 DEF IsJob, Fields
  <2> HIDE DEF k
  <2>3. /\ job' = [v \in Writers |-> job'[v]]
        /\ job'[w] = k
        /\ \A v \in Writers \ {w} : job'[v] = job[v]
    BY <1>2, <2>1, Turns
  <2>4. ASSUME disturbances' = 0, NEW q \in Present(live), Unseen(q, live[q].text)
        PROVE  FALSE
    <3>1. Hides(w, q)
      BY <1>1, <2>4, OwnTexts
    <3> QED  BY <1>1, <3>1 DEF Hides
  <2>5. ASSUME disturbances' = 0, NEW p \in job'[w].left, Unseen(p, job[w].todo[p].text)'
        PROVE  FALSE
    <3>1. p \in fix /\ p \in Pages /\ job'[w].todo[p].text = live[p].text
      BY <1>4, <2>2, <2>3, <2>5 DEF todo
    <3> QED  BY <1>3, <1>4, <2>4, <2>5, <3>1 DEF Unseen
  <2>6. ASSUME Alone(w) PROVE Sure(job[w])'
    <3>1. Sure(job[w])
      BY <2>6 DEF WritersInv, AloneInv
    <3>2. Covered(job[w])'
      BY <1>1, <1>6, <2>2, <2>3, <3>1 DEF Sure, Covered, review
    <3>3. Goal(job[w])' = Repaired(live)
      <4>1. Goal(job[w])' = [p \in Pages |-> IF p \in fix THEN todo[p] ELSE live[p]]
        BY <1>1, <2>2, <2>3 DEF Goal
      <4>2. \A p \in Pages : (IF p \in fix THEN todo[p] ELSE live[p]) = Repaired(live)[p]
        BY <1>4 DEF todo
      <4>3. Repaired(live) = [p \in Pages |-> Repaired(live)[p]]
        BY <1>4 DEF Known
      <4> QED  BY <4>1, <4>2, <4>3
    <3>4. BothWays(Goal(job[w]))'
      BY <1>4, <3>3 DEF BothWays, Present
    <3> QED  BY <2>2, <2>3, <3>2, <3>4 DEF Sure, Linked, Indexed, Noted
  <2>7. /\ job'[w].kind = job[w].kind /\ job'[w].alone = job[w].alone
        /\ job'[w].stage \in Route(job'[w].kind) /\ job'[w].stage = "relink"
        /\ job'[w].left \subseteq job'[w].relinked /\ Put(job'[w])
    <3>1. \A p \in fix : todo[p] # Absent
      BY <1>2, <1>4, RepairedFacts DEF todo, Present
    <3> QED  BY <1>6, <2>2, <2>3, <3>1 DEF Route, Put
  <2>8. IsJob(job'[w]) /\ job'[w].todo \in Known' /\ live' \in Known' /\ staged' \in Known'
    BY <1>1, <1>3, <1>5, <2>2, <2>3
  <2>9. /\ replies' \in Nat /\ replies' >= replies
        /\ unreviewed' \subseteq 1 .. replies' /\ unreviewed' \subseteq unreviewed \cup {replies + 1}
        /\ disturbances' \in Nat /\ staging' = staging /\ astray \subseteq astray'
        /\ disturbances' = 0 => disturbances = 0
    BY <1>1, <1>3
  <2>10. disturbances' = 0 => \A p \in Present(live)' : Unseen(p, live[p].text)' => Hides(w, p)'
    BY <1>1, <1>3, <2>4 DEF Present, Unseen
  <2> QED  BY <1>1, <2>3, <2>5, <2>6, <2>7, <2>8, <2>9, <2>10, StepKeeps
<1> QED  BY <1>9, <1>10

\* One page more is as it was to become.
LEMMA RelinkKeeps ==
    ASSUME WritersInv, NEW w \in Writers, Relink(w)
    PROVE  WritersInv'
<1>1. PICK p \in job[w].left :
         LET j == [job[w] EXCEPT !.left = @ \ {p}]
         IN  /\ live' = [live EXCEPT ![p] = j.todo[p]]
             /\ Becomes(w, IF j.left # {} THEN j
                           ELSE [j EXCEPT !.stage = AfterLinks(j.kind), !.todo = Nothing])
  BY DEF Relink
<1> DEFINE left == job[w].left \ {p}
           j == [job[w] EXCEPT !.left = left]
           k == IF left # {} THEN j
                ELSE [j EXCEPT !.stage = AfterLinks(j.kind), !.todo = Nothing]
<1>2. /\ job[w].kind \in Relinking /\ job[w].stage = "relink" /\ Running(w)
      /\ UNCHANGED <<staged, review, disturbances>>
  BY DEF Relink, At, Running, Relinking
<1>3. ShapeInv /\ IsJob(job[w]) /\ job[w].todo \in Known /\ p \in Pages /\ p \in job[w].relinked
  BY <1>1, <1>2 DEF WritersInv, ShapeInv, RouteInv, IsJob
<1>4. /\ IsJob(j) /\ j.todo = job[w].todo /\ j.kind = job[w].kind /\ j.alone = job[w].alone
      /\ j.stage = "relink" /\ j.mine = job[w].mine /\ j.left = left
      /\ j.base = job[w].base /\ j.skipped = job[w].skipped /\ j.relinked = job[w].relinked
  <2>1. left \subseteq Pages
    BY <1>3 DEF IsJob
  <2> HIDE DEF left
  <2> QED  BY <1>2, <1>3, <2>1 DEF IsJob, Fields
<1>5. live' = [live EXCEPT ![p] = job[w].todo[p]] /\ Becomes(w, k)
  BY <1>1, <1>4
<1>6. /\ IsJob(k) /\ k.kind = job[w].kind /\ k.alone = job[w].alone
      /\ k.left = left /\ k.base = job[w].base /\ k.skipped = job[w].skipped /\ k.mine = job[w].mine
      /\ k.relinked = job[w].relinked
      /\ left # {} => k.stage = "relink" /\ k.todo = job[w].todo
      /\ left = {} => k.stage = AfterLinks(job[w].kind) /\ k.todo = Nothing
  <2> HIDE DEF j, left
  <2> QED  BY <1>4 DEF IsJob, Fields
<1>7. /\ job' = [v \in Writers |-> job'[v]]
      /\ job'[w] = k
      /\ \A v \in Writers \ {w} : job'[v] = job[v]
  <2> HIDE DEF k
  <2> QED  BY <1>3, <1>5, Turns
<1> HIDE DEF k, j
<1>8. /\ replies' = replies /\ unreviewed' = unreviewed /\ astray' = astray /\ staging' = staging /\ staged' = staged
      /\ disturbances' = disturbances /\ disturbances \in Nat /\ Known' = Known
      /\ replies \in Nat /\ unreviewed \subseteq 1 .. replies /\ staged \in Known /\ live \in Known
      /\ Nothing \in Known
  BY <1>2, <1>3, RestIsJob DEF review, ShapeInv, Known
<1>9. /\ live' \in Known /\ live'[p] = job[w].todo[p]
      /\ \A q \in Pages \ {p} : live'[q] = live[q]
  BY <1>3, <1>5, <1>8 DEF Known
<1>10. ASSUME disturbances = 0
       PROVE  /\ \A q \in Present(live) : ~Unseen(q, live[q].text)
              /\ \A q \in job[w].left : ~Unseen(q, job[w].todo[q].text)
  <2>1. \A q \in Present(live) : ~Unseen(q, live[q].text)
    BY <1>2, <1>10, OwnTexts DEF Hides
  <2> QED  BY <1>2, <1>10, <2>1 DEF WritersInv, ReviewInv
<1>11. disturbances' = 0 =>
         /\ \A q \in Present(live)' : Unseen(q, live[q].text)' => Hides(w, q)'
         /\ job'[w].stage \in {"edit", "relink"} =>
               \A q \in job'[w].left : Unseen(q, job[w].todo[q].text)' =>
                   job'[w].stage = "edit" /\ job'[w].kind = "ingest" /\ staging
  <2> SUFFICES ASSUME disturbances' = 0
               PROVE  /\ \A q \in Present(live)' : ~Unseen(q, live[q].text)'
                      /\ \A q \in job'[w].left : ~Unseen(q, job[w].todo[q].text)'
    OBVIOUS
  <2>1. \A q \in Present(live)' : ~Unseen(q, live[q].text)'
    BY <1>1, <1>8, <1>9, <1>10 DEF Present, Unseen
  <2>2. \A q \in job'[w].left : ~Unseen(q, job[w].todo[q].text)'
    BY <1>6, <1>7, <1>8, <1>10 DEF Unseen
  <2> QED  BY <2>1, <2>2
<1>12. ASSUME Alone(w) PROVE Sure(job[w])'
  <2>1. Sure(job[w])
    BY <1>12 DEF WritersInv, AloneInv
  <2>2. Covered(job[w])'
    <3>1. job[w].todo[p] # Absent
      BY <1>1, <1>2 DEF WritersInv, RouteInv, Put
    <3> QED  BY <1>3, <1>6, <1>7, <1>8, <1>9, <2>1, <3>1 DEF Sure, Covered
  <2>3. left # {} => Goal(job[w])' = Goal(job[w])
    <3>1. Goal(job[w])' = [q \in Pages |-> IF q \in job'[w].left THEN job'[w].todo[q] ELSE live'[q]]
      BY DEF Goal
    <3> QED  BY <1>6, <1>7, <1>9, <3>1 DEF Goal
  <2>4. left = {} => live' = Goal(job[w])
    <3>1. ASSUME left = {} PROVE \A q \in Pages : live'[q] = Goal(job[w])[q]
      BY <1>1, <1>9, <3>1 DEF Goal
    <3> QED  BY <1>9, <3>1 DEF Goal, Known
  <2>5. BothWays(Goal(job[w]))
    BY <1>2, <2>1 DEF Sure
  <2>6. left # {} => BothWays(Goal(job[w]))'
    BY <2>3, <2>5 DEF BothWays, Present
  <2>7. left = {} => BothWays(live)'
    BY <2>4, <2>5 DEF BothWays, Present
  <2>8. /\ job'[w].kind = job[w].kind /\ job'[w].stage \in {"relink", "index", "record"}
        /\ job'[w].stage = "relink" <=> left # {}
        /\ job'[w].stage = "record" => job'[w].kind \notin Sharing
        /\ job'[w].relinked # {}
    BY <1>3, <1>6, <1>7 DEF AfterLinks
  <2> QED  BY <1>2, <2>2, <2>6, <2>7, <2>8 DEF Sure, Linked, Indexed, Noted, Relinking, Sharing
<1>13. /\ job'[w].kind = job[w].kind /\ job'[w].alone = job[w].alone
       /\ job'[w].stage \in Route(job'[w].kind) \cap {"relink", "index", "record"}
       /\ job'[w].left \subseteq job'[w].relinked
       /\ job'[w].stage = "relink" => Put(job'[w])
  <2>1. job[w].left \subseteq job[w].relinked /\ Put(job[w])
    BY <1>2 DEF WritersInv, RouteInv
  <2>2. job'[w].stage = "relink" => job'[w].left \subseteq job[w].left /\ job'[w].todo = job[w].todo
    BY <1>2, <1>6, <1>7 DEF AfterLinks
  <2> QED  BY <1>2, <1>6, <1>7, <2>1, <2>2 DEF Route, AfterLinks, Relinking, Sharing, Put
<1>14. /\ IsJob(job'[w]) /\ job'[w].todo \in Known' /\ live' \in Known' /\ staged' \in Known'
       /\ replies' \in Nat /\ replies' >= replies
       /\ unreviewed' \subseteq 1 .. replies' /\ unreviewed' \subseteq unreviewed \cup {replies + 1}
  BY <1>3, <1>6, <1>7, <1>8, <1>9
<1> QED  BY <1>2, <1>7, <1>8, <1>11, <1>12, <1>13, <1>14, StepKeeps

LEMMA EditKeeps ==
    ASSUME WritersInv, NEW w \in Writers, Edit(w)
    PROVE  WritersInv'
<1>1. PICK p \in job[w].left :
         LET j == [job[w] EXCEPT !.left = @ \ {p}]
         IN  /\ live' = [live EXCEPT ![p] = j.todo[p]]
             /\ Becomes(w, IF j.left # {} THEN j
                           ELSE IF j.kind = "compound"
                           THEN [j EXCEPT !.stage = "load", !.todo = Nothing]
                           ELSE [j EXCEPT !.stage = "reconcile", !.todo = Nothing,
                                          !.left = j.mine])
  BY DEF Edit
<1> DEFINE left == job[w].left \ {p}
           j == [job[w] EXCEPT !.left = left]
           k == IF left # {} THEN j
                ELSE IF j.kind = "compound"
                THEN [j EXCEPT !.stage = "load", !.todo = Nothing]
                ELSE [j EXCEPT !.stage = "reconcile", !.todo = Nothing, !.left = j.mine]
<1>2. /\ job[w].stage = "edit" /\ Running(w)
      /\ UNCHANGED <<staged, review, disturbances>>
  BY DEF Edit
<1>3. /\ ShapeInv /\ IsJob(job[w]) /\ job[w].todo \in Known /\ p \in Pages /\ p \in job[w].mine
      /\ job[w].left \subseteq job[w].mine
  BY <1>1, <1>2 DEF WritersInv, ShapeInv, RouteInv, IsJob
<1>4. /\ IsJob(j) /\ j.todo = job[w].todo /\ j.kind = job[w].kind /\ j.alone = job[w].alone
      /\ j.stage = "edit" /\ j.mine = job[w].mine /\ j.left = left
      /\ j.base = job[w].base /\ j.skipped = job[w].skipped /\ j.relinked = job[w].relinked
  <2>1. left \subseteq Pages
    BY <1>3 DEF IsJob
  <2> HIDE DEF left
  <2> QED  BY <1>2, <1>3, <2>1 DEF IsJob, Fields
<1>5. live' = [live EXCEPT ![p] = job[w].todo[p]] /\ Becomes(w, k)
  BY <1>1, <1>4
<1>6. /\ IsJob(k) /\ k.kind = job[w].kind /\ k.alone = job[w].alone
      /\ k.base = job[w].base /\ k.skipped = job[w].skipped /\ k.mine = job[w].mine /\ k.relinked = job[w].relinked
      /\ left # {} => k.stage = "edit" /\ k.todo = job[w].todo /\ k.left = left
      /\ left = {} => /\ k.todo = Nothing
                      /\ IF job[w].kind = "compound" THEN k.stage = "load"
                         ELSE k.stage = "reconcile" /\ k.left = job[w].mine
  <2> HIDE DEF j, left
  <2> QED  BY <1>4 DEF IsJob, Fields
<1>7. /\ job' = [v \in Writers |-> job'[v]]
      /\ job'[w] = k
      /\ \A v \in Writers \ {w} : job'[v] = job[v]
  <2> HIDE DEF k
  <2> QED  BY <1>3, <1>5, Turns
<1> HIDE DEF k, j
<1>8. /\ replies' = replies /\ unreviewed' = unreviewed /\ astray' = astray /\ staging' = staging /\ staged' = staged
      /\ disturbances' = disturbances /\ disturbances \in Nat /\ Known' = Known
      /\ replies \in Nat /\ unreviewed \subseteq 1 .. replies /\ staged \in Known /\ live \in Known
      /\ Nothing \in Known
  BY <1>2, <1>3, RestIsJob DEF review, ShapeInv, Known
<1>9. /\ live' \in Known /\ live'[p] = job[w].todo[p]
      /\ \A q \in Pages \ {p} : live'[q] = live[q]
  BY <1>3, <1>5, <1>8 DEF Known
<1>10. job[w].kind \in {"ingest", "compound", "heal", "merge"} /\ job[w].relinked = {}
  BY <1>2 DEF WritersInv, RouteInv, Route, Kinds
<1>11. ASSUME disturbances' = 0, NEW q \in Present(live)', Unseen(q, live[q].text)'
       PROVE  Hides(w, q)'
  <2>1. job[w].kind = "ingest" /\ staging /\ q \in job[w].mine
    <3>1. CASE q = p
      <4>1. Unseen(p, job[w].todo[p].text)
        BY <1>8, <1>9, <1>11, <3>1 DEF Unseen
      <4>2. job[w].kind = "ingest" /\ staging
        BY <1>1, <1>2, <1>8, <1>11, <4>1 DEF WritersInv, ReviewInv
      <4> QED  BY <1>3, <3>1, <4>2
    <3>2. CASE q # p
      <4>1. q \in Present(live) /\ Unseen(q, live[q].text)
        BY <1>8, <1>9, <1>11, <3>2 DEF Present, Unseen
      <4>2. Hides(w, q)
        BY <1>2, <1>8, <1>11, <4>1, OwnTexts
      <4> QED  BY <1>2, <4>2 DEF Hides
    <3> QED  BY <3>1, <3>2
  <2> QED  BY <1>6, <1>7, <1>8, <2>1 DEF Hides
<1>12. ASSUME disturbances' = 0, job'[w].stage \in {"edit", "relink"},
              NEW q \in job'[w].left, Unseen(q, job[w].todo[q].text)'
       PROVE  job'[w].stage = "edit" /\ job'[w].kind = "ingest" /\ staging
  <2>1. left # {}
    BY <1>6, <1>7, <1>12
  <2>2. q \in job[w].left /\ Unseen(q, job[w].todo[q].text)
    BY <1>6, <1>7, <1>8, <1>12, <2>1 DEF Unseen
  <2>3. job[w].kind = "ingest" /\ staging
    BY <1>2, <1>8, <1>12, <2>2 DEF WritersInv, ReviewInv
  <2> QED  BY <1>6, <1>7, <2>1, <2>3
<1>13. ASSUME Alone(w) PROVE Sure(job[w])'
  <2>1. Sure(job[w])
    BY <1>13 DEF WritersInv, AloneInv
  <2>2. Covered(job[w])'
    <3>1. job[w].todo[p] # Absent
      BY <1>1, <1>2 DEF WritersInv, RouteInv, Put
    <3> QED  BY <1>3, <1>6, <1>7, <1>8, <1>9, <2>1, <3>1 DEF Sure, Covered
  <2>3. job'[w].stage \in {"edit", "load", "reconcile"}
    BY <1>6, <1>7
  <2> QED  BY <2>2, <2>3 DEF Sure, Linked, Indexed, Noted
<1>14. /\ job'[w].kind = job[w].kind /\ job'[w].alone = job[w].alone
       /\ job'[w].stage \in Route(job'[w].kind) \cap {"edit", "load", "reconcile"}
       /\ job'[w].stage = "edit" => job'[w].left \subseteq job'[w].mine
       /\ job'[w].relinked = {} /\ job'[w].kind # "backlinks"
       /\ job'[w].stage = "edit" => Put(job'[w])
  <2>1. Put(job[w])
    BY <1>2 DEF WritersInv, RouteInv
  <2>2. job'[w].stage = "edit" => job'[w].left \subseteq job[w].left /\ job'[w].todo = job[w].todo
    BY <1>2, <1>6, <1>7
  <2> QED  BY <1>3, <1>6, <1>7, <1>10, <2>1, <2>2 DEF Route, Put
<1>15. /\ IsJob(job'[w]) /\ job'[w].todo \in Known' /\ live' \in Known' /\ staged' \in Known'
       /\ replies' \in Nat /\ replies' >= replies
       /\ unreviewed' \subseteq 1 .. replies' /\ unreviewed' \subseteq unreviewed \cup {replies + 1}
  BY <1>3, <1>6, <1>7, <1>8, <1>9
<1> QED  BY <1>2, <1>7, <1>8, <1>11, <1>12, <1>13, <1>14, <1>15, StepKeeps

\* A page to be reviewed is taken out of the wiki when the pass comes to it, or is
\* remembered as astray.
LEMMA ReconcileKeeps ==
    ASSUME WritersInv, NEW w \in Writers, Reconcile(w) \/ ReconcileFails(w)
    PROVE  WritersInv'
<1>1. PICK p \in job[w].left, wrote \in BOOLEAN, skipped \in BOOLEAN :
         /\ Reconciled(w, p, wrote, skipped)
         /\ staged' \in {staged, Candidate(p, live[p])}
         /\ live' = live \/ (Redirects(w) /\ live' = Unlinked(p))
         /\ live[p] = Absent \/ wrote \/ skipped \/ (Redirects(w) /\ live' = Unlinked(p))
         /\ Redirects(w) /\ live' = live /\ live[p] # Absent => <<p, live[p].text>> \in astray'
  <2>1. CASE Reconcile(w)
    <3>1. PICK p \in job[w].left :
             LET redirect == Redirects(w) /\ live[p] # Absent
             IN  /\ live' = IF redirect THEN Unlinked(p) ELSE live
                 /\ staged' = IF redirect THEN Candidate(p, live[p]) ELSE staged
                 /\ Reconciled(w, p, live[p] # Absent /\ ~redirect, FALSE)
      BY <2>1 DEF Reconcile
    <3> DEFINE wrote == live[p] # Absent /\ ~Redirects(w)
    <3>2. wrote = (live[p] # Absent /\ ~(Redirects(w) /\ live[p] # Absent))
      OBVIOUS
    <3>3. Reconciled(w, p, wrote, FALSE) /\ wrote \in BOOLEAN
      BY <3>1, <3>2
    <3>4. live[p] = Absent \/ wrote \/ (Redirects(w) /\ live' = Unlinked(p))
      BY <3>1
    <3>5. Redirects(w) /\ live[p] # Absent => live' = Unlinked(p)
      BY <3>1
    <3>6. live[p] # Absent => Unlinked(p) # live
      <4>1. p \in Pages /\ live \in Known
        BY DEF WritersInv, ShapeInv, IsJob
      <4>2. Unlinked(p)[p] = Absent
        BY <4>1 DEF Unlinked, Known
      <4> QED  BY <4>2
    <3> HIDE DEF wrote
    <3> QED  BY <3>1, <3>3, <3>4, <3>5, <3>6
  <2>2. CASE ReconcileFails(w)
    <3>1. PICK p \in job[w].left :
             /\ live[p] # Absent
             /\ staged' \in {staged} \cup IF Redirects(w) THEN {Candidate(p, live[p])} ELSE {}
             /\ astray' = IF Redirects(w) THEN astray \cup {<<p, live[p].text>>} ELSE astray
             /\ Reconciled(w, p, FALSE, TRUE)
      BY <2>2 DEF ReconcileFails
    <3>2. live' = live
      BY <2>2 DEF ReconcileFails
    <3> QED  BY <3>1, <3>2
  <2> QED  BY <2>1, <2>2
<1>a. Redirects(w) <=> job[w].kind = "ingest" /\ staging
  BY DEF Redirects
<1> DEFINE left == job[w].left \ {p}
           mine == IF wrote THEN job[w].mine ELSE job[w].mine \ {p}
           missed == IF skipped THEN job[w].skipped \cup {p} ELSE job[w].skipped
           j == [job[w] EXCEPT !.left = left, !.mine = mine, !.skipped = missed]
           k == IF left # {} THEN j
                ELSE IF job[w].kind = "heal" THEN [j EXCEPT !.stage = "record"]
                ELSE [j EXCEPT !.stage = "load"]
<1>2. /\ job[w].stage = "reconcile" /\ Running(w)
      /\ replies' = replies /\ unreviewed' = unreviewed /\ staging' = staging
      /\ disturbances' = disturbances /\ astray \subseteq astray'
  BY DEF Reconcile, ReconcileFails, review
<1>3. ShapeInv /\ IsJob(job[w]) /\ job[w].todo \in Known /\ p \in Pages
  BY <1>1 DEF WritersInv, ShapeInv, IsJob
<1>4. /\ IsJob(j) /\ j.todo = job[w].todo /\ j.kind = job[w].kind /\ j.alone = job[w].alone
      /\ j.stage = "reconcile" /\ j.mine = mine /\ j.left = left /\ j.skipped = missed
      /\ j.base = job[w].base /\ j.relinked = job[w].relinked
  <2>1. left \subseteq Pages /\ mine \subseteq Pages
    BY <1>3 DEF IsJob
  <2> HIDE DEF left, mine, missed
  <2> QED  BY <1>2, <1>3, <2>1 DEF IsJob, Fields
<1>5. \/ Becomes(w, k)
      \/ Becomes(w, Rest) /\ job[w].kind # "ingest"
  <2> HIDE DEF mine, left, missed
  <2>1. j.left = left /\ j.mine = mine /\ j.kind = job[w].kind
    BY <1>4
  <2> QED  BY <1>1, <2>1 DEF mine, left, missed, Reconciled
<1>6. /\ disturbances \in Nat /\ Known' = Known
      /\ replies \in Nat /\ unreviewed \subseteq 1 .. replies /\ staged \in Known /\ live \in Known
      /\ Nothing \in Known
  BY <1>2, <1>3, RestIsJob DEF ShapeInv, Known
<1>7. staged' \in Known
  BY <1>1, <1>3, <1>6, CandidateIsKnown
<1>8. /\ live' \in Known
      /\ live' = live \/ (Redirects(w) /\ live'[p] = Absent)
      /\ \A q \in Pages \ {p} : live'[q] = live[q]
  <2>1. Absent \in [text : 0 .. replies, related : SUBSET Pages, orphaned : BOOLEAN]
    BY <1>6 DEF Absent
  <2>2. /\ Unlinked(p) \in Known /\ Unlinked(p)[p] = Absent
        /\ \A q \in Pages \ {p} : Unlinked(p)[q] = live[q]
    BY <1>3, <1>6, <2>1 DEF Known, Unlinked
  <2>3. CASE live' = live
    BY <1>6, <2>3
  <2>4. CASE Redirects(w) /\ live' = Unlinked(p)
    BY <1>6, <2>2, <2>4
  <2> QED
    <3>1. live' = live \/ (Redirects(w) /\ live' = Unlinked(p))
      BY <1>1
    <3> QED  BY <2>3, <2>4, <3>1
<1>9. CASE Becomes(w, Rest) /\ job[w].kind # "ingest"
  <2>1. live' = live /\ astray' = astray
    BY <1>1, <1>9, <1>a DEF Reconcile, ReconcileFails, review
  <2> QED  BY <1>2, <1>6, <1>7, <1>9, <2>1, LeavingKeeps DEF review
<1>10. CASE Becomes(w, k)
  <2>1. /\ IsJob(k) /\ k.todo = job[w].todo /\ k.kind = job[w].kind /\ k.alone = job[w].alone
        /\ k.left = left /\ k.mine = mine /\ k.skipped = missed
        /\ k.base = job[w].base /\ k.relinked = job[w].relinked
        /\ k.stage = (IF left # {} THEN "reconcile"
                      ELSE IF job[w].kind = "heal" THEN "record" ELSE "load")
    <3> HIDE DEF j, left, mine, missed
    <3> QED  BY <1>4 DEF IsJob, Fields
  <2>2. /\ job' = [v \in Writers |-> job'[v]]
        /\ job'[w] = k
        /\ \A v \in Writers \ {w} : job'[v] = job[v]
    <3> HIDE DEF k
    <3> QED  BY <1>3, <1>10, Turns
  <2> HIDE DEF k, j
  <2>3. job[w].kind \in {"ingest", "heal", "merge"} /\ job[w].relinked = {}
    BY <1>2 DEF WritersInv, RouteInv, Route, Kinds
  <2>4. ASSUME disturbances' = 0, NEW q \in Present(live)', Unseen(q, live[q].text)'
        PROVE  Hides(w, q)'
    <3>1. q \in Present(live) /\ live'[q] = live[q] /\ Unseen(q, live[q].text)
      BY <1>2, <1>3, <1>8, <2>4 DEF Present, Unseen
    <3>2. Hides(w, q)
      BY <1>2, <1>6, <2>4, <3>1, OwnTexts
    <3>3. job[w].kind = "ingest" /\ staging /\ q \in job[w].left
      BY <1>2, <3>2 DEF Hides
    <3>4. q # p
      BY <1>1, <1>8, <1>a, <2>4, <3>1, <3>3 DEF Present, Unseen
    <3>5. q \in left
      BY <3>3, <3>4
    <3> QED  BY <1>2, <2>1, <2>2, <3>3, <3>5 DEF Hides
  <2>5. ASSUME Alone(w) PROVE Sure(job[w])'
    <3>1. Sure(job[w])
      BY <2>5 DEF WritersInv, AloneInv
    <3>2. Covered(job[w])'
      <4> SUFFICES ASSUME NEW q \in Pages, live'[q] # job[w].base[q]
                   PROVE  IF live'[q] = Absent THEN job[w].kind = "ingest" /\ staging
                          ELSE q \in mine \cup missed
        BY <1>2, <2>1, <2>2, <2>3 DEF Covered
      <4>1. CASE live'[q] = Absent
        <5>1. CASE live[q] = Absent
          BY <3>1, <4>1, <5>1 DEF Sure, Covered
        <5>2. CASE live[q] # Absent
          BY <1>8, <1>a, <4>1, <5>2
        <5> QED  BY <5>1, <5>2
      <4>2. CASE live'[q] # Absent
        <5>1. live'[q] = live[q]
          BY <1>8, <4>2
        <5>2. q \in job[w].mine \cup job[w].skipped
          BY <2>3, <3>1, <4>2, <5>1 DEF Sure, Covered
        <5>3. q = p => wrote \/ skipped
          <6>1. live' = Unlinked(p) => live'[p] = Absent
            BY <1>3, <1>6 DEF Unlinked, Known
          <6>2. \/ live[p] = Absent \/ wrote \/ skipped \/ live' = Unlinked(p)
            BY <1>1
          <6> QED  BY <4>2, <5>1, <6>1, <6>2
        <5> QED  BY <4>2, <5>2, <5>3
      <4> QED  BY <4>1, <4>2
    <3>3. /\ job'[w].kind = job[w].kind /\ job'[w].stage \in {"reconcile", "load", "record"}
          /\ job'[w].stage = "record" => job'[w].kind = "heal"
      BY <2>1, <2>2
    <3> QED  BY <3>2, <3>3 DEF Sure, Linked, Indexed, Noted, Relinking
  <2>6. /\ job'[w].kind = job[w].kind /\ job'[w].alone = job[w].alone
        /\ job'[w].stage \in Route(job'[w].kind) \cap {"reconcile", "load", "record"}
        /\ job'[w].relinked = {} /\ job'[w].kind # "backlinks"
    BY <2>1, <2>2, <2>3 DEF Route
  <2>7. /\ IsJob(job'[w]) /\ job'[w].todo \in Known' /\ live' \in Known' /\ staged' \in Known'
        /\ replies' \in Nat /\ replies' >= replies
        /\ unreviewed' \subseteq 1 .. replies' /\ unreviewed' \subseteq unreviewed \cup {replies + 1}
    BY <1>2, <1>3, <1>6, <1>7, <1>8, <2>1, <2>2
  <2> QED  BY <1>2, <1>6, <2>2, <2>4, <2>5, <2>6, <2>7, StepKeeps
<1> QED  BY <1>5, <1>9, <1>10

\* Nothing is promised of the indexes while no pass runs.
LEMMA RestartKeeps ==
    ASSUME WritersInv, Restart
    PROVE  WritersInv'
<1>1. /\ live' = live /\ staged' = staged /\ job' = job /\ replies' = replies
      /\ unreviewed' = unreviewed /\ astray' = astray /\ disturbances' = disturbances
      /\ \A w \in Writers : ~Running(w) /\ job[w].kind # "ingest"
  BY DEF Restart, wiki, Running
<1>2. ShapeInv' /\ RouteInv' /\ ApartInv'
  BY <1>1 DEF WritersInv, ShapeInv, RouteInv, ApartInv, Known, Alone, Others, Running
<1>3. AloneInv'
  BY <1>1 DEF AloneInv, Alone, Running
<1>4. ReviewInv'
  <2>1. \A w \in Writers, p \in Pages : ~Hides(w, p)
    BY <1>1 DEF Hides, Running
  <2>2. disturbances = 0 =>
          /\ \A p \in Present(live) : ~Unseen(p, live[p].text)
          /\ \A w \in Writers : job[w].stage \in {"edit", "relink"} =>
                \A p \in job[w].left : ~Unseen(p, job[w].todo[p].text)
    BY <1>1, <2>1 DEF WritersInv, ReviewInv, Present
  <2> QED  BY <1>1, <2>2 DEF ReviewInv, Present, Unseen
<1> QED  BY <1>2, <1>3, <1>4 DEF WritersInv

LEMMA PassIsJob ==
    ASSUME ShapeInv, NEW kind, NEW stage
    PROVE  /\ IsJob(Pass(kind, stage)) /\ Pass(kind, stage).todo \in Known
           /\ Pass(kind, stage).kind = kind /\ Pass(kind, stage).stage = stage
           /\ Pass(kind, stage).mine = {} /\ Pass(kind, stage).relinked = {}
  BY RestIsJob DEF Pass, Rest, IsJob, Fields

LEMMA AskKeeps ==
    ASSUME WritersInv, NEW w \in Writers, Ask(w)
    PROVE  WritersInv'
<1>1. ShapeInv /\ UNCHANGED <<wiki, derived, trail, review>>
  BY DEF WritersInv, Ask
<1>2. ASSUME NEW kind \in {"ingest", "heal", "merge", "compound"}, Begin(w, Pass(kind, "agent"))
      PROVE  WritersInv'
  <2> DEFINE pass == Pass(kind, "agent")
  <2>1. /\ IsJob(pass) /\ pass.todo \in Known /\ pass.kind = kind /\ pass.stage = "agent"
        /\ pass.mine = {} /\ pass.relinked = {}
    BY <1>1, PassIsJob
  <2> HIDE DEF pass
  <2>2. pass.kind \in Kinds \ {"none"} /\ pass.stage \in Route(pass.kind)
    BY <2>1 DEF Kinds, Route
  <2> QED  BY <1>1, <1>2, <2>1, <2>2, BeginKeeps DEF pass
<1> QED  BY <1>2 DEF Ask

LEMMA RepairLinksKeeps ==
    ASSUME WritersInv, NEW w \in Writers, RepairLinks(w)
    PROVE  WritersInv'
<1> DEFINE pass == Pass("backlinks", "load")
<1>1. ShapeInv /\ UNCHANGED <<wiki, derived, trail, review>> /\ Begin(w, pass)
  BY DEF WritersInv, RepairLinks
<1>2. /\ IsJob(pass) /\ pass.todo \in Known /\ pass.kind = "backlinks" /\ pass.stage = "load"
      /\ pass.mine = {} /\ pass.relinked = {}
  BY <1>1, PassIsJob
<1> HIDE DEF pass
<1>3. pass.kind \in Kinds \ {"none"} /\ pass.stage \in Route(pass.kind)
  BY <1>2 DEF Kinds, Route
<1> QED  BY <1>1, <1>2, <1>3, BeginKeeps

LEMMA ArchiveKeeps ==
    ASSUME WritersInv, named \subseteq Pages, NEW w \in Writers, Archive(w)
    PROVE  WritersInv'
<1>1. PICK hit \in SUBSET named : Begin(w, [Pass("archive", "mark") EXCEPT !.left = hit])
  BY DEF Archive
<1> DEFINE rest == Pass("archive", "mark")
           pass == [rest EXCEPT !.left = hit]
<1>2. ShapeInv /\ UNCHANGED <<wiki, derived, trail, review>>
  BY DEF WritersInv, Archive
<1>3. /\ IsJob(rest) /\ rest.todo \in Known /\ rest.kind = "archive" /\ rest.stage = "mark"
      /\ rest.mine = {} /\ rest.relinked = {}
  BY <1>2, PassIsJob
<1> HIDE DEF rest
<1>4. /\ IsJob(pass) /\ pass.todo \in Known /\ pass.kind = "archive" /\ pass.stage = "mark"
      /\ pass.mine = {} /\ pass.relinked = {}
  BY <1>3 DEF IsJob, Fields
<1>5. pass.kind \in Kinds \ {"none"} /\ pass.stage \in Route(pass.kind)
  <2> HIDE DEF pass
  <2> QED  BY <1>4 DEF Kinds, Route
<1>6. Begin(w, pass)
  BY <1>1 DEF rest
<1> HIDE DEF pass
<1> QED  BY <1>2, <1>4, <1>5, <1>6, BeginKeeps

LEMMA DecideKeeps ==
    ASSUME WritersInv, NEW w \in Writers, Decide(w)
    PROVE  WritersInv'
<1>1. PICK p \in Present(staged), k \in {"approve", "reject"} :
         Begin(w, [Pass(k, IF k = "approve" THEN "place" ELSE "drop") EXCEPT
                     !.left = {p},
                     !.todo = [Nothing EXCEPT ![p] = staged[p]]])
  BY DEF Decide
<1> DEFINE stage == IF k = "approve" THEN "place" ELSE "drop"
           todo == [Nothing EXCEPT ![p] = staged[p]]
           rest == Pass(k, stage)
           pass == [rest EXCEPT !.left = {p}, !.todo = todo]
<1>2. ShapeInv /\ UNCHANGED <<wiki, derived, trail, review>>
  BY DEF WritersInv, Decide
<1>3. /\ IsJob(rest) /\ rest.todo \in Known /\ rest.kind = k /\ rest.stage = stage
      /\ rest.mine = {} /\ rest.relinked = {}
  BY <1>2, PassIsJob
<1>4. p \in Pages /\ todo \in Known
  <2>1. p \in Pages /\ Nothing \in Known /\ staged \in Known
    BY <1>2, RestIsJob DEF Present, ShapeInv
  <2> QED  BY <2>1 DEF Known
<1>5. Begin(w, pass)
  BY <1>1
<1>b. todo[p] # Absent
  BY DEF Present, Nothing
<1> HIDE DEF rest, todo
<1>6. /\ Put(pass) /\ IsJob(pass) /\ pass.todo \in Known /\ pass.kind = k /\ pass.stage = stage
      /\ pass.mine = {} /\ pass.relinked = {}
  BY <1>3, <1>4, <1>b DEF IsJob, Fields, Put
<1> HIDE DEF pass
<1>7. /\ pass.kind \in Kinds \ {"none"} /\ pass.stage \in Route(pass.kind)
      /\ pass.stage \in {"place", "drop"}
  BY <1>6 DEF Kinds, Route
<1> QED  BY <1>2, <1>5, <1>6, <1>7, BeginKeeps

-----------------------------------------------------------------------------
\* Records only name pages.
LEMMA NamedKeeps ==
    ASSUME named \subseteq Pages, [Next]_vars
    PROVE  named' \subseteq Pages
<1>1. ASSUME NEW w \in Writers, Record(w)
      PROVE  named' \subseteq Pages
  BY <1>1 DEF Record, Present
<1>2. CASE \E w \in Writers : Record(w)
  BY <1>1, <1>2
<1>3. CASE ~\E w \in Writers : Record(w)
  <2>1. named' = named
    BY <1>3 DEF Next, vars, Ask, Reply, NoReply, Edit, Reconcile, ReconcileFails, RepairLinks, Load, Relink,
                Index, Archive, Mark, Decide, Place, Drop, Hash, RecordFails, Commit,
                CommitFails, End, Abort, Restart
  <2> QED  BY <2>1
<1> QED  BY <1>2, <1>3

LEMMA InitEstablishes == Init => WritersInv /\ named \subseteq Pages
<1> SUFFICES ASSUME Init PROVE WritersInv /\ named \subseteq Pages
  OBVIOUS
<1>1. Nothing \in Known
  BY DEF Init, Nothing, Absent, Known
<1>2. IsJob(Rest) /\ Rest.todo = Nothing /\ Rest.kind = "none" /\ Rest.stage = "end"
  BY DEF Rest, IsJob, Fields
<1>3. \A w \in Writers : job[w] = Rest /\ ~Running(w)
  BY <1>2 DEF Init, Running
<1>4. ShapeInv
  BY <1>1, <1>2, <1>3 DEF Init, ShapeInv
<1>5. RouteInv /\ ApartInv /\ AloneInv
  BY <1>3 DEF RouteInv, ApartInv, AloneInv, Alone
<1>6. ReviewInv
  BY <1>2, <1>3 DEF Init, ReviewInv, Unseen
<1> QED  BY <1>4, <1>5, <1>6 DEF Init, WritersInv

LEMMA NextKeeps ==
    ASSUME WritersInv, named \subseteq Pages, [Next]_vars
    PROVE  WritersInv'
<1>1. ASSUME NEW w \in Writers, Ask(w) \/ RepairLinks(w) \/ Archive(w) \/ Decide(w)
      PROVE  WritersInv'
  BY <1>1, AskKeeps, RepairLinksKeeps, ArchiveKeeps, DecideKeeps
<1>2. ASSUME NEW w \in Writers, Reply(w) \/ Edit(w) \/ Reconcile(w) \/ ReconcileFails(w)
                               \/ Mark(w) \/ Place(w) \/ Drop(w)
      PROVE  WritersInv'
  BY <1>2, ReplyKeeps, EditKeeps, ReconcileKeeps, MarkKeeps, PlaceKeeps, DropKeeps
<1>3. ASSUME NEW w \in Writers, Load(w) \/ Relink(w) \/ Index(w) \/ Hash(w)
      PROVE  WritersInv'
  BY <1>3, LoadKeeps, RelinkKeeps, IndexKeeps, HashKeeps
<1>4. ASSUME NEW w \in Writers, Record(w) \/ RecordFails(w) \/ Commit(w) \/ CommitFails(w)
      PROVE  WritersInv'
  BY <1>4, RecordKeeps, CommitKeeps
<1>5. ASSUME NEW w \in Writers, NoReply(w) \/ End(w) \/ Abort(w)
      PROVE  WritersInv'
  BY <1>5, NoReplyKeeps
<1>6. CASE Restart
  BY <1>6, RestartKeeps
<1>7. CASE UNCHANGED vars
  <2>1. UNCHANGED <<live, staged, listed, found, recorded, committed, staging, replies,
                    unreviewed, astray, job, disturbances>>
    BY <1>7 DEF vars, wiki, derived, trail, review
  <2>2. ShapeInv' /\ RouteInv' /\ ApartInv'
    BY <2>1 DEF WritersInv, ShapeInv, RouteInv, ApartInv, Known, Alone, Others, Running, Put
  <2>3. AloneInv'
    BY <2>1 DEF WritersInv, AloneInv, Alone, Running, Sure, Covered, Goal, Linked, Indexed,
                Noted, BothWays, Present, Accountable
  <2>4. ReviewInv'
    BY <2>1 DEF WritersInv, ReviewInv, Hides, Present, Unseen
  <2> QED  BY <2>2, <2>3, <2>4 DEF WritersInv
<1> QED  BY <1>1, <1>2, <1>3, <1>4, <1>5, <1>6, <1>7 DEF Next

LEMMA Writing == Spec => [](WritersInv /\ named \subseteq Pages)
<1>1. WritersInv /\ named \subseteq Pages /\ [Next]_vars => (WritersInv /\ named \subseteq Pages)'
  BY NextKeeps, NamedKeeps
<1> QED  BY <1>1, InitEstablishes, PTL DEF Spec

\* What Sure says of a pass that has come to its end.
LEMMA DoneIsSure ==
    ASSUME WritersInv, NEW w \in Writers, Done(w)
    PROVE  Sure(job[w]) /\ job[w].stage = "end"
BY DEF Done, WritersInv, AloneInv, Alone

\* repairBidirectionalLinks(): whatever a pass that overlapped, died half-way or
\* does not repair links left behind, the next pass that repairs them and is by
\* itself ends with every link going both ways.
THEOREM LinksAreRepaired == Spec => []LinksGoBothWays
<1>1. ASSUME WritersInv
      PROVE  LinksGoBothWays
  <2> SUFFICES ASSUME NEW w \in Writers, Done(w), job[w].kind \in Relinking
               PROVE  BothWays(live)
    BY DEF LinksGoBothWays, BothWays
  <2> QED  BY <1>1, DoneIsSure DEF Sure, Linked
<1> QED  BY <1>1, Writing, PTL

\* finalPages in queue.ts, engine.ts and approve.ts: a pass that rebuilds the
\* indexes and is by itself ends with the wiki listed as it is.
THEOREM IndexesAreRebuilt == Spec => []IndexesAreCurrent
<1>1. ASSUME WritersInv
      PROVE  IndexesAreCurrent
  <2> SUFFICES ASSUME NEW w \in Writers, Done(w)
               PROVE  /\ job[w].kind \in {"ingest", "compound", "approve"} => listed = Pages
                      /\ job[w].kind \in {"ingest", "compound"} => found = Pages
                      /\ job[w].kind = "archive" /\ job[w].mine # {} =>
                            listed = Pages /\ found = Pages
    BY DEF IndexesAreCurrent
  <2> QED  BY <1>1, DoneIsSure DEF Sure, Indexed
<1> QED  BY <1>1, Writing, PTL

\* What a pass that is by itself changed in wiki/, and does not leave out, it wrote,
\* or repaired its links.
LEMMA ChangedAreNamed ==
    ASSUME WritersInv, NEW w \in Writers, Done(w), NEW p \in Changed(w), p \notin LeftOut(w)
    PROVE  p \in Present(live) /\ p \in job[w].mine \cup job[w].relinked
<1>1. Covered(job[w]) /\ p \in Pages /\ live[p] # job[w].base[p]
  BY DoneIsSure DEF Sure, Changed
<1>2. p \in Present(live)
  BY <1>1 DEF LeftOut, Redirects, Covered, Present
<1> QED  BY <1>1, <1>2 DEF LeftOut, Covered, Present

\* The record of a pass that is by itself holds the hash of every page it changed,
\* as the page is at the end of the pass.  It leaves out pages that the reconciler
\* failed to write and, under staging, those that ingestion took out of wiki/; the
\* record of compounding also those whose links it repaired.
THEOREM RecordsAreComplete == Spec => []ChangesAreOnRecord
<1>1. ASSUME WritersInv
      PROVE  ChangesAreOnRecord
  <2> SUFFICES ASSUME NEW w \in Writers, Done(w), job[w].noted,
                      NEW p \in Changed(w), p \notin LeftOut(w),
                      p \in job[w].mine \/ job[w].kind # "compound" \/ p \notin job[w].relinked
               PROVE  p \in recorded
    BY DEF ChangesAreOnRecord
  <2>1. Sure(job[w]) /\ job[w].stage = "end"
    BY <1>1, DoneIsSure
  <2>2. p \in Present(live) /\ p \in job[w].mine \cup job[w].relinked
    BY <1>1, ChangedAreNamed
  <2>3. p \in Accountable(job[w])
    BY <2>2 DEF Accountable
  <2> QED  BY <2>1, <2>2, <2>3 DEF Sure, Noted
<1> QED  BY <1>1, Writing, PTL

\* commitWikiChanges(): a pass that is by itself, and whose commit succeeded,
\* leaves no other page it changed out of git than those its reconciler failed to
\* write and those it took out of wiki/ to stage their new text.
THEOREM CommitsAreComplete == Spec => []ChangesAreCommitted
<1>1. ASSUME WritersInv
      PROVE  ChangesAreCommitted
  <2> SUFFICES ASSUME NEW w \in Writers, Done(w), job[w].saved,
                      NEW p \in Changed(w), p \notin LeftOut(w)
               PROVE  p \in committed
    BY DEF ChangesAreCommitted
  <2>1. Sure(job[w]) /\ job[w].stage = "end"
    BY <1>1, DoneIsSure
  <2>2. p \in Present(live) /\ p \in job[w].mine \cup job[w].relinked
    BY <1>1, ChangedAreNamed
  <2> QED  BY <2>1, <2>2 DEF Sure
<1> QED  BY <1>1, Writing, PTL

\* Reconciliation under staging: while passes keep apart and none is aborted, the
\* only texts in the wiki between passes that nobody has approved are those that
\* the reconciler failed to move.
THEOREM ReviewIsKept == Spec => []ReviewComesFirst
<1>1. ASSUME WritersInv
      PROVE  ReviewComesFirst
  <2>1. Quiet => \A w \in Writers, p \in Pages : ~Hides(w, p)
    BY DEF Quiet, Hides, Running
  <2> QED  BY <1>1, <2>1 DEF WritersInv, ReviewInv, ReviewComesFirst, Present, Unseen
<1> QED  BY <1>1, Writing, PTL
=============================================================================
