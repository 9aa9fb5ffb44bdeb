------------------------------ MODULE ServiceProofs ------------------------------
(***************************************************************************)
(* Theorems about the parts of Service: the downloads into raw/ (Uploads), *)
(* the access tokens (AccessTokens), the table of facts (FactTable), the   *)
(* calls of the model (ModelCalls) and progressive retrieval               *)
(* (ProgressiveRetrieval), for any number of requests, names, users,       *)
(* commands, addresses, pages, passes, batches and clients.  Each part is  *)
(* proved to keep its promise by itself; at the end of the module that is  *)
(* carried over to Service.                                                *)
(***************************************************************************)
EXTENDS Service, Sequences, FiniteSetTheorems, TLAPS
-----------------------------------------------------------------------------
(* Uploads.  A request no other download has come in the way of is alone     *)
(* with its name from the moment it opens the file: nobody else has it open, *)
(* and the name stands for the file it writes, which holds what it has       *)
(* written so far.  Once it is accepted nobody has the name open at all.     *)
UploadsSpec == UploadsInit /\ [][UploadsNext]_uploadVars

Untouched == {"idle", "fetching"}
IsOpen(r) == Does(r, {"streaming", "failed", "stuck"})

UploadsTyped ==
    /\ request \in [Requests -> Fetching \cup Downloading \cup Answered \cup Cut \cup {NotYet}]
    /\ raw \in [Names -> Requests \cup {NoFile}]
    /\ content \in [Requests -> SUBSET (1 .. Parts)]
    /\ contended \subseteq Requests

\* A file is called after a request for its name.
MadeFor(f, n) == ~Does(f, Untouched) /\ request[f].name = n

NamesInv ==
    /\ \A n \in Names : raw[n] # NoFile => MadeFor(raw[n], n)
    /\ \A r \in Requests : IsOpen(r) => MadeFor(request[r].file, request[r].name)
    /\ \A r \in contended : ~Does(r, Untouched)

Alone(r) ==
    /\ OpenFor(request[r].name) = {r}
    /\ raw[request[r].name] = request[r].file
    /\ content[request[r].file] = 1 .. (request[r].next - 1)
Settled(r) == OpenFor(request[r].name) = {} /\ IsWhole(request[r].name)

AloneInv ==
    \A r \in Requests \ contended : (IsOpen(r) => Alone(r)) /\ (Accepted(r) => Settled(r))

Left(n) == OpenFor(n) = {} /\ n \notin torn /\ ~Contended(n) /\ raw[n] # NoFile
LeftInv == \A n \in Names : Left(n) => IsWhole(n)

UploadsInv == UploadsTyped /\ NamesInv /\ AloneInv /\ LeftInv
-----------------------------------------------------------------------------
\* What a request is by how far it is.
LEMMA Stages ==
  ASSUME UploadsTyped, NEW r \in Requests
  PROVE  /\ Does(r, {"fetching"}) => request[r] \in Fetching
         /\ IsOpen(r) => request[r] \in Downloading
         /\ ~Does(r, {"idle"}) => request[r].name \in Names
BY DEF UploadsTyped, Does, IsOpen, Fetching, Downloading, Answered, Cut, NotYet

\* A request that has no file open, and has none afterwards, takes no other
\* file's place: it is refused, or set out to fetch.
LEMMA NothingOpened ==
  ASSUME UploadsInv, NEW r \in Requests, Does(r, Untouched),
         request'[r] \in Fetching \cup Answered,
         ~Accepted(r)',
         request' = [request EXCEPT ![r] = request'[r]],
         UNCHANGED <<raw, content, contended, torn>>
  PROVE  UploadsInv'
<1> DEFINE x == request'[r]
<1>1. UploadsTyped'
  BY DEF UploadsInv, UploadsTyped
<1>2. request'[r] = x /\ \A q \in Requests \ {r} : request'[q] = request[q]
  BY DEF UploadsInv, UploadsTyped
<1>3. x.does \in {"fetching", "answered"}
  BY DEF Fetching, Answered
<1>4. ~IsOpen(r) /\ ~IsOpen(r)' /\ ~Accepted(r) /\ ~Accepted(r)'
  BY <1>2, <1>3 DEF IsOpen, Accepted, Does, Untouched
<1>5. \A n \in Names : OpenFor(n)' = OpenFor(n)
  BY <1>2, <1>4 DEF OpenFor, IsOpen, Does
<1>6. ASSUME NEW q \in Requests, ~Does(q, Untouched)
      PROVE  request'[q] = request[q] /\ ~Does(q, Untouched)'
  BY <1>2, <1>6 DEF Does
<1>7. NamesInv'
  <2>1. ASSUME NEW n \in Names, raw'[n] # NoFile PROVE MadeFor(raw[n], n)'
    <3>1. MadeFor(raw[n], n) /\ raw[n] \in Requests
      BY <2>1 DEF UploadsInv, UploadsTyped, NamesInv
    <3>2. QED
      BY <1>6, <3>1 DEF MadeFor
  <2>2. ASSUME NEW q \in Requests, IsOpen(q)' PROVE MadeFor(request[q].file, request[q].name)'
    <3>1. q # r /\ request'[q] = request[q]
      BY <1>2, <1>4, <2>2
    <3>2. IsOpen(q)
      BY <2>2, <3>1 DEF IsOpen, Does
    <3>3. MadeFor(request[q].file, request[q].name) /\ request[q].file \in Requests
      BY <3>2, Stages DEF UploadsInv, NamesInv, Downloading
    <3>4. QED
      BY <1>6, <3>1, <3>3 DEF MadeFor
  <2>3. \A q \in contended' : ~Does(q, Untouched)'
    BY <1>6 DEF UploadsInv, UploadsTyped, NamesInv
  <2>4. QED
    BY <2>1, <2>2, <2>3 DEF NamesInv
<1>8. AloneInv'
  <2> SUFFICES ASSUME NEW q \in Requests \ contended, IsOpen(q)' \/ Accepted(q)'
               PROVE  (IsOpen(q)' => Alone(q)') /\ (Accepted(q)' => Settled(q)')
    BY DEF AloneInv
  <2>1. request'[q] = request[q]
    BY <1>2, <1>4
  <2>2. request[q].name \in Names
    BY <2>1, Stages DEF UploadsInv, IsOpen, Accepted, Does
  <2>3. /\ IsOpen(q)' <=> IsOpen(q)
        /\ Accepted(q)' <=> Accepted(q)
    BY <2>1 DEF IsOpen, Accepted, Does
  <2>4. /\ IsOpen(q) => Alone(q)
        /\ Accepted(q) => Settled(q)
    BY DEF UploadsInv, AloneInv
  <2>5. QED
    BY <1>5, <2>1, <2>2, <2>3, <2>4 DEF Alone, Settled, IsWhole
<1>9. LeftInv'
  <2> SUFFICES ASSUME NEW n \in Names, Left(n)' PROVE IsWhole(n)'
    BY DEF LeftInv
  <2>1. \A q \in contended : request'[q] = request[q]
    BY <1>6 DEF UploadsInv, UploadsTyped, NamesInv
  <2>2. Left(n)
    BY <1>5, <2>1 DEF Left, Contended
  <2>3. QED
    BY <2>2 DEF UploadsInv, LeftInv, IsWhole
<1>10. QED
  BY <1>1, <1>7, <1>8, <1>9 DEF UploadsInv

\* A download that writes, fails or gets stuck has its file open as before: what
\* the other files hold does not change, and who is alone sees its own part only.
LEMMA StillOpen ==
  ASSUME UploadAssumption, UploadsInv, NEW r \in Requests, IsOpen(r),
         NEW x \in Downloading, x.name = request[r].name, x.file = request[r].file,
         request' = [request EXCEPT ![r] = x],
         content' \in [Requests -> SUBSET (1 .. Parts)],
         \A f \in Requests \ {x.file} : content'[f] = content[f],
         content[x.file] = 1 .. (request[r].next - 1) => content'[x.file] = 1 .. (x.next - 1),
         UNCHANGED <<raw, contended, torn>>
  PROVE  UploadsInv'
<1> DEFINE n == request[r].name
<1>1. UploadsTyped'
  BY DEF UploadsInv, UploadsTyped
<1>2. request'[r] = x /\ \A q \in Requests \ {r} : request'[q] = request[q]
  BY DEF UploadsInv, UploadsTyped
<1>3. request[r] \in Downloading /\ n \in Names /\ x.file \in Requests
  BY Stages DEF UploadsInv, Downloading
<1>4. IsOpen(r)' /\ ~Accepted(r) /\ ~Accepted(r)' /\ ~Does(r, Untouched) /\ ~Does(r, Untouched)'
  BY <1>2, <1>3 DEF IsOpen, Accepted, Does, Untouched, Downloading
<1>5. /\ \A m \in Names : OpenFor(m)' = OpenFor(m)
      /\ \A q \in Requests : request'[q].name = request[q].name
  BY <1>2, <1>4 DEF OpenFor, IsOpen, Does
<1>6. \A q \in Requests : /\ IsOpen(q)' <=> IsOpen(q)
                          /\ Accepted(q)' <=> Accepted(q)
                          /\ Does(q, Untouched)' <=> Does(q, Untouched)
  BY <1>2, <1>4 DEF IsOpen, Accepted, Does
<1>7. r \in OpenFor(n)
  BY DEF OpenFor, IsOpen
<1>8. ASSUME NEW m \in Names, raw[m] = x.file PROVE m = n
  <2>1. MadeFor(x.file, m) /\ MadeFor(x.file, n)
    BY <1>3, <1>8 DEF UploadAssumption, UploadsInv, UploadsTyped, NamesInv
  <2>2. QED
    BY <2>1 DEF MadeFor
<1>9. NamesInv'
  <2>1. ASSUME NEW m \in Names, raw'[m] # NoFile PROVE MadeFor(raw[m], m)'
    <3>1. MadeFor(raw[m], m) /\ raw[m] \in Requests
      BY <2>1 DEF UploadsInv, UploadsTyped, NamesInv
    <3>2. QED
      BY <1>5, <1>6, <3>1 DEF MadeFor
  <2>2. ASSUME NEW q \in Requests, IsOpen(q)' PROVE MadeFor(request[q].file, request[q].name)'
    <3>1. IsOpen(q) /\ request'[q].file = request[q].file /\ request'[q].name = request[q].name
      BY <1>2, <1>5, <1>6, <2>2
    <3>2. MadeFor(request[q].file, request[q].name) /\ request[q].file \in Requests
      BY <3>1, Stages DEF UploadsInv, NamesInv, Downloading
    <3>3. QED
      BY <1>5, <1>6, <3>1, <3>2 DEF MadeFor
  <2>3. \A q \in contended' : ~Does(q, Untouched)'
    BY <1>6 DEF UploadsInv, UploadsTyped, NamesInv
  <2>4. QED
    BY <2>1, <2>2, <2>3 DEF NamesInv
<1>10. AloneInv'
  <2>1. ASSUME NEW q \in Requests \ contended, IsOpen(q)' PROVE Alone(q)'
    <3>1. Alone(q) /\ request[q].name \in Names
      BY <1>6, <2>1, Stages DEF UploadsInv, AloneInv, IsOpen, Does
    <3>2. CASE q = r
      BY <1>2, <1>3, <1>5, <3>1, <3>2 DEF Alone
    <3>3. CASE q # r
      <4>1. request'[q] = request[q] /\ request[q].file \in Requests
        BY <1>2, <1>6, <2>1, <3>3, Stages DEF UploadsInv, Downloading
      <4>2. request[q].name # n
        BY <1>7, <3>1, <3>3 DEF Alone
      <4>3. request[q].file # x.file
        BY <1>8, <3>1, <4>2 DEF Alone
      <4>4. QED
        BY <1>5, <3>1, <4>1, <4>3 DEF Alone
    <3>4. QED BY <3>2, <3>3
  <2>2. ASSUME NEW q \in Requests \ contended, Accepted(q)' PROVE Settled(q)'
    <3>1. Settled(q) /\ request[q].name \in Names
      BY <1>6, <2>2, Stages DEF UploadsInv, AloneInv, Accepted, Does
    <3>2. request[q].name # n
      BY <1>7, <3>1 DEF Settled
    <3>3. raw[request[q].name] # x.file /\ raw[request[q].name] \in Requests
      BY <1>8, <3>1, <3>2 DEF Settled, IsWhole, UploadsInv, UploadsTyped
    <3>4. QED
      BY <1>5, <3>1, <3>3 DEF Settled, IsWhole
  <2>3. QED
    BY <2>1, <2>2 DEF AloneInv
<1>11. LeftInv'
  <2> SUFFICES ASSUME NEW m \in Names, Left(m)' PROVE IsWhole(m)'
    BY DEF LeftInv
  <2>1. Left(m)
    BY <1>1, <1>5 DEF Left, Contended, UploadsTyped
  <2>2. m # n
    BY <1>7, <2>1 DEF Left
  <2>3. IsWhole(m) /\ raw[m] # x.file /\ raw[m] \in Requests
    BY <1>8, <2>1, <2>2 DEF UploadsInv, UploadsTyped, LeftInv, Left
  <2>4. QED
    BY <2>3 DEF IsWhole
<1>12. QED
  BY <1>1, <1>9, <1>10, <1>11 DEF UploadsInv

\* A download that ends: accepted, when its file is whole as far as it knows, or
\* removed by name, or left as it is.
LEMMA Closed ==
  ASSUME UploadAssumption, UploadsInv, NEW r \in Requests, IsOpen(r),
         request'[r] \in Answered, request'[r].name = request[r].name,
         request' = [request EXCEPT ![r] = request'[r]],
         \/ /\ request[r].next = Parts + 1
            /\ raw' = raw /\ torn' = torn
         \/ /\ ~Accepted(r)'
            /\ raw' = [raw EXCEPT ![request[r].name] = NoFile] /\ torn' = torn
         \/ /\ ~Accepted(r)'
            /\ raw' = raw /\ torn' = torn \cup {request[r].name},
         UNCHANGED <<content, contended>>
  PROVE  UploadsInv'
<1> DEFINE n == request[r].name
           x == request'[r]
<1>1. request'[r] = x /\ \A q \in Requests \ {r} : request'[q] = request[q]
  BY DEF UploadsInv, UploadsTyped
<1>2. request[r] \in Downloading /\ n \in Names /\ request[r].file \in Requests
  BY Stages DEF UploadsInv, Downloading
<1>3. UploadsTyped'
  BY <1>2 DEF UploadsInv, UploadsTyped, Downloading
<1>4. ~IsOpen(r)' /\ ~Accepted(r) /\ ~Does(r, Untouched) /\ ~Does(r, Untouched)'
  BY <1>1, <1>2 DEF IsOpen, Accepted, Does, Untouched, Downloading, Answered
<1>5. /\ \A m \in Names \ {n} : OpenFor(m)' = OpenFor(m) /\ raw'[m] = raw[m]
      /\ \A m \in Names \ {n} : m \in torn' <=> m \in torn
      /\ OpenFor(n)' = OpenFor(n) \ {r}
      /\ r \in OpenFor(n)
  BY <1>1, <1>2, <1>4 DEF OpenFor, IsOpen, Does, UploadsInv, UploadsTyped
<1>6. \A q \in Requests : /\ request'[q].name = request[q].name
                          /\ Does(q, Untouched)' <=> Does(q, Untouched)
  BY <1>1, <1>4 DEF Does
<1>7. NamesInv'
  <2>1. ASSUME NEW m \in Names, raw'[m] # NoFile PROVE MadeFor(raw[m], m)'
    <3>1. raw'[m] = raw[m]
      BY <1>2, <2>1 DEF UploadsInv, UploadsTyped
    <3>2. MadeFor(raw[m], m) /\ raw[m] \in Requests
      BY <2>1, <3>1 DEF UploadsInv, UploadsTyped, NamesInv
    <3>3. QED
      BY <1>6, <3>1, <3>2 DEF MadeFor
  <2>2. ASSUME NEW q \in Requests, IsOpen(q)' PROVE MadeFor(request[q].file, request[q].name)'
    <3>1. IsOpen(q) /\ request'[q] = request[q]
      BY <1>1, <1>4, <2>2 DEF IsOpen, Does
    <3>2. MadeFor(request[q].file, request[q].name) /\ request[q].file \in Requests
      BY <3>1, Stages DEF UploadsInv, NamesInv, Downloading
    <3>3. QED
      BY <1>6, <3>1, <3>2 DEF MadeFor
  <2>3. \A q \in contended' : ~Does(q, Untouched)'
    BY <1>6 DEF UploadsInv, UploadsTyped, NamesInv
  <2>4. QED
    BY <2>1, <2>2, <2>3 DEF NamesInv
<1>8. r \notin contended => Alone(r)
  BY DEF UploadsInv, AloneInv
<1>9. ASSUME r \notin contended
      PROVE  /\ OpenFor(n)' = {}
             /\ IsWhole(n)' \/ ((raw'[n] = NoFile \/ n \in torn') /\ ~Accepted(r)')
  <2>1. OpenFor(n)' = {}
    BY <1>5, <1>8, <1>9 DEF Alone
  <2>2. CASE request[r].next = Parts + 1 /\ raw' = raw
    <3>1. content[request[r].file] = 1 .. Parts
      BY <1>8, <1>9, <2>2 DEF Alone, UploadAssumption
    <3>2. raw[n] = request[r].file /\ raw[n] # NoFile /\ request'[r].name = n
      BY <1>2, <1>6, <1>8, <1>9 DEF Alone, UploadAssumption
    <3>3. IsWhole(n)'
      BY <2>2, <3>1, <3>2 DEF IsWhole
    <3>4. QED BY <2>1, <3>3
  <2>3. CASE ~Accepted(r)' /\ raw' = [raw EXCEPT ![n] = NoFile]
    BY <1>1, <1>2, <2>1, <2>3 DEF Accepted, UploadsInv, UploadsTyped
  <2>4. CASE ~Accepted(r)' /\ torn' = torn \cup {n}
    BY <2>1, <2>4
  <2>5. QED BY <2>2, <2>3, <2>4
<1>10. AloneInv'
  <2>1. ASSUME NEW q \in Requests \ contended, IsOpen(q)' PROVE Alone(q)'
    <3>1. q # r /\ request'[q] = request[q] /\ IsOpen(q)
      BY <1>1, <1>4, <2>1 DEF IsOpen, Does
    <3>2. Alone(q) /\ request[q].name \in Names
      BY <3>1, Stages DEF UploadsInv, AloneInv, IsOpen, Does
    <3>3. request[q].name # n
      BY <1>5, <3>1, <3>2 DEF Alone
    <3>4. QED
      BY <1>5, <3>1, <3>2, <3>3 DEF Alone
  <2>2. ASSUME NEW q \in Requests \ contended, Accepted(q)' PROVE Settled(q)'
    <3>1. CASE q = r
      BY <1>1, <1>9, <2>2, <3>1 DEF Settled
    <3>2. CASE q # r
      <4>1. Accepted(q) /\ request'[q] = request[q]
        BY <1>1, <2>2, <3>2 DEF Accepted, Does
      <4>2. Settled(q) /\ request[q].name \in Names
        BY <4>1, Stages DEF UploadsInv, AloneInv, Accepted, Does
      <4>3. request[q].name # n
        BY <1>5, <4>2 DEF Settled
      <4>4. QED
        BY <1>5, <4>1, <4>2, <4>3 DEF Settled, IsWhole
    <3>3. QED BY <3>1, <3>2
  <2>3. QED
    BY <2>1, <2>2 DEF AloneInv
<1>11. LeftInv'
  <2> SUFFICES ASSUME NEW m \in Names, Left(m)' PROVE IsWhole(m)'
    BY DEF LeftInv
  <2>1. \A q \in contended : request[q].name # m
    BY <1>3, <1>6 DEF Left, Contended, UploadsTyped
  <2>2. CASE m = n
    BY <1>9, <2>1, <2>2 DEF Left
  <2>3. CASE m # n
    <3>1. Left(m) /\ raw'[m] = raw[m]
      BY <1>5, <2>1, <2>3 DEF Left, Contended
    <3>2. QED
      BY <3>1 DEF UploadsInv, LeftInv, IsWhole
  <2>4. QED BY <2>2, <2>3
<1>12. QED
  BY <1>3, <1>7, <1>10, <1>11 DEF UploadsInv

LEMMA OpenStep ==
  ASSUME UploadAssumption, UploadsInv, NEW r \in Requests, Open(r)
  PROVE  UploadsInv'
<1>0. PICK n, target, others :
          /\ n = request[r].name
          /\ target = IF raw[n] = NoFile THEN r ELSE raw[n]
          /\ others = OpenFor(n)
  OBVIOUS
<1> DEFINE x == [does |-> "streaming", name |-> n, file |-> target, next |-> 1]
<1>1. /\ raw' = [raw EXCEPT ![n] = target]
      /\ content' = [content EXCEPT ![target] = {}]
      /\ request' = [request EXCEPT ![r] = x]
      /\ contended' = contended \cup others
             \cup {q \in Requests : Accepted(q) /\ request[q].name = n}
             \cup IF others # {} THEN {r} ELSE {}
      /\ torn' = IF others = {} THEN torn \ {n} ELSE torn
  BY <1>0 DEF Open
<1>2. request[r] \in Fetching /\ n \in Names /\ Does(r, {"fetching"})
  BY <1>0, Stages DEF UploadsInv, Open, Fetching
<1>3. target \in Requests /\ (raw[n] # NoFile => MadeFor(target, n) /\ target # r)
  BY <1>0, <1>2 DEF UploadsInv, UploadsTyped, NamesInv, MadeFor, Does, Untouched
<1>4. x \in Downloading
  BY <1>2, <1>3 DEF Downloading, UploadAssumption
<1>5. UploadsTyped'
  <2>1. contended' \subseteq Requests
    BY <1>0, <1>1 DEF UploadsInv, UploadsTyped, OpenFor
  <2>2. QED
    BY <1>1, <1>2, <1>3, <1>4, <2>1 DEF UploadsInv, UploadsTyped
<1>6. request'[r] = x /\ \A q \in Requests \ {r} : request'[q] = request[q]
  BY <1>1 DEF UploadsInv, UploadsTyped
<1>7. request'[r].name = n /\ request'[r].file = target /\ request'[r].next = 1
      /\ request'[r].does = "streaming"
  BY <1>6
<1>8. /\ IsOpen(r)' /\ ~Accepted(r)' /\ ~IsOpen(r) /\ ~Accepted(r) /\ ~Does(r, Untouched)'
      /\ r \notin contended
  BY <1>2, <1>7 DEF IsOpen, Accepted, Does, Untouched, UploadsInv, NamesInv
<1>9. ASSUME NEW m \in Names
      PROVE  OpenFor(m)' = IF m = n THEN others \cup {r} ELSE OpenFor(m)
  BY <1>0, <1>6, <1>7, <1>8 DEF OpenFor, IsOpen, Does
<1>10. ASSUME NEW f \in Requests, NEW m \in Names, MadeFor(f, m)
       PROVE  MadeFor(f, m)'
  BY <1>0, <1>2, <1>6, <1>10 DEF MadeFor, Does, Untouched
<1>11. MadeFor(target, n)'
  BY <1>0, <1>2, <1>3, <1>7, <1>8, <1>10 DEF MadeFor
<1>12. ASSUME NEW m \in Names \ {n}, raw[m] # NoFile
       PROVE  raw'[m] = raw[m] /\ raw[m] \in Requests \ {target}
  <2>1. MadeFor(raw[m], m) /\ raw[m] \in Requests
    BY <1>12 DEF UploadsInv, UploadsTyped, NamesInv
  <2>2. CASE raw[n] = NoFile
    BY <1>0, <1>1, <1>2, <2>1, <2>2 DEF MadeFor, Does, Untouched, UploadsInv, UploadsTyped
  <2>3. CASE raw[n] # NoFile
    BY <1>0, <1>1, <1>2, <1>3, <2>1, <2>3 DEF MadeFor, UploadsInv, UploadsTyped
  <2>4. QED BY <2>2, <2>3
<1>13. NamesInv'
  <2>1. ASSUME NEW m \in Names, raw'[m] # NoFile PROVE MadeFor(raw[m], m)'
    <3>1. CASE m = n
      BY <1>1, <1>2, <1>3, <1>11, <3>1 DEF UploadsInv, UploadsTyped, MadeFor
    <3>2. CASE m # n
      <4>1. raw'[m] = raw[m] /\ raw[m] # NoFile
        BY <1>1, <1>2, <2>1, <3>2 DEF UploadsInv, UploadsTyped
      <4>2. MadeFor(raw[m], m) /\ raw[m] \in Requests
        BY <4>1 DEF UploadsInv, UploadsTyped, NamesInv
      <4>3. QED
        BY <1>10, <4>1, <4>2 DEF MadeFor
    <3>3. QED BY <3>1, <3>2
  <2>2. ASSUME NEW q \in Requests, IsOpen(q)' PROVE MadeFor(request[q].file, request[q].name)'
    <3>1. CASE q = r
      BY <1>7, <1>11, <3>1 DEF MadeFor
    <3>2. CASE q # r
      <4>1. IsOpen(q) /\ request'[q] = request[q]
        BY <1>6, <2>2, <3>2 DEF IsOpen, Does
      <4>2. /\ MadeFor(request[q].file, request[q].name)
            /\ request[q].file \in Requests /\ request[q].name \in Names
        BY <4>1, Stages DEF UploadsInv, NamesInv, Downloading
      <4>3. QED
        BY <1>10, <4>1, <4>2 DEF MadeFor
    <3>3. QED BY <3>1, <3>2
  <2>3. ASSUME NEW q \in contended' PROVE ~Does(q, Untouched)'
    <3>1. q \in contended \/ q \in others \/ (q \in Requests /\ Accepted(q)) \/ q = r
      BY <1>1
    <3>2. q = r \/ (q \in Requests \ {r} /\ ~Does(q, Untouched))
      BY <1>0, <1>8, <3>1 DEF OpenFor, IsOpen, Accepted, Does, Untouched, UploadsInv, UploadsTyped, NamesInv
    <3>3. QED
      BY <1>6, <1>8, <3>2 DEF Does
  <2>4. QED
    BY <2>1, <2>2, <2>3 DEF NamesInv
<1>14. AloneInv'
  <2>1. ASSUME NEW q \in Requests \ contended', IsOpen(q)' PROVE Alone(q)'
    <3>1. CASE q = r
      <4>1. others = {}
        BY <1>1, <2>1, <3>1
      <4>2. OpenFor(n)' = {r} /\ raw'[n] = target /\ content'[target] = {}
        BY <1>1, <1>2, <1>3, <1>9, <4>1 DEF UploadsInv, UploadsTyped
      <4>3. 1 .. (1 - 1) = {}
        OBVIOUS
      <4>4. QED
        BY <1>2, <1>7, <3>1, <4>2, <4>3 DEF Alone
    <3>2. CASE q # r
      <4>1. q \in Requests \ contended /\ IsOpen(q) /\ request'[q] = request[q]
        BY <1>1, <1>6, <2>1, <3>2 DEF IsOpen, Does
      <4>2. Alone(q) /\ request[q].name \in Names /\ request[q].file \in Requests
        BY <4>1, Stages DEF UploadsInv, AloneInv, Downloading
      <4>3. request[q].name # n
        BY <1>0, <1>1, <2>1, <4>1 DEF OpenFor, IsOpen
      <4>4. request[q].file # target /\ raw'[request[q].name] = raw[request[q].name]
        BY <1>12, <4>2, <4>3 DEF Alone, UploadAssumption
      <4>5. content'[request[q].file] = content[request[q].file]
        BY <1>1, <4>2, <4>4 DEF UploadsInv, UploadsTyped
      <4>6. QED
        BY <1>9, <4>1, <4>2, <4>3, <4>4, <4>5 DEF Alone
    <3>3. QED BY <3>1, <3>2
  <2>2. ASSUME NEW q \in Requests \ contended', Accepted(q)' PROVE Settled(q)'
    <3>1. q # r /\ q \in Requests \ contended /\ Accepted(q) /\ request'[q] = request[q]
      BY <1>1, <1>6, <1>8, <2>2 DEF Accepted, Does
    <3>2. Settled(q) /\ request[q].name \in Names
      BY <3>1, Stages DEF UploadsInv, AloneInv, Accepted, Does
    <3>3. request[q].name # n
      BY <1>1, <2>2, <3>1
    <3>4. raw'[request[q].name] = raw[request[q].name] /\ raw[request[q].name] \in Requests \ {target}
      BY <1>12, <3>2, <3>3 DEF Settled, IsWhole
    <3>5. content'[raw[request[q].name]] = content[raw[request[q].name]]
      BY <1>1, <3>4 DEF UploadsInv, UploadsTyped
    <3>6. QED
      BY <1>9, <3>1, <3>2, <3>3, <3>4, <3>5 DEF Settled, IsWhole
  <2>3. QED
    BY <2>1, <2>2 DEF AloneInv
<1>15. LeftInv'
  <2> SUFFICES ASSUME NEW m \in Names, Left(m)' PROVE IsWhole(m)'
    BY DEF LeftInv
  <2>1. m # n
    BY <1>9 DEF Left
  <2>2. raw'[m] = raw[m] /\ raw[m] # NoFile /\ m \notin torn
    BY <1>1, <1>2, <2>1 DEF Left, UploadsInv, UploadsTyped
  <2>3. ~Contended(m)
    <3>1. ASSUME NEW q \in contended PROVE request[q].name # m
      BY <1>1, <1>6, <1>8, <1>5 DEF Left, Contended, UploadsTyped
    <3>2. QED BY <3>1 DEF Contended
  <2>4. Left(m)
    BY <1>9, <2>1, <2>2, <2>3 DEF Left
  <2>5. raw[m] \in Requests \ {target}
    BY <1>12, <2>1, <2>2
  <2>6. QED
    BY <1>1, <2>2, <2>4, <2>5 DEF UploadsInv, UploadsTyped, LeftInv, IsWhole
<1>16. QED
  BY <1>5, <1>13, <1>14, <1>15 DEF UploadsInv

LEMMA EndOfDaemon ==
  ASSUME UploadsInv, DaemonEnds
  PROVE  UploadsInv'
<1>1. ASSUME NEW q \in Requests
      PROVE  request'[q] = IF Does(q, {"fetching", "streaming", "failed", "stuck"})
                           THEN [does |-> "cut", name |-> request[q].name] ELSE request[q]
  BY DEF DaemonEnds
<1>2. /\ UNCHANGED <<raw, content, contended>>
      /\ torn' = torn \cup {n \in Names : OpenFor(n) # {}}
  BY DEF DaemonEnds
<1>3. ASSUME NEW q \in Requests
      PROVE  /\ ~IsOpen(q)'
             /\ Accepted(q)' => Accepted(q) /\ request'[q] = request[q]
             /\ ~Does(q, Untouched) => ~Does(q, Untouched)' /\ request'[q].name = request[q].name
  <2>1. CASE Does(q, {"fetching", "streaming", "failed", "stuck"})
    <3>1. request'[q] = [does |-> "cut", name |-> request[q].name]
      BY <1>1, <2>1
    <3>2. request'[q].does = "cut" /\ request'[q].name = request[q].name
      BY <3>1
    <3>3. QED
      BY <3>2 DEF IsOpen, Accepted, Does, Untouched
  <2>2. CASE ~Does(q, {"fetching", "streaming", "failed", "stuck"})
    BY <1>1, <2>2 DEF IsOpen, Accepted, Does, Untouched
  <2>3. QED BY <2>1, <2>2
<1>4. \A n \in Names : OpenFor(n)' = {}
  BY <1>3 DEF OpenFor, IsOpen
<1>5. UploadsTyped'
  <2>1. ASSUME NEW q \in Requests
        PROVE  request'[q] \in Fetching \cup Downloading \cup Answered \cup Cut \cup {NotYet}
    <3>1. CASE Does(q, {"fetching", "streaming", "failed", "stuck"})
      <4>1. request[q].name \in Names
        BY <3>1, Stages DEF UploadsInv, Does
      <4>2. QED
        <5>1. request'[q] = [does |-> "cut", name |-> request[q].name]
          BY <1>1, <3>1
        <5>2. request'[q] \in Cut
          BY <4>1, <5>1 DEF Cut
        <5>3. QED BY <5>2
    <3>2. CASE ~Does(q, {"fetching", "streaming", "failed", "stuck"})
      BY <1>1, <3>2 DEF UploadsInv, UploadsTyped
    <3>3. QED BY <3>1, <3>2
  <2>2. request' \in [Requests -> Fetching \cup Downloading \cup Answered \cup Cut \cup {NotYet}]
    BY <2>1 DEF DaemonEnds
  <2>3. QED
    BY <1>2, <2>2 DEF UploadsInv, UploadsTyped
<1>6. NamesInv'
  <2>1. ASSUME NEW n \in Names, raw'[n] # NoFile PROVE MadeFor(raw[n], n)'
    BY <1>2, <1>3, <2>1 DEF UploadsInv, UploadsTyped, NamesInv, MadeFor
  <2>2. \A q \in contended' : ~Does(q, Untouched)'
    BY <1>2, <1>3 DEF UploadsInv, UploadsTyped, NamesInv
  <2>3. QED
    BY <1>3, <2>1, <2>2 DEF NamesInv
<1>7. AloneInv'
  <2> SUFFICES ASSUME NEW q \in Requests \ contended, Accepted(q)' PROVE Settled(q)'
    BY <1>2, <1>3 DEF AloneInv
  <2>1. Accepted(q) /\ request'[q] = request[q]
    BY <1>3
  <2>2. Settled(q) /\ request[q].name \in Names
    BY <2>1, Stages DEF UploadsInv, AloneInv, Accepted, Does
  <2>3. QED
    BY <1>2, <1>4, <2>1, <2>2 DEF Settled, IsWhole
<1>8. LeftInv'
  <2> SUFFICES ASSUME NEW n \in Names, Left(n)' PROVE IsWhole(n)'
    BY DEF LeftInv
  <2>1. ~Contended(n)
    BY <1>2, <1>3 DEF Left, Contended, UploadsInv, UploadsTyped, NamesInv
  <2>2. Left(n)
    BY <1>2, <2>1 DEF Left
  <2>3. QED
    BY <1>2, <2>2 DEF UploadsInv, LeftInv, IsWhole
<1>9. QED
  BY <1>5, <1>6, <1>7, <1>8 DEF UploadsInv

\* A file that was accepted is in raw/, whole, and a part of a file is left only
\* where downloads of one name came in each other's way, the daemon ended during
\* the last of them, or that one failed and could not be removed either
\* (src/server/index.ts and src/server/safe-fetch.ts).
THEOREM AcceptedFilesStay ==
  ASSUME UploadAssumption
  PROVE  UploadsSpec => []AcceptedStays
<1>1. UploadsInit => UploadsInv
  <2> SUFFICES ASSUME UploadsInit PROVE UploadsInv
    OBVIOUS
  <2>1. UploadsTyped
    BY DEF UploadsInit, UploadsTyped
  <2>2. \A r \in Requests : ~IsOpen(r) /\ ~Accepted(r)
    BY DEF UploadsInit, IsOpen, Accepted, Does, NotYet
  <2>3. NamesInv /\ AloneInv /\ LeftInv
    BY <2>2 DEF UploadsInit, NamesInv, AloneInv, LeftInv, Left
  <2>4. QED
    BY <2>1, <2>3 DEF UploadsInv
<1>2. UploadsInv /\ [UploadsNext]_uploadVars => UploadsInv'
  <2> SUFFICES ASSUME UploadsInv, [UploadsNext]_uploadVars PROVE UploadsInv'
    OBVIOUS
  <2>1. ASSUME NEW r \in Requests, NEW n \in Names, Post(r, n) PROVE UploadsInv'
    <3>1. /\ request'[r] \in Fetching \cup Answered
          /\ ~Accepted(r)'
          /\ request' = [request EXCEPT ![r] = request'[r]]
      <4>1. CASE request' = [request EXCEPT ![r] = [does |-> "fetching", name |-> n]]
        BY <4>1 DEF UploadsInv, UploadsTyped, Fetching, Accepted, Does
      <4>2. ASSUME NEW code \in {400, 401, 403, 500},
                   request' = [request EXCEPT ![r] =
                       [does |-> "answered", name |-> n, status |-> code]]
            PROVE  /\ request'[r] \in Fetching \cup Answered
                   /\ ~Accepted(r)'
                   /\ request' = [request EXCEPT ![r] = request'[r]]
        BY <4>2 DEF UploadsInv, UploadsTyped, Answered, Answers, Accepted
      <4>3. QED
        BY <2>1, <4>1, <4>2 DEF Post
    <3>2. Does(r, Untouched) /\ UNCHANGED <<raw, content, contended, torn>>
      BY <2>1 DEF Post, Does, Untouched
    <3>3. QED
      BY <3>1, <3>2, NothingOpened
  <2>2. ASSUME NEW r \in Requests, TurnDown(r) PROVE UploadsInv'
    <3>1. request[r].name \in Names
      BY <2>2, Stages DEF TurnDown, Does, UploadsInv
    <3>2. PICK code \in {400, 413, 500, 502, 504} :
              request' = [request EXCEPT ![r] =
                  [does |-> "answered", name |-> request[r].name, status |-> code]]
      BY <2>2 DEF TurnDown
    <3>3. request'[r] = [does |-> "answered", name |-> request[r].name, status |-> code]
      BY <3>2 DEF UploadsInv, UploadsTyped
    <3>4. request'[r] \in Answered /\ ~Accepted(r)'
      BY <3>1, <3>3 DEF Answered, Answers, Accepted
    <3>5. request' = [request EXCEPT ![r] = request'[r]]
      BY <3>2, <3>3
    <3>6. Does(r, Untouched) /\ UNCHANGED <<raw, content, contended, torn>>
      BY <2>2 DEF TurnDown, Does, Untouched
    <3>7. QED
      BY <3>4, <3>5, <3>6, NothingOpened
  <2>3. ASSUME NEW r \in Requests, Open(r) PROVE UploadsInv'
    BY <2>3, OpenStep
  <2>4. ASSUME NEW r \in Requests, Write(r) PROVE UploadsInv'
    <3> DEFINE x == [request[r] EXCEPT !.next = @ + 1]
    <3>1. IsOpen(r) /\ request[r] \in Downloading
      BY <2>4, Stages DEF Write, IsOpen, Does, UploadsInv
    <3>2. x \in Downloading /\ x.name = request[r].name /\ x.file = request[r].file
          /\ x.next = request[r].next + 1 /\ request[r].next \in 1 .. Parts
      BY <2>4, <3>1 DEF Write, Downloading, UploadAssumption
    <3>3. request' = [request EXCEPT ![r] = x]
      BY <2>4 DEF Write
    <3>4. /\ content' = [content EXCEPT ![x.file] = @ \cup {request[r].next}]
          /\ UNCHANGED <<raw, contended, torn>>
      BY <2>4, <3>2 DEF Write
    <3>5. x.file \in Requests
      BY <3>2 DEF Downloading
    <3>6. /\ content' \in [Requests -> SUBSET (1 .. Parts)]
          /\ \A f \in Requests \ {x.file} : content'[f] = content[f]
          /\ content'[x.file] = content[x.file] \cup {request[r].next}
      BY <3>2, <3>4, <3>5 DEF UploadsInv, UploadsTyped
    <3>7. content[x.file] = 1 .. (request[r].next - 1) => content'[x.file] = 1 .. (x.next - 1)
      BY <3>2, <3>6
    <3>8. QED
      BY <3>1, <3>2, <3>3, <3>4, <3>6, <3>7, StillOpen
  <2>5. ASSUME NEW r \in Requests, GetStuck(r) \/ Break(r) PROVE UploadsInv'
    <3>1. PICK does \in {"stuck", "failed"} : request' = [request EXCEPT ![r].does = does]
      BY <2>5 DEF GetStuck, Break
    <3> DEFINE x == [request[r] EXCEPT !.does = does]
    <3>2. IsOpen(r) /\ request[r] \in Downloading
      BY <2>5, Stages DEF GetStuck, Break, IsOpen, Does, UploadsInv
    <3>3. x \in Downloading /\ x.name = request[r].name /\ x.file = request[r].file
          /\ x.next = request[r].next
      BY <3>2 DEF Downloading
    <3>4. UNCHANGED <<raw, content, contended, torn>>
      BY <2>5 DEF GetStuck, Break
    <3>5. request' = [request EXCEPT ![r] = x]
      BY <3>1
    <3>6. QED
      BY <3>2, <3>3, <3>4, <3>5, StillOpen DEF UploadsInv, UploadsTyped
  <2>6. ASSUME NEW r \in Requests, Accept(r) PROVE UploadsInv'
    <3>1. IsOpen(r) /\ request[r] \in Downloading
      BY <2>6, Stages DEF Accept, IsOpen, Does, UploadsInv
    <3>2. request' = [request EXCEPT ![r] =
              [does |-> "answered", name |-> request[r].name, status |-> 202]]
      BY <2>6 DEF Accept
    <3>3. request'[r] = [does |-> "answered", name |-> request[r].name, status |-> 202]
      BY <3>2 DEF UploadsInv, UploadsTyped
    <3>4. request'[r] \in Answered /\ request'[r].name = request[r].name
      BY <3>1, <3>3 DEF Downloading, Answered, Answers
    <3>5. request[r].next = Parts + 1
      BY <2>6, <3>1 DEF Accept, Downloading, UploadAssumption
    <3>6. request' = [request EXCEPT ![r] = request'[r]] /\ UNCHANGED <<raw, content, contended, torn>>
      BY <2>6, <3>2, <3>3 DEF Accept
    <3>7. QED
      BY <3>1, <3>4, <3>5, <3>6, Closed
  <2>7. ASSUME NEW r \in Requests, CleanUp(r) PROVE UploadsInv'
    <3>1. IsOpen(r) /\ request[r] \in Downloading
      BY <2>7, Stages DEF CleanUp, IsOpen, Does, UploadsInv
    <3>2. PICK code \in {413, 500, 504} :
              request' = [request EXCEPT ![r] =
                  [does |-> "answered", name |-> request[r].name, status |-> code]]
      BY <2>7 DEF CleanUp
    <3>3. request'[r] = [does |-> "answered", name |-> request[r].name, status |-> code]
      BY <3>2 DEF UploadsInv, UploadsTyped
    <3>4. request'[r] \in Answered /\ request'[r].name = request[r].name /\ ~Accepted(r)'
      BY <3>1, <3>3 DEF Downloading, Answered, Answers, Accepted
    <3>5. request' = [request EXCEPT ![r] = request'[r]]
      BY <3>2, <3>3
    <3>6. raw' = [raw EXCEPT ![request[r].name] = NoFile] /\ UNCHANGED <<content, contended, torn>>
      BY <2>7 DEF CleanUp, Removed
    <3>7. QED
      BY <3>1, <3>4, <3>5, <3>6, Closed
  <2>f. ASSUME NEW r \in Requests, CleanUpFails(r) PROVE UploadsInv'
    <3>1. IsOpen(r) /\ request[r] \in Downloading
      BY <2>f, Stages DEF CleanUpFails, IsOpen, Does, UploadsInv
    <3>2. PICK code \in {413, 500, 504} :
              request' = [request EXCEPT ![r] =
                  [does |-> "answered", name |-> request[r].name, status |-> code]]
      BY <2>f DEF CleanUpFails
    <3>3. request'[r] = [does |-> "answered", name |-> request[r].name, status |-> code]
      BY <3>2 DEF UploadsInv, UploadsTyped
    <3>4. request'[r] \in Answered /\ request'[r].name = request[r].name /\ ~Accepted(r)'
      BY <3>1, <3>3 DEF Downloading, Answered, Answers, Accepted
    <3>5. request' = [request EXCEPT ![r] = request'[r]]
      BY <3>2, <3>3
    <3>6. raw' = raw /\ torn' = torn \cup {request[r].name} /\ UNCHANGED <<content, contended>>
      BY <2>f DEF CleanUpFails
    <3>7. QED
      BY <3>1, <3>4, <3>5, <3>6, Closed
  <2>8. CASE DaemonEnds
    BY <2>8, EndOfDaemon
  <2>9. CASE UNCHANGED uploadVars
    BY <2>9 DEF uploadVars, UploadsInv, UploadsTyped, NamesInv, MadeFor, AloneInv, Alone, Settled,
        LeftInv, Left, IsOpen, Accepted, Contended, IsWhole, OpenFor, Does
  <2>10. QED
    BY <2>1, <2>2, <2>3, <2>4, <2>5, <2>6, <2>7, <2>f, <2>8, <2>9 DEF UploadsNext
<1>3. UploadsInv => AcceptedStays
  <2> SUFFICES ASSUME UploadsInv PROVE AcceptedStays
    OBVIOUS
  <2>1. \A r \in Requests \ contended : Accepted(r) => IsWhole(request[r].name)
    BY DEF UploadsInv, AloneInv, Settled
  <2>2. QED
    BY <2>1 DEF UploadsInv, LeftInv, Left, AcceptedStays
<1>4. QED
  BY <1>1, <1>2, <1>3, PTL DEF UploadsSpec
-----------------------------------------------------------------------------
(* AccessTokens.  A command works on what it has loaded, so what holds of    *)
(* the file has to hold of every loaded copy too, save for the users it has  *)
(* missed.  The limiter keeps what was let through beside what is left in    *)
(* the bucket.                                                               *)
AccessSpec == AccessInit /\ [][AccessNext]_accessVars

\* The part of AccessTypeOK that is about the file.
FileTyped ==
    /\ file \in (SUBSET Grants) \cup {Corrupt}
    /\ command \in [Commands -> Loaded \cup {Resting}]
    /\ issued \in 0 .. MaxIssued
    /\ wanted \in [Users -> Tokens \cup {None}]

OneEach(S) == \A g, h \in S : g.user = h.user => g = h
Agrees(S, u) == \A t \in Tokens : [token |-> t, user |-> u] \in S <=> wanted[u] = t

FileInv ==
    /\ FileTyped
    /\ file # Corrupt => OneEach(file) /\ \A u \in Users \ undone : Agrees(file, u)
    /\ \A c \in Commands : command[c] # Resting =>
          /\ OneEach(command[c].holds)
          /\ \A u \in Users \ (undone \cup command[c].missed) : Agrees(command[c].holds, u)

FloodInv ==
    /\ bucket \in [Addresses -> {Unseen} \cup 0 .. Capacity]
    /\ pressed \in [Addresses -> 0 .. Capacity]
    /\ \A a \in Addresses : pressed[a] + Level(a) <= Capacity
-----------------------------------------------------------------------------
LEMMA MinOfTwo ==
  ASSUME NEW x \in Int, NEW y \in Int
  PROVE  Min({x, y}) = IF x <= y THEN x ELSE y
<1> DEFINE P(m) == m \in {x, y} /\ \A z \in {x, y} : m <= z
<1>1. P(IF x <= y THEN x ELSE y)
  OBVIOUS
<1>2. \A m : P(m) => m = IF x <= y THEN x ELSE y
  OBVIOUS
<1>3. Min({x, y}) = CHOOSE m : P(m)
  BY DEF Min
<1>4. QED
  BY <1>1, <1>2, <1>3

LEMMA MaxOfTwo ==
  ASSUME NEW x \in Int, NEW y \in Int
  PROVE  Max({x, y}) = IF x >= y THEN x ELSE y
<1> DEFINE P(m) == m \in {x, y} /\ \A z \in {x, y} : m >= z
<1>1. P(IF x >= y THEN x ELSE y)
  OBVIOUS
<1>2. \A m : P(m) => m = IF x >= y THEN x ELSE y
  OBVIOUS
<1>3. Max({x, y}) = CHOOSE m : P(m)
  BY DEF Max
<1>4. QED
  BY <1>1, <1>2, <1>3

\* However requests of an address are spread over time, those let through never
\* exceed a full bucket beyond what has been refilled meanwhile.
THEOREM FloodsAreBounded ==
  ASSUME AccessAssumption
  PROVE  AccessSpec => []FloodIsBounded
<1> USE DEF AccessAssumption
<1>1. AccessInit => FloodInv
  BY DEF AccessInit, FloodInv, Level, Unseen
<1>2. FloodInv /\ [AccessNext]_accessVars => FloodInv'
  <2> SUFFICES ASSUME FloodInv, [AccessNext]_accessVars PROVE FloodInv'
    OBVIOUS
  <2>1. CASE UNCHANGED <<bucket, pressed>>
    BY <2>1 DEF FloodInv, Level
  <2>2. CASE Start
    BY <2>2 DEF Start, FloodInv, Level, Unseen
  <2>3. ASSUME NEW a \in Addresses, Request(a) PROVE FloodInv'
    <3>1. /\ bucket' = [bucket EXCEPT ![a] = Level(a) - 1]
          /\ pressed' = [pressed EXCEPT ![a] = @ + 1]
          /\ Level(a) >= 1
      BY <2>3 DEF Request, Taken
    <3>2. Level(a) \in 0 .. Capacity
      BY DEF FloodInv, Level, Unseen
    <3>3. pressed[a] + Level(a) <= Capacity /\ pressed[a] \in Nat
      BY DEF FloodInv
    <3>4. Level(a) - 1 \in 0 .. Capacity /\ pressed[a] + 1 \in 0 .. Capacity
      BY <3>1, <3>2, <3>3
    <3>5. /\ bucket' \in [Addresses -> {Unseen} \cup 0 .. Capacity]
          /\ pressed' \in [Addresses -> 0 .. Capacity]
      BY <3>1, <3>4 DEF FloodInv
    <3>6. ASSUME NEW b \in Addresses PROVE pressed'[b] + Level(b)' <= Capacity
      <4>1. CASE b = a
        BY <3>1, <3>2, <3>3, <4>1 DEF FloodInv, Level, Unseen
      <4>2. CASE b # a
        BY <3>1, <4>2 DEF FloodInv, Level
      <4>3. QED BY <4>1, <4>2
    <3>7. QED
      BY <3>5, <3>6 DEF FloodInv
  <2>4. CASE Tick
    <3>1. /\ bucket' = [a \in Addresses |->
                          IF bucket[a] = Unseen THEN Unseen ELSE Refilled(bucket[a])]
          /\ pressed' = [a \in Addresses |-> Max({0, pressed[a] - Refill})]
      BY <2>4 DEF Tick
    <3>2. ASSUME NEW a \in Addresses
          PROVE  /\ bucket'[a] \in {Unseen} \cup 0 .. Capacity
                 /\ pressed'[a] \in 0 .. Capacity
                 /\ pressed'[a] + Level(a)' <= Capacity
      <4>1. /\ bucket[a] \in {Unseen} \cup 0 .. Capacity
            /\ pressed[a] \in 0 .. Capacity
            /\ pressed[a] + Level(a) <= Capacity
        BY DEF FloodInv
      <4>2. pressed'[a] = IF 0 >= pressed[a] - Refill THEN 0 ELSE pressed[a] - Refill
        BY <3>1, <4>1, MaxOfTwo
      <4>3. CASE bucket[a] = Unseen
        BY <3>1, <4>1, <4>2, <4>3 DEF Level, Unseen
      <4>4. CASE bucket[a] # Unseen
        <5>1. bucket'[a] = IF Capacity <= bucket[a] + Refill THEN Capacity
                           ELSE bucket[a] + Refill
          BY <3>1, <4>1, <4>4, MinOfTwo DEF Refilled
        <5>2. QED
          BY <4>1, <4>2, <4>4, <5>1 DEF Level, Unseen
      <4>5. QED BY <4>3, <4>4
    <3>3. QED
      BY <3>1, <3>2 DEF FloodInv
  <2>5. ASSUME NEW c \in Commands,
               Add(c) \/ Revoke(c) \/ \E op \in {"add", "revoke"}, u \in Users : Load(c, op, u)
        PROVE  FloodInv'
    BY <2>1, <2>5 DEF Add, Revoke, Load
  <2>6. CASE Damage \/ Stop \/ UNCHANGED accessVars
    BY <2>1, <2>6 DEF Damage, Stop, accessVars
  <2>7. QED
    BY <2>2, <2>3, <2>4, <2>5, <2>6 DEF AccessNext
<1>3. FloodInv => FloodIsBounded
  BY DEF FloodInv, FloodIsBounded
<1>4. QED
  BY <1>1, <1>2, <1>3, PTL DEF AccessSpec
-----------------------------------------------------------------------------
\* A step that leaves the file and what the commands hold alone.
LEMMA FileUntouched ==
  ASSUME FileInv, UNCHANGED <<file, command, issued, wanted, undone>>
  PROVE  FileInv'
BY DEF FileInv, FileTyped, OneEach, Agrees

\* A command saves what it has made of its copy: its user's tokens, of which w is
\* the only one, and everybody else's.
Made(c, tokens, w) ==
    /\ command[c] \in Loaded
    /\ tokens \in SUBSET Grants
    /\ w \in Tokens \cup {None}
    /\ Saved(c, tokens)
    /\ wanted' = [wanted EXCEPT ![command[c].user] = w]
    /\ issued' \in 0 .. MaxIssued
    /\ OneEach(tokens)
    /\ \A t \in Tokens : [token |-> t, user |-> command[c].user] \in tokens <=> w = t
    /\ \A g \in Grants : g.user # command[c].user => (g \in tokens <=> g \in command[c].holds)

LEMMA SavedStep ==
  ASSUME FileInv, NEW c \in Commands, NEW tokens, NEW w, Made(c, tokens, w)
  PROVE  FileInv'
<1> USE DEF Made
<1> DEFINE v == command[c].user
<1>1. v \in Users /\ Resting \notin Loaded /\ command[c] # Resting
  BY DEF Loaded, Resting
<1>2. /\ file' = tokens
      /\ command' = [d \in Commands |->
            IF d = c THEN Resting
            ELSE IF command[d] = Resting THEN Resting
            ELSE [command[d] EXCEPT !.missed = @ \cup {v}]]
      /\ undone' = (undone \cup command[c].missed) \ {v}
  BY DEF Saved
<1>3. wanted' \in [Users -> Tokens \cup {None}] /\ wanted'[v] = w
      /\ \A u \in Users \ {v} : wanted'[u] = wanted[u]
  BY <1>1 DEF FileInv, FileTyped
<1>4. ASSUME NEW d \in Commands, command'[d] # Resting
      PROVE  /\ command[d] \in Loaded
             /\ command'[d] \in Loaded
             /\ command'[d].holds = command[d].holds
             /\ command'[d].missed = command[d].missed \cup {v}
  <2>1. d # c /\ command[d] # Resting
    BY <1>2, <1>4
  <2>2. command[d] \in Loaded /\ command'[d] = [command[d] EXCEPT !.missed = @ \cup {v}]
    BY <1>2, <2>1 DEF FileInv, FileTyped
  <2>3. QED
    BY <1>1, <2>2 DEF Loaded
<1>5. FileTyped'
  <2>1. command' \in [Commands -> Loaded \cup {Resting}]
    BY <1>2, <1>4
  <2>2. QED
    BY <1>2, <1>3, <2>1 DEF FileTyped
<1>6. ASSUME NEW u \in Users \ undone' PROVE Agrees(tokens, u)'
  <2>1. CASE u = v
    BY <1>3, <2>1 DEF Agrees
  <2>2. CASE u # v
    <3>1. u \in Users \ (undone \cup command[c].missed)
      BY <1>2, <1>6, <2>2
    <3>2. Agrees(command[c].holds, u)
      BY <1>1, <3>1 DEF FileInv
    <3>3. ASSUME NEW t \in Tokens
          PROVE  [token |-> t, user |-> u] \in tokens
                     <=> [token |-> t, user |-> u] \in command[c].holds
      BY <2>2 DEF Grants
    <3>4. QED
      BY <1>3, <2>2, <3>2, <3>3 DEF Agrees
  <2>3. QED BY <2>1, <2>2
<1>7. ASSUME NEW d \in Commands, command'[d] # Resting
      PROVE  /\ OneEach(command'[d].holds)
             /\ \A u \in Users \ (undone' \cup command'[d].missed) :
                   Agrees(command[d].holds, u)'
  <2>1. /\ command[d] # Resting
        /\ command'[d].holds = command[d].holds
        /\ command'[d].missed = command[d].missed \cup {v}
    BY <1>1, <1>4, <1>7
  <2>2. OneEach(command[d].holds)
    BY <2>1 DEF FileInv
  <2>3. ASSUME NEW u \in Users \ (undone' \cup command'[d].missed)
        PROVE  Agrees(command[d].holds, u)'
    <3>1. u # v /\ u \in Users \ (undone \cup command[d].missed)
      BY <1>2, <2>1
    <3>2. Agrees(command[d].holds, u)
      BY <2>1, <3>1 DEF FileInv
    <3>3. wanted'[u] = wanted[u]
      BY <1>3, <3>1
    <3>4. command'[d].holds = command[d].holds
      BY <2>1
    <3>5. QED
      BY <3>2, <3>3, <3>4 DEF Agrees
  <2>4. QED
    BY <2>1, <2>2, <2>3
<1>8. QED
  BY <1>2, <1>5, <1>6, <1>7 DEF FileInv, OneEach, Agrees

\* The copy of a command, without the tokens of its user.
LEMMA WithoutUser ==
  ASSUME NEW S \in SUBSET Grants, NEW u \in Users
  PROVE  /\ S \ TokensOf(S, u) \in SUBSET Grants
         /\ \A g \in S \ TokensOf(S, u) : g.user # u
         /\ \A g \in Grants : g.user # u => (g \in S \ TokensOf(S, u) <=> g \in S)
BY DEF TokensOf

LEMMA AccessIsKept ==
  ASSUME AccessAssumption
  PROVE  AccessSpec => []FileInv
<1> USE DEF AccessAssumption
<1>1. AccessInit => FileInv
  <2> SUFFICES ASSUME AccessInit PROVE FileInv
    OBVIOUS
  <2>1. FileTyped
    BY DEF AccessInit, FileTyped
  <2>2. OneEach(file) /\ \A u \in Users : Agrees(file, u)
    BY DEF AccessInit, OneEach, Agrees, Tokens, None
  <2>3. QED
    BY <2>1, <2>2 DEF AccessInit, FileInv
<1>2. FileInv /\ [AccessNext]_accessVars => FileInv'
  <2> SUFFICES ASSUME FileInv, [AccessNext]_accessVars PROVE FileInv'
    OBVIOUS
  <2>1. ASSUME NEW c \in Commands, NEW op \in {"add", "revoke"}, NEW u \in Users,
               Load(c, op, u)
        PROVE  FileInv'
    <3> DEFINE missed == IF file = Corrupt THEN Users ELSE {}
               new == [does |-> op, user |-> u, holds |-> Known, missed |-> missed]
    <3>1. command' = [command EXCEPT ![c] = new] /\ UNCHANGED <<file, issued, wanted, undone>>
      BY <2>1 DEF Load
    <3>2. Known \in SUBSET Grants
      BY DEF Known, FileInv, FileTyped
    <3>3. new \in Loaded
      BY <3>2 DEF Loaded
    <3>4. FileTyped'
      BY <3>1, <3>3 DEF FileInv, FileTyped
    <3>5. OneEach(Known)
      BY DEF Known, FileInv, OneEach
    <3>6. ASSUME NEW v \in Users \ (undone \cup missed) PROVE Agrees(Known, v)
      BY <3>6 DEF Known, FileInv
    <3>7. ASSUME NEW d \in Commands, command'[d] # Resting
          PROVE  /\ OneEach(command'[d].holds)
                 /\ \A v \in Users \ (undone' \cup command'[d].missed) :
                       Agrees(command[d].holds, v)'
      <4>1. CASE d = c
        <5>1. command'[d] = new
          BY <3>1, <4>1 DEF FileInv, FileTyped
        <5>2. QED
          BY <3>1, <3>5, <3>6, <5>1 DEF Agrees
      <4>2. CASE d # c
        <5>1. command'[d] = command[d]
          BY <3>1, <4>2 DEF FileInv, FileTyped
        <5>2. QED
          BY <3>1, <3>7, <5>1 DEF FileInv, Agrees
      <4>3. QED BY <4>1, <4>2
    <3>8. file' # Corrupt => OneEach(file)' /\ \A v \in Users \ undone' : Agrees(file, v)'
      BY <3>1 DEF FileInv, OneEach, Agrees
    <3>9. QED
      BY <3>4, <3>7, <3>8 DEF FileInv, OneEach
  <2>2. ASSUME NEW c \in Commands, Add(c) PROVE FileInv'
    <3> DEFINE u == command[c].user
               holds == command[c].holds
               grant == [token |-> issued + 1, user |-> u]
               kept == holds \ TokensOf(holds, u)
    <3>1. command[c] \in Loaded
      BY <2>2 DEF Add, FileInv, FileTyped, Resting
    <3>2. u \in Users /\ holds \in SUBSET Grants /\ issued + 1 \in Tokens
      BY <2>2, <3>1 DEF Add, Loaded, FileInv, FileTyped, Tokens
    <3>3. /\ Saved(c, kept \cup {grant})
          /\ wanted' = [wanted EXCEPT ![u] = issued + 1]
          /\ issued' = issued + 1
      BY <2>2 DEF Add, Dropped
    <3>4. /\ kept \in SUBSET Grants
          /\ \A g \in kept : g.user # u
          /\ \A g \in Grants : g.user # u => (g \in kept <=> g \in holds)
      BY <3>2, WithoutUser
    <3>5. grant \in Grants /\ grant.user = u /\ grant.token = issued + 1
      BY <3>2 DEF Grants
    <3>6. OneEach(holds)
      BY <3>1 DEF FileInv, Loaded, Resting
    <3>7. OneEach(kept \cup {grant})
      BY <3>4, <3>5, <3>6 DEF OneEach
    <3>8. ASSUME NEW t \in Tokens
          PROVE  [token |-> t, user |-> u] \in kept \cup {grant} <=> issued + 1 = t
      BY <3>4, <3>5
    <3>9. ASSUME NEW g \in Grants, g.user # u
          PROVE  g \in kept \cup {grant} <=> g \in holds
      BY <3>4, <3>5, <3>9
    <3>10. issued' \in 0 .. MaxIssued
      BY <3>2, <3>3 DEF Tokens
    <3>11. kept \cup {grant} \in SUBSET Grants
      BY <3>4, <3>5
    <3>12. Made(c, kept \cup {grant}, issued + 1)
      BY <3>1, <3>2, <3>3, <3>7, <3>8, <3>9, <3>10, <3>11 DEF Made
    <3>13. QED
      BY <3>12, SavedStep
  <2>3. ASSUME NEW c \in Commands, Revoke(c) PROVE FileInv'
    <3> DEFINE u == command[c].user
               holds == command[c].holds
               kept == holds \ TokensOf(holds, u)
    <3>1. command[c] \in Loaded
      BY <2>3 DEF Revoke, FileInv, FileTyped, Resting
    <3>2. u \in Users /\ holds \in SUBSET Grants
      BY <3>1 DEF Loaded
    <3>3. CASE TokensOf(holds, u) # {}
      <4>1. Saved(c, kept) /\ wanted' = [wanted EXCEPT ![u] = None] /\ issued' = issued
        BY <2>3, <3>3 DEF Revoke
      <4>2. /\ kept \in SUBSET Grants
            /\ \A g \in kept : g.user # u
            /\ \A g \in Grants : g.user # u => (g \in kept <=> g \in holds)
        BY <3>2, WithoutUser
      <4>3. OneEach(kept)
        BY <3>1 DEF FileInv, Loaded, Resting, OneEach
      <4>4. ASSUME NEW t \in Tokens
            PROVE  [token |-> t, user |-> u] \in kept <=> None = t
        BY <4>2 DEF Tokens, None
      <4>5. issued' \in 0 .. MaxIssued
        BY <4>1 DEF FileInv, FileTyped
      <4>6. Made(c, kept, None)
        BY <3>1, <4>1, <4>2, <4>3, <4>4, <4>5 DEF Made
      <4>7. QED
        BY <4>6, SavedStep
    <3>4. CASE TokensOf(holds, u) = {}
      <4>1. /\ command' = [command EXCEPT ![c] = Resting]
            /\ UNCHANGED <<file, undone, wanted, issued>>
        BY <2>3, <3>4 DEF Revoke
      <4>2. FileTyped'
        BY <4>1 DEF FileInv, FileTyped
      <4>3. ASSUME NEW d \in Commands, command'[d] # Resting PROVE command'[d] = command[d]
        BY <4>1, <4>3 DEF FileInv, FileTyped
      <4>4. QED
        BY <4>1, <4>2, <4>3 DEF FileInv, OneEach, Agrees
    <3>5. QED BY <3>3, <3>4
  <2>4. CASE Damage
    BY <2>4 DEF Damage, FileInv, FileTyped, OneEach, Agrees
  <2>5. CASE Start \/ Stop \/ Tick \/ \E a \in Addresses : Request(a)
    BY <2>5, FileUntouched DEF Start, Stop, Tick, Request
  <2>6. CASE UNCHANGED accessVars
    BY <2>6, FileUntouched DEF accessVars
  <2>7. QED
    BY <2>1, <2>2, <2>3, <2>4, <2>5, <2>6 DEF AccessNext
<1>3. QED
  BY <1>1, <1>2, PTL DEF AccessSpec

\* tokens.json has one token for a user at most, and for a user whose change no
\* other command has missed the one that was issued last.
THEOREM TokensAreHeld ==
  ASSUME AccessAssumption
  PROVE  AccessSpec => []TokensHold
<1>1. FileInv => TokensHold
  <2> SUFFICES ASSUME FileInv, file # Corrupt
               PROVE  /\ \A u \in Users : Cardinality(TokensOf(file, u)) <= 1
                      /\ \A u \in Users \ undone :
                            {g.token : g \in TokensOf(file, u)} = {wanted[u]} \ {None}
    BY DEF TokensHold
  <2>1. file \in SUBSET Grants /\ OneEach(file)
    BY DEF FileInv, FileTyped
  <2>2. ASSUME NEW u \in Users PROVE Cardinality(TokensOf(file, u)) <= 1
    <3>1. CASE TokensOf(file, u) = {}
      BY <3>1, FS_EmptySet
    <3>2. CASE TokensOf(file, u) # {}
      <4>1. PICK g \in TokensOf(file, u) : TRUE
        BY <3>2
      <4>2. TokensOf(file, u) = {g}
        BY <2>1, <4>1 DEF TokensOf, OneEach
      <4>3. Cardinality({g}) = 1
        BY FS_Singleton
      <4>4. QED
        BY <4>2, <4>3
    <3>3. QED BY <3>1, <3>2
  <2>3. ASSUME NEW u \in Users \ undone
        PROVE  {g.token : g \in TokensOf(file, u)} = {wanted[u]} \ {None}
    <3>1. Agrees(file, u)
      BY DEF FileInv
    <3>2. wanted[u] \in Tokens \cup {None} /\ None \notin Tokens
      BY DEF FileInv, FileTyped, Tokens, None
    <3>3. ASSUME NEW g \in TokensOf(file, u) PROVE g.token = wanted[u] /\ g.token # None
      <4>1. g \in Grants /\ g \in file /\ g.user = u
        BY <2>1 DEF TokensOf
      <4>2. g.token \in Tokens /\ g = [token |-> g.token, user |-> u]
        BY <4>1 DEF Grants
      <4>3. QED
        BY <3>1, <3>2, <4>1, <4>2 DEF Agrees
    <3>4. ASSUME wanted[u] # None PROVE \E g \in TokensOf(file, u) : g.token = wanted[u]
      <4>1. [token |-> wanted[u], user |-> u] \in file
        BY <3>1, <3>2, <3>4 DEF Agrees
      <4>2. QED
        BY <4>1 DEF TokensOf
    <3>5. QED
      BY <3>3, <3>4
  <2>4. QED
    BY <2>2, <2>3
<1>2. AccessSpec => []FileInv
  BY AccessIsKept
<1>3. QED
  BY <1>1, <1>2, PTL
-----------------------------------------------------------------------------
(* FactTable.  None of these needs that the passes of the daemon take turns: *)
(* what the event loop adds is that a search sees the table between two      *)
(* extractions.                                                              *)
\* Outside mixed, a writer that has found nothing to supersede has a page
\* without facts before it, and one that inserts sees only its own.
NothingActive(p) == \A f \in active : f[1] # p
Own(w) == \A f \in active : f[1] = writer[w].page => f[2] = writer[w].number

Exclusive(w) ==
    InTable(w) /\ writer[w].page \notin mixed =>
        /\ At(w, "selected") /\ writer[w].gone = {} => NothingActive(writer[w].page)
        /\ At(w, "writing") => Own(w)

ExtractionInv == OneExtraction /\ \A w \in Writers : Exclusive(w)

\* The index never lacks more, and never holds more, than a search may find.
IndexInv == active \ index \subseteq unindexed /\ index \ active \subseteq retired

\* What is on its way to the chain: a writer that has superseded and inserts, or
\* waits for its record; of a reindexing nothing ever gets there.
OnItsWay(w) == w \in Passes /\ writer[w].does \in {"writing", "recording"}
RecordInv ==
    /\ \A f \in active : \/ f \in attested \cup unattested
                         \/ \E w \in Writers : OnItsWay(w) /\ f \in writer[w].news
    /\ \A f \in superseded : \/ f \in retracted \cup unattested
                             \/ \E w \in Writers : OnItsWay(w) /\ f \in writer[w].gone
-----------------------------------------------------------------------------
\* The number of the next fact is one of the extraction.
LEMMA NextFactIsFact ==
  ASSUME FactAssumption, FactTypeOK, NEW w \in Writers, Writing(w)
  PROVE  /\ NextFact(w) \in Facts
         /\ NextFact(w)[1] = writer[w].page
         /\ NextFact(w)[2] = writer[w].number
<1>1. writer[w] \in Extracting
  BY DEF FactTypeOK, Writing, At, Idle
<1>2. writer[w].next \in 1 .. PerPage
  BY <1>1 DEF Writing, Extracting, FactAssumption
<1>3. QED
  BY <1>1, <1>2 DEF NextFact, Facts, Extracting

\* The variables keep their types: every fact is of a page and an extraction, and
\* a writer never inserts more than its extraction has.
THEOREM FactsTyped ==
  ASSUME FactAssumption
  PROVE  FactSpec => []FactTypeOK
<1>1. FactInit => FactTypeOK
  BY DEF FactInit, FactTypeOK, FactAssumption
<1>2. FactTypeOK /\ [FactNext]_factVars => FactTypeOK'
  <2> SUFFICES ASSUME FactTypeOK, [FactNext]_factVars PROVE FactTypeOK'
    OBVIOUS
  <2> USE DEF FactTypeOK, FactAssumption
  <2>1. ASSUME NEW w \in Writers, NEW p \in Pages, Extract(w, p) \/ Reindex(w, p) PROVE FactTypeOK'
    <3>1. AskModel(w, p)
      BY <2>1 DEF Extract, Reindex
    <3>2. writer'[w] \in Extracting /\ extractions' \in 0 .. MaxExtractions
      BY <3>1 DEF AskModel, Extracting
    <3>3. QED
      BY <3>1, <3>2 DEF AskModel, chain
  <2>2. ASSUME NEW w \in Writers, ExtractNothing(w) PROVE FactTypeOK'
    BY <2>2 DEF ExtractNothing, chain
  <2>3. ASSUME NEW w \in Writers, SelectActive(w) PROVE FactTypeOK'
    <3>1. writer[w] \in Extracting
      BY <2>3 DEF SelectActive, At, Idle
    <3>2. writer'[w] \in Extracting
      BY <2>3, <3>1 DEF SelectActive, Extracting, Of
    <3>3. QED
      BY <2>3, <3>2 DEF SelectActive, chain
  <2>4. ASSUME NEW w \in Writers, Supersede(w) PROVE FactTypeOK'
    <3>1. writer[w] \in Extracting
      BY <2>4 DEF Supersede, At, Idle
    <3>2. writer'[w] \in Extracting /\ mixed' \subseteq Pages
      BY <2>4, <3>1 DEF Supersede, Extracting
    <3>3. Superseded(w) \subseteq Facts
      BY DEF Superseded, Of
    <3>4. QED
      BY <2>4, <3>2, <3>3 DEF Supersede, chain
  <2>5. ASSUME NEW w \in Writers, Insert(w) \/ Reinsert(w) \/ InsertFails(w) PROVE FactTypeOK'
    <3>1. Writing(w)
      BY <2>5 DEF Insert, Reinsert, InsertFails, InsertRow
    <3>2. writer[w] \in Extracting /\ NextFact(w) \in Facts
      BY <3>1, NextFactIsFact DEF Writing, At, Idle
    <3>3. MixedBy(w) \subseteq Pages
      BY <3>2 DEF MixedBy, Extracting
    <3>4. writer[w].next + 1 \in 1 .. PerPage + 1
      BY <3>1, <3>2 DEF Writing, Extracting
    <3>5. CASE InsertRow(w)
      <4>1. writer'[w] \in Extracting
        BY <3>2, <3>4, <3>5 DEF InsertRow, Extracting
      <4>2. writer' \in [Writers -> Extracting \cup {Idle}]
        BY <3>5, <4>1 DEF InsertRow
      <4>3. active' \subseteq Facts /\ mixed' \subseteq Pages
        BY <3>2, <3>3, <3>5 DEF InsertRow
      <4>4. index' \subseteq Facts /\ unindexed' \subseteq Facts /\ unattested' \subseteq Facts
        BY <2>5, <3>2 DEF Insert, Reinsert, InsertFails, Indexed
      <4>5. QED
        BY <3>5, <4>2, <4>3, <4>4 DEF InsertRow, chain
    <3>6. CASE InsertFails(w)
      <4>1. writer'[w] \in Extracting
        BY <3>2, <3>4, <3>6 DEF InsertFails, Extracting
      <4>2. writer' \in [Writers -> Extracting \cup {Idle}]
        BY <3>6, <4>1 DEF InsertFails
      <4>3. active' \subseteq Facts /\ unindexed' \subseteq Facts /\ unattested' \subseteq Facts
        BY <3>2, <3>6 DEF InsertFails
      <4>4. mixed' \subseteq Pages /\ faults' \in 0 .. MaxFaults
        BY <3>3, <3>6 DEF InsertFails, Fault
      <4>5. QED
        BY <3>6, <4>2, <4>3, <4>4 DEF InsertFails, chain
    <3>7. QED
      BY <2>5, <3>5, <3>6 DEF Insert, Reinsert
  <2>6. ASSUME NEW w \in Writers, Inserted(w) PROVE FactTypeOK'
    <3>1. writer[w] \in Extracting
      BY <2>6 DEF Inserted, At, Idle
    <3>2. [writer[w] EXCEPT !.does = "recording"] \in Extracting
      BY <3>1 DEF Extracting
    <3>3. QED
      BY <2>6, <3>2 DEF Inserted, chain
  <2>7. ASSUME NEW w \in Writers, Record(w) \/ RecordFails(w) PROVE FactTypeOK'
    <3>1. writer[w] \in Extracting
      BY <2>7 DEF Record, RecordFails, At, Idle
    <3>2. writer[w].news \subseteq Facts /\ writer[w].gone \subseteq Facts
      BY <3>1 DEF Extracting
    <3>3. Unrecorded({w}) \subseteq Facts
      BY <3>2 DEF Unrecorded
    <3>4. CASE Record(w)
      BY <3>2, <3>4 DEF Record
    <3>5. CASE RecordFails(w)
      BY <3>3, <3>5 DEF RecordFails, Fault, chain
    <3>6. QED
      BY <2>7, <3>4, <3>5
  <2>8. CASE Restart
    <3>1. Unrecorded(Passes) \subseteq Facts
      <4>1. ASSUME NEW w \in Passes, ~At(w, "idle")
            PROVE  writer[w].news \cup writer[w].gone \subseteq Facts
        BY <4>1 DEF At, Idle, Extracting, Writers
      <4>2. QED
        BY <4>1 DEF Unrecorded
    <3>2. QED
      BY <2>8, <3>1 DEF Restart, Fault, Rebuilt, chain
  <2>9. ASSUME NEW w \in Writers, ReindexerDies(w) \/ SupersedeFails(w) PROVE FactTypeOK'
    BY <2>9 DEF ReindexerDies, SupersedeFails, Fault, chain
  <2>10. CASE UNCHANGED factVars
    BY <2>10 DEF factVars
  <2>11. QED
    BY <2>1, <2>2, <2>3, <2>4, <2>5, <2>6, <2>7, <2>8, <2>9, <2>10 DEF FactNext
<1>3. QED
  BY <1>1, <1>2, PTL DEF FactSpec
-----------------------------------------------------------------------------
\* What an inserting writer leaves behind, of each of the three kinds.
LEMMA InsertingStep ==
  ASSUME FactAssumption, FactTypeOK, NEW w \in Writers,
         Insert(w) \/ Reinsert(w) \/ InsertFails(w)
  PROVE  /\ Writing(w)
         /\ active' \in {active, active \cup {NextFact(w)}}
         /\ mixed' = MixedBy(w)
         /\ \A v \in Writers :
               /\ v # w => writer'[v] = writer[v]
               /\ writer'[v].does = writer[v].does
               /\ InTable(v) => writer'[v].page = writer[v].page
                                /\ writer'[v].number = writer[v].number
                                /\ writer'[v].gone = writer[v].gone
<1>1. Writing(w) /\ writer[w] \in Extracting
  BY DEF Insert, Reinsert, InsertFails, InsertRow, Writing, At, Idle, FactTypeOK
<1>2. mixed' = MixedBy(w)
  BY DEF Insert, Reinsert, InsertFails, InsertRow
<1>3. active' \in {active, active \cup {NextFact(w)}}
  <2>1. CASE InsertRow(w)
    BY <2>1 DEF InsertRow
  <2>2. CASE InsertFails(w)
    <3>1. PICK half \in SUBSET {NextFact(w)} : active' = active \cup half
      BY <2>2 DEF InsertFails
    <3>2. half = {} \/ half = {NextFact(w)}
      OBVIOUS
    <3>3. QED
      BY <3>1, <3>2
  <2>3. QED
    BY <2>1, <2>2 DEF Insert, Reinsert
<1>4. \/ writer' = [writer EXCEPT ![w].next = @ + 1]
      \/ writer' = [writer EXCEPT ![w].next = @ + 1, ![w].news = @ \cup {NextFact(w)}]
  BY DEF Insert, Reinsert, InsertFails, InsertRow
<1>5. /\ \A v \in Writers : v # w => writer'[v] = writer[v]
      /\ writer'[w].does = writer[w].does
      /\ writer'[w].page = writer[w].page
      /\ writer'[w].number = writer[w].number
      /\ writer'[w].gone = writer[w].gone
  BY <1>1, <1>4 DEF FactTypeOK, Extracting
<1>6. QED
  BY <1>1, <1>2, <1>3, <1>5

\* The active facts of a page come from one extraction, whatever writers stop
\* half-way, unless two have written the page at once.
THEOREM OneExtractionPerPage ==
  ASSUME FactAssumption
  PROVE  FactSpec => []OneExtraction
<1>1. FactInit => ExtractionInv
  BY DEF FactInit, ExtractionInv, OneExtraction, Exclusive, InTable, Idle
<1>2. FactTypeOK /\ ExtractionInv /\ [FactNext]_factVars => ExtractionInv'
  <2> SUFFICES ASSUME FactTypeOK, ExtractionInv, [FactNext]_factVars PROVE ExtractionInv'
    OBVIOUS
  <2> USE DEF ExtractionInv
  \* Steps that leave the table alone, and bring no writer into it.
  <2>1. ASSUME UNCHANGED <<active, mixed>>,
               \A v \in Writers : writer'[v] = writer[v] \/ ~InTable(v)'
        PROVE  ExtractionInv'
    BY <2>1 DEF OneExtraction, Exclusive, NothingActive, Own, InTable, At
  <2>2. ASSUME NEW w \in Writers, NEW p \in Pages, Extract(w, p) \/ Reindex(w, p)
        PROVE  ExtractionInv'
    <3>1. AskModel(w, p)
      BY <2>2 DEF Extract, Reindex
    <3>2. \A v \in Writers : writer'[v] = writer[v] \/ ~InTable(v)'
      BY <3>1 DEF AskModel, InTable, FactTypeOK
    <3>3. QED
      BY <2>1, <3>1, <3>2 DEF AskModel
  <2>3. ASSUME NEW w \in Writers,
               \/ ExtractNothing(w) \/ Inserted(w) \/ Record(w) \/ RecordFails(w)
               \/ ReindexerDies(w) \/ SupersedeFails(w)
        PROVE  ExtractionInv'
    <3>1. UNCHANGED <<active, mixed>>
      BY <2>3 DEF ExtractNothing, Inserted, Record, RecordFails, ReindexerDies, SupersedeFails
    <3>2. \/ writer' = [writer EXCEPT ![w] = Idle]
          \/ writer' = [writer EXCEPT ![w] = [@ EXCEPT !.does = "recording"]]
             /\ writer[w] \in Extracting
      BY <2>3 DEF ExtractNothing, Inserted, Record, RecordFails, ReindexerDies, SupersedeFails,
                  FactTypeOK, At, Idle
    <3>3. \A v \in Writers : writer'[v] = writer[v] \/ ~InTable(v)'
      BY <3>2 DEF InTable, Idle, FactTypeOK, Extracting
    <3>4. QED
      BY <2>1, <3>1, <3>3
  <2>4. CASE Restart
    <3>1. \A v \in Writers : writer'[v] = writer[v] \/ ~InTable(v)'
      BY <2>4 DEF Restart, InTable, Idle
    <3>2. QED
      BY <2>1, <2>4, <3>1 DEF Restart
  <2>5. ASSUME NEW w \in Writers, SelectActive(w) PROVE ExtractionInv'
    <3>1. writer[w] \in Extracting
      BY <2>5 DEF SelectActive, At, Idle, FactTypeOK
    <3>2. /\ UNCHANGED <<active, mixed>>
          /\ \A v \in Writers \ {w} : writer'[v] = writer[v]
          /\ writer'[w].does = "selected"
          /\ writer'[w].page = writer[w].page
          /\ writer'[w].gone = Of(active, writer[w].page)
      BY <2>5, <3>1 DEF SelectActive, FactTypeOK, Extracting
    <3>3. Exclusive(w)'
      BY <3>2 DEF Exclusive, NothingActive, Of, At
    <3>4. ASSUME NEW v \in Writers \ {w} PROVE Exclusive(v)'
      BY <3>2 DEF Exclusive, NothingActive, Own, InTable, At
    <3>5. QED
      BY <3>2, <3>3, <3>4 DEF OneExtraction
  <2>6. ASSUME NEW w \in Writers, Supersede(w) PROVE ExtractionInv'
    <3> DEFINE p == writer[w].page
    <3>1. writer[w] \in Extracting
      BY <2>6 DEF Supersede, At, Idle, FactTypeOK
    <3>2. /\ \A v \in Writers \ {w} : writer'[v] = writer[v]
          /\ writer'[w].does = "writing"
          /\ writer'[w].page = p
          /\ writer'[w].number = writer[w].number
      BY <2>6, <3>1 DEF Supersede, FactTypeOK, Extracting
    <3>3. active' \subseteq active
      BY <2>6 DEF Supersede
    <3>4. CASE Overlap(w)
      <4>1. mixed' = mixed \cup {p}
        BY <2>6, <3>4 DEF Supersede
      <4>2. QED
        BY <3>2, <3>3, <4>1 DEF OneExtraction, Exclusive, NothingActive, Own, InTable, At
    <3>5. CASE ~Overlap(w)
      <4>1. \A v \in Writers \ {w} : InTable(v) => writer[v].page # p
        BY <3>5 DEF Overlap
      <4>2. \A q \in Pages \ {p} : q \in mixed' <=> q \in mixed
        BY <2>6, <3>5 DEF Supersede
      <4>3. p \notin mixed' => \A f \in active' : f[1] # p
        <5>1. CASE writer[w].gone # {}
          BY <2>6, <5>1 DEF Supersede, Superseded, Of
        <5>2. CASE writer[w].gone = {}
          <6>1. mixed' = mixed /\ InTable(w) /\ At(w, "selected")
            BY <2>6, <3>5, <5>2 DEF Supersede, InTable, At
          <6>2. QED
            BY <3>3, <5>2, <6>1 DEF Exclusive, NothingActive
        <5>3. QED BY <5>1, <5>2
      <4>4. Exclusive(w)'
        BY <3>2, <4>3 DEF Exclusive, Own, At
      <4>5. ASSUME NEW v \in Writers \ {w} PROVE Exclusive(v)'
        <5>1. SUFFICES ASSUME InTable(v), writer[v].page \notin mixed' PROVE Exclusive(v)'
          BY <3>2 DEF Exclusive, InTable
        <5>2. writer[v] \in Extracting
          BY <5>1 DEF FactTypeOK, InTable, Idle
        <5>3. writer[v].page \in Pages \ {p}
          BY <4>1, <5>1, <5>2 DEF Extracting
        <5>4. QED
          BY <3>2, <3>3, <4>2, <5>1, <5>3 DEF Exclusive, NothingActive, Own, At
      <4>6. ASSUME NEW f \in active', NEW g \in active', f[1] = g[1], f[1] \notin mixed'
            PROVE  f[2] = g[2]
        <5>1. f \in Facts
          BY <3>3 DEF FactTypeOK
        <5>2. f[1] \in Pages \ {p}
          BY <4>3, <4>6, <5>1 DEF Facts
        <5>3. QED
          BY <3>3, <4>2, <4>6, <5>2 DEF OneExtraction
      <4>7. QED
        BY <4>4, <4>5, <4>6 DEF OneExtraction
    <3>6. QED
      BY <3>4, <3>5
  <2>7. ASSUME NEW w \in Writers, Insert(w) \/ Reinsert(w) \/ InsertFails(w)
        PROVE  ExtractionInv'
    <3> DEFINE p == writer[w].page
    <3>1. /\ Writing(w)
          /\ active' \in {active, active \cup {NextFact(w)}}
          /\ mixed' = MixedBy(w)
          /\ \A v \in Writers :
                /\ v # w => writer'[v] = writer[v]
                /\ writer'[v].does = writer[v].does
                /\ InTable(v) => writer'[v].page = writer[v].page
                                 /\ writer'[v].number = writer[v].number
                                 /\ writer'[v].gone = writer[v].gone
      BY <2>7, InsertingStep
    <3>2. /\ NextFact(w)[1] = p
          /\ NextFact(w)[2] = writer[w].number
      BY <3>1, NextFactIsFact
    <3>3. InTable(w) /\ At(w, "writing") /\ ~At(w, "selected")
      BY <3>1 DEF Writing, At, InTable
    <3>4. p \notin mixed' => /\ p \notin mixed /\ Own(w)
                             /\ \A v \in Writers \ {w} : InTable(v) => writer[v].page # p
      BY <3>1, <3>3 DEF MixedBy, Overlap, Exclusive
    <3>5. \A q : q \notin mixed' => q \notin mixed
      BY <3>1 DEF MixedBy
    <3>6. ASSUME NEW v \in Writers PROVE Exclusive(v)'
      <4>1. SUFFICES ASSUME InTable(v), writer[v].page \notin mixed' PROVE Exclusive(v)'
        BY <3>1 DEF Exclusive, InTable
      <4>2. CASE v = w
        BY <3>1, <3>2, <3>3, <3>4, <4>1, <4>2 DEF Exclusive, Own, At
      <4>3. CASE v # w
        <5>1. writer[v].page # p
          BY <3>4, <4>1, <4>3
        <5>2. QED
          BY <3>1, <3>2, <3>5, <4>1, <4>3, <5>1 DEF Exclusive, NothingActive, Own, At
      <4>4. QED BY <4>2, <4>3
    <3>7. ASSUME NEW f \in active', NEW g \in active', f[1] = g[1], f[1] \notin mixed'
          PROVE  f[2] = g[2]
      <4>1. CASE f[1] = p
        <5>1. Own(w)
          BY <3>4, <3>7, <4>1
        <5>2. ASSUME NEW h \in active', h[1] = p PROVE h[2] = writer[w].number
          BY <3>1, <3>2, <5>1, <5>2 DEF Own
        <5>3. f[2] = writer[w].number
          BY <4>1, <5>2
        <5>4. g[1] = p
          BY <3>7, <4>1
        <5>5. g[2] = writer[w].number
          BY <5>2, <5>4
        <5>6. QED
          BY <5>3, <5>5
      <4>2. CASE f[1] # p
        BY <3>1, <3>2, <3>5, <3>7, <4>2 DEF OneExtraction
      <4>3. QED BY <4>1, <4>2
    <3>8. QED
      BY <3>6, <3>7 DEF OneExtraction
  <2>8. CASE UNCHANGED factVars
    BY <2>1, <2>8 DEF factVars
  <2>9. QED
    BY <2>2, <2>3, <2>4, <2>5, <2>6, <2>7, <2>8 DEF FactNext
<1>3. QED
  BY <1>1, <1>2, FactsTyped, PTL DEF FactSpec, ExtractionInv
-----------------------------------------------------------------------------
\* Between two extractions the index lacks only active facts that came from
\* elsewhere or failed half-way, and holds only superseded ones too many.
THEOREM IndexFollowsTable == FactSpec => []IndexFollows
<1>1. FactInit => IndexInv
  BY DEF FactInit, IndexInv
<1>2. IndexInv /\ [FactNext]_factVars => IndexInv'
  <2> SUFFICES ASSUME IndexInv, [FactNext]_factVars PROVE IndexInv'
    OBVIOUS
  <2> USE DEF IndexInv
  <2>1. CASE UNCHANGED <<active, index, unindexed, retired>>
    BY <2>1
  <2>2. ASSUME NEW w \in Writers, Supersede(w) PROVE IndexInv'
    BY <2>2 DEF Supersede
  <2>3. ASSUME NEW w \in Writers, Insert(w) PROVE IndexInv'
    BY <2>3 DEF Insert, InsertRow, Indexed
  <2>4. ASSUME NEW w \in Writers, Reinsert(w) PROVE IndexInv'
    BY <2>4 DEF Reinsert, InsertRow
  <2>5. ASSUME NEW w \in Writers, InsertFails(w) PROVE IndexInv'
    BY <2>5 DEF InsertFails
  <2>6. CASE Restart
    BY <2>6 DEF Restart, Rebuilt
  <2>7. ASSUME NEW w \in Writers,
               \/ \E p \in Pages : Extract(w, p) \/ Reindex(w, p)
               \/ ExtractNothing(w) \/ SelectActive(w) \/ Inserted(w)
               \/ Record(w) \/ RecordFails(w) \/ ReindexerDies(w) \/ SupersedeFails(w)
        PROVE  IndexInv'
    BY <2>1, <2>7 DEF Extract, Reindex, AskModel, ExtractNothing, SelectActive, Inserted,
                      Record, RecordFails, ReindexerDies, SupersedeFails
  <2>8. CASE UNCHANGED factVars
    BY <2>1, <2>8 DEF factVars
  <2>9. QED
    BY <2>2, <2>3, <2>4, <2>5, <2>6, <2>7, <2>8 DEF FactNext
<1>3. IndexInv => IndexFollows
  BY DEF IndexInv, IndexFollows
<1>4. QED
  BY <1>1, <1>2, <1>3, PTL DEF FactSpec
-----------------------------------------------------------------------------
\* The chain, and what is on its way to it, says which facts came and went, with
\* the exceptions that unattested collects.
THEOREM FactsGoOnRecord ==
  ASSUME FactAssumption
  PROVE  FactSpec => []FactsAreOnRecord
<1>1. FactInit => RecordInv
  BY DEF FactInit, RecordInv
<1>2. FactTypeOK /\ RecordInv /\ [FactNext]_factVars => RecordInv'
  <2> SUFFICES ASSUME FactTypeOK, RecordInv, [FactNext]_factVars PROVE RecordInv'
    OBVIOUS
  <2> USE DEF RecordInv, OnItsWay
  \* Steps that disturb nothing but writers that have nothing on its way.
  <2>1. ASSUME UNCHANGED <<active, superseded, attested, retracted>>,
               unattested \subseteq unattested',
               \A v \in Writers : \/ writer'[v] = writer[v]
                                  \/ ~OnItsWay(v)
                                  \/ writer[v].news \cup writer[v].gone \subseteq unattested'
                                  \/ writer[v].news = {} /\ writer[v].gone = {}
        PROVE  RecordInv'
    BY <2>1
  <2>2. ASSUME NEW w \in Writers, NEW p \in Pages, Extract(w, p) \/ Reindex(w, p)
        PROVE  RecordInv'
    <3>1. AskModel(w, p)
      BY <2>2 DEF Extract, Reindex
    <3>2. \A v \in Writers : writer'[v] = writer[v] \/ ~OnItsWay(v)
      BY <3>1 DEF AskModel, FactTypeOK, At
    <3>3. QED
      BY <2>1, <3>1, <3>2 DEF AskModel, chain
  <2>3. ASSUME NEW w \in Writers, ExtractNothing(w) \/ SelectActive(w) \/ SupersedeFails(w)
        PROVE  RecordInv'
    <3>1. \A v \in Writers : writer'[v] = writer[v] \/ ~OnItsWay(v)
      BY <2>3 DEF ExtractNothing, SelectActive, SupersedeFails, FactTypeOK, At
    <3>2. QED
      BY <2>1, <2>3, <3>1 DEF ExtractNothing, SelectActive, SupersedeFails, chain
  <2>4. ASSUME NEW w \in Writers, Supersede(w) PROVE RecordInv'
    <3>1. writer[w] \in Extracting /\ At(w, "selected")
      BY <2>4 DEF Supersede, At, Idle, FactTypeOK
    <3>2. /\ \A v \in Writers \ {w} : writer'[v] = writer[v]
          /\ writer'[w].does = "writing" /\ writer'[w].gone = writer[w].gone
      BY <2>4, <3>1 DEF Supersede, FactTypeOK, Extracting
    <3>3. ~OnItsWay(w)
      BY <3>1 DEF At
    <3>4. PICK old : /\ active' = active \ old
                     /\ superseded' = superseded \cup old
                     /\ unattested' = unattested \cup
                            IF w \in Passes THEN old \ writer[w].gone ELSE old
      BY <2>4 DEF Supersede
    <3>5. UNCHANGED <<attested, retracted>>
      BY <2>4 DEF Supersede, chain
    <3>6. ASSUME NEW f \in superseded'
          PROVE  \/ f \in retracted' \cup unattested'
                 \/ \E v \in Writers : OnItsWay(v)' /\ f \in writer'[v].gone
      <4>1. CASE f \in superseded
        BY <3>2, <3>3, <3>4, <3>5, <4>1
      <4>2. CASE f \in old
        BY <3>2, <3>4, <4>2
      <4>3. QED BY <3>4, <4>1, <4>2
    <3>7. ASSUME NEW f \in active'
          PROVE  \/ f \in attested' \cup unattested'
                 \/ \E v \in Writers : OnItsWay(v)' /\ f \in writer'[v].news
      BY <3>2, <3>3, <3>4, <3>5
    <3>8. QED
      BY <3>6, <3>7
  <2>5. ASSUME NEW w \in Writers, Insert(w) \/ Reinsert(w) \/ InsertFails(w)
        PROVE  RecordInv'
    <3>1. Writing(w) /\ writer[w] \in Extracting
      BY <2>5 DEF Insert, Reinsert, InsertFails, InsertRow, Writing, At, Idle, FactTypeOK
    <3>2. UNCHANGED <<superseded, attested, retracted>>
      BY <2>5 DEF Insert, Reinsert, InsertFails, InsertRow, chain
    <3>3. \A v \in Writers : /\ writer'[v].does = writer[v].does
                             /\ OnItsWay(v) => /\ writer[v].news \subseteq writer'[v].news
                                               /\ writer'[v].gone = writer[v].gone
      BY <2>5, <3>1 DEF Insert, Reinsert, InsertFails, InsertRow, FactTypeOK, Extracting
    <3>4. unattested \subseteq unattested'
      BY <2>5 DEF Insert, Reinsert, InsertFails
    <3>5. ASSUME NEW f \in active' \ active
          PROVE  \/ f \in unattested'
                 \/ OnItsWay(w)' /\ f \in writer'[w].news
      <4>1. CASE Insert(w)
        BY <3>1, <3>5, <4>1 DEF Insert, InsertRow, FactTypeOK, Writing, At, Extracting
      <4>2. CASE Reinsert(w)
        BY <3>5, <4>2 DEF Reinsert, InsertRow
      <4>3. CASE InsertFails(w)
        BY <3>5, <4>3 DEF InsertFails
      <4>4. QED BY <2>5, <4>1, <4>2, <4>3
    <3>6. QED
      BY <3>2, <3>3, <3>4, <3>5
  <2>6. ASSUME NEW w \in Writers, Inserted(w) PROVE RecordInv'
    <3>1. CASE w \in Passes /\ Notable(w)
      <4>1. writer[w] \in Extracting
        BY <2>6 DEF Inserted, At, Idle, FactTypeOK
      <4>2. /\ \A v \in Writers \ {w} : writer'[v] = writer[v]
            /\ writer'[w].does = "recording"
            /\ writer'[w].news = writer[w].news
            /\ writer'[w].gone = writer[w].gone
        BY <2>6, <3>1, <4>1 DEF Inserted, FactTypeOK, Extracting
      <4>3. QED
        BY <2>6, <3>1, <4>2 DEF Inserted, chain
    <3>2. CASE ~(w \in Passes /\ Notable(w))
      <4>1. \A v \in Writers : \/ writer'[v] = writer[v]
                               \/ ~OnItsWay(v)
                               \/ writer[v].news = {} /\ writer[v].gone = {}
        BY <2>6, <3>2 DEF Inserted, Notable, FactTypeOK
      <4>2. QED
        BY <2>1, <2>6, <4>1 DEF Inserted, chain
    <3>3. QED
      BY <3>1, <3>2
  <2>7. ASSUME NEW w \in Writers, Record(w) PROVE RecordInv'
    <3>1. \A v \in Writers \ {w} : writer'[v] = writer[v]
      BY <2>7 DEF Record, FactTypeOK
    <3>2. QED
      BY <2>7, <3>1 DEF Record
  <2>8. ASSUME NEW w \in Writers, RecordFails(w) PROVE RecordInv'
    <3>1. writer[w].news \cup writer[w].gone \subseteq unattested'
      BY <2>8 DEF RecordFails, Unrecorded, At
    <3>2. \A v \in Writers \ {w} : writer'[v] = writer[v]
      BY <2>8 DEF RecordFails, FactTypeOK
    <3>3. QED
      BY <2>1, <2>8, <3>1, <3>2 DEF RecordFails, chain
  <2>9. CASE Restart
    <3>1. ASSUME NEW v \in Writers, OnItsWay(v)
          PROVE  writer[v].news \cup writer[v].gone \subseteq unattested'
      BY <2>9, <3>1 DEF Restart, Unrecorded, At
    <3>2. \A v \in Writers : writer'[v] = writer[v] \/ v \in Passes
      BY <2>9 DEF Restart
    <3>3. QED
      BY <2>1, <2>9, <3>1, <3>2 DEF Restart, chain
  <2>10. ASSUME NEW w \in Writers, ReindexerDies(w) PROVE RecordInv'
    <3>1. ~OnItsWay(w)
      BY <2>10 DEF ReindexerDies, FactAssumption
    <3>2. \A v \in Writers \ {w} : writer'[v] = writer[v]
      BY <2>10 DEF ReindexerDies, FactTypeOK
    <3>3. QED
      BY <2>1, <2>10, <3>1, <3>2 DEF ReindexerDies, chain
  <2>11. CASE UNCHANGED factVars
    BY <2>1, <2>11 DEF factVars, chain
  <2>12. QED
    BY <2>2, <2>3, <2>4, <2>5, <2>6, <2>7, <2>8, <2>9, <2>10, <2>11 DEF FactNext
<1>3. RecordInv => FactsAreOnRecord
  <2>1. SUFFICES ASSUME RecordInv PROVE FactsAreOnRecord
    OBVIOUS
  <2>2. ASSUME NEW w \in Writers, OnItsWay(w)
        PROVE  writer[w].news \cup writer[w].gone \subseteq
                 UNION {writer[v].news \cup writer[v].gone :
                           v \in {v \in Writers : ~At(v, "idle")}}
    BY <2>2 DEF OnItsWay, At
  <2>3. QED
    BY <2>1, <2>2 DEF RecordInv, FactsAreOnRecord
<1>4. QED
  BY <1>1, <1>2, <1>3, FactsTyped, PTL DEF FactSpec

-----------------------------------------------------------------------------
(* ModelCalls.  A process that is not done and was not left behind by a      *)
(* daemon belongs to the batch of a slot that waits for it; through the API  *)
(* there are none.  Appending never loses a batch of the ledger: only a line *)
(* that was broken off is overwritten.                                       *)
CallsSpec == Calls!CallsInit /\ [][Calls!CallsNext]_callVars

CallTyped ==
    /\ call \in [Slots -> Calls!Calls \cup {Calls!Free}]
    /\ agents \in [Calls!Batches -> {"none", "running", "told"}]
    /\ ledger \in Seq(Calls!Batches \cup {Calls!Junk})
    /\ started \in 0 .. MaxBatches

Processes == \A b \in Calls!Batches \ orphaned :
    agents[b] # "none" => \E s \in Slots : Calls!Does(s, "waiting") /\ call[s].batch = b
Listed == Calls!Listed \cup unlisted \cup Calls!Pending

CallInv ==
    /\ CallTyped
    /\ mode = "api" => \A b \in Calls!Batches : agents[b] = "none"
    /\ open => ledger # <<>> /\ ledger[Len(ledger)] = Calls!Junk
    /\ Processes
    /\ failed \subseteq Listed

\* A slot that moves on keeps its batch.
LEMMA GoesOn ==
    ASSUME CallTyped, NEW s \in Slots, ~Calls!Does(s, "free"),
           NEW stage \in {"starting", "waiting", "applying", "failing"}, Calls!Goes(s, stage)
    PROVE  /\ call' \in [Slots -> Calls!Calls \cup {Calls!Free}]
           /\ call'[s].does = stage /\ call'[s].batch = call[s].batch
           /\ \A t \in Slots \ {s} : call'[t] = call[t]
<1>1. call[s] \in Calls!Calls
  BY DEF CallTyped, Calls!Does, Calls!Free
<1>2. call' = [call EXCEPT ![s] = [call[s] EXCEPT !.does = stage]]
  BY DEF Calls!Goes
<1>3. [call[s] EXCEPT !.does = stage] \in Calls!Calls
  BY <1>1 DEF Calls!Calls
<1>4. /\ [call[s] EXCEPT !.does = stage].does = stage
      /\ [call[s] EXCEPT !.does = stage].batch = call[s].batch
  BY <1>1 DEF Calls!Calls
<1> DEFINE x == [call[s] EXCEPT !.does = stage]
<1> HIDE DEF x
<1> QED  BY <1>2, <1>3, <1>4 DEF CallTyped, x

\* A slot that is freed.
LEMMA IsFreed ==
    ASSUME CallTyped, NEW s \in Slots, call' = [call EXCEPT ![s] = Calls!Free]
    PROVE  /\ call' \in [Slots -> Calls!Calls \cup {Calls!Free}]
           /\ call'[s].does = "free"
           /\ \A t \in Slots \ {s} : call'[t] = call[t]
BY DEF CallTyped, Calls!Free

\* What is on the ledger stays there, and what is appended to a whole line is too.
LEMMA AppendingKeeps ==
    ASSUME CallInv, NEW b \in Calls!Batches \cup {Calls!Junk}
    PROVE  /\ Calls!Appended(b) \in Seq(Calls!Batches \cup {Calls!Junk})
           /\ Calls!ToSet(ledger) \ {Calls!Junk} \subseteq Calls!ToSet(Calls!Appended(b))
           /\ ~open => b \in Calls!ToSet(Calls!Appended(b))
           /\ ~open => Calls!Appended(b) # <<>> /\ Calls!Appended(b)[Len(Calls!Appended(b))] = b
<1> DEFINE Lines == Calls!Batches \cup {Calls!Junk}
<1>1. ledger \in Seq(Lines)
  BY DEF CallInv, CallTyped
<1> HIDE DEF Lines
<1>2. CASE ~open
  <2>1. Calls!Appended(b) = Append(ledger, b)
    BY <1>2 DEF Calls!Appended
  <2> QED  BY <1>1, <1>2, <2>1 DEF Calls!ToSet, Lines
<1>3. CASE open
  <2>1. Calls!Appended(b) = Append(Calls!Front(ledger), Calls!Junk)
    BY <1>3 DEF Calls!Appended
  <2>2. Len(ledger) \in Nat \ {0} /\ ledger[Len(ledger)] = Calls!Junk
    BY <1>1, <1>3 DEF CallInv
  <2>3. /\ Calls!Front(ledger) \in Seq(Lines) /\ Len(Calls!Front(ledger)) = Len(ledger) - 1
        /\ \A i \in 1 .. Len(ledger) - 1 : Calls!Front(ledger)[i] = ledger[i]
    <3> DEFINE n == Len(ledger) - 1
    <3>1. n \in 0 .. Len(ledger) /\ Calls!Front(ledger) = SubSeq(ledger, 1, n)
      BY <1>1, <2>2 DEF Calls!Front
    <3>2. \A i \in 1 .. n : ledger[i] \in Lines
      BY <1>1
    <3>3. /\ SubSeq(ledger, 1, n) \in Seq(Lines) /\ Len(SubSeq(ledger, 1, n)) = n
          /\ \A i \in 1 .. n : SubSeq(ledger, 1, n)[i] = ledger[i]
      <4> HIDE DEF n
      <4> QED  BY <1>1, <3>1, <3>2
    <3> QED  BY <3>1, <3>3
  <2>4. Calls!Junk \in Lines
    BY DEF Lines
  <2>5. ASSUME NEW i \in 1 .. Len(ledger), ledger[i] # Calls!Junk
        PROVE  i \in 1 .. Len(Calls!Front(ledger)) /\ ledger[i] = Append(Calls!Front(ledger), Calls!Junk)[i]
    BY <1>1, <2>2, <2>3, <2>5
  <2> QED  BY <1>1, <1>3, <2>1, <2>3, <2>4, <2>5 DEF Calls!ToSet, Lines
<1> QED  BY <1>2, <1>3

\* The processes still belong to a batch that waits when one slot changes that
\* waits for none.
LEMMA ProcessesStill ==
    ASSUME CallInv, NEW s \in Slots, \A t \in Slots \ {s} : call'[t] = call[t],
           Calls!Does(s, "waiting") => agents[call[s].batch] = "none",
           UNCHANGED <<agents, orphaned>>
    PROVE  Processes'
<1> SUFFICES ASSUME NEW b \in Calls!Batches \ orphaned, agents[b] # "none"
             PROVE  \E t \in Slots : Calls!Does(t, "waiting")' /\ call'[t].batch = b
  BY DEF Processes
<1>1. PICK t \in Slots : Calls!Does(t, "waiting") /\ call[t].batch = b
  BY DEF CallInv, Processes
<1>2. t # s
  BY <1>1
<1> QED  BY <1>1, <1>2 DEF Calls!Does

\* The failures are still listed when one slot changes, nothing is lost from
\* the ledger, and what fails anew or was still to be recorded is listed.
LEMMA ListedStill ==
    ASSUME CallInv, NEW s \in Slots, \A t \in Slots \ {s} : call'[t] = call[t],
           Calls!Listed \subseteq Calls!Listed', unlisted \subseteq unlisted',
           NEW D, failed' \subseteq failed \cup D, D \subseteq Listed',
           Calls!Does(s, "failing") => call[s].batch \in Listed'
    PROVE  failed' \subseteq Listed'
<1>1. ASSUME NEW t \in Slots, Calls!Does(t, "failing")
      PROVE  call[t].batch \in Listed'
  <2>1. CASE t = s
    BY <1>1, <2>1
  <2>2. CASE t # s
    <3>1. Calls!Does(t, "failing")' /\ call'[t].batch = call[t].batch
      BY <1>1, <2>2 DEF Calls!Does
    <3> QED  BY <3>1 DEF Listed, Calls!Pending
  <2> QED  BY <2>1, <2>2
<1>2. Calls!Pending \subseteq Listed'
  BY <1>1 DEF Calls!Pending
<1>3. Calls!Listed \subseteq Listed' /\ unlisted \subseteq Listed'
  BY DEF Listed
<1>4. failed \subseteq Calls!Listed \cup unlisted \cup Calls!Pending
  BY DEF CallInv, Listed
<1> QED  BY <1>2, <1>3, <1>4

\* What a record adds: the ledger keeps its lines, and the batch is on it or
\* known not to be.
LEMMA Recorded ==
    ASSUME CallInv, NEW s \in Slots, Calls!Record(s)
    PROVE  CallInv'
<1> DEFINE b == call[s].batch
<1>1. Calls!Does(s, "failing") /\ ledger' = Calls!Appended(b) /\ open' = FALSE
  BY DEF Calls!Record
<1>2. call' = [call EXCEPT ![s] = Calls!Free]
  BY DEF Calls!Record
<1>3. UNCHANGED <<mode, agents, failed, orphaned, started>>
  BY DEF Calls!Record
<1>4. unlisted' = IF open THEN unlisted \cup {b} ELSE unlisted
  BY DEF Calls!Record
<1>5. CallTyped
  BY DEF CallInv
<1>6. /\ call' \in [Slots -> Calls!Calls \cup {Calls!Free}]
      /\ call'[s].does = "free"
      /\ \A t \in Slots \ {s} : call'[t] = call[t]
  BY <1>2, <1>5, IsFreed
<1>7. b \in Calls!Batches /\ b # Calls!Junk
  <2>1. call[s] \in Calls!Calls
    BY <1>1, <1>5 DEF CallTyped, Calls!Does, Calls!Free
  <2> QED  BY <2>1, ServiceAssumption DEF Calls!CallAssumption, Calls!Calls, Calls!Batches, Calls!Junk
<1>8. /\ ledger' \in Seq(Calls!Batches \cup {Calls!Junk})
      /\ Calls!ToSet(ledger) \ {Calls!Junk} \subseteq Calls!ToSet(ledger')
      /\ ~open => b \in Calls!ToSet(ledger')
  <2> HIDE DEF b
  <2> QED  BY <1>1, <1>7, AppendingKeeps
<1> HIDE DEF b
<1>9. CallTyped'
  BY <1>3, <1>5, <1>6, <1>8 DEF CallTyped
<1>10. Processes'
  BY <1>1, <1>3, <1>6, ProcessesStill DEF Calls!Does
<1>11. failed' \subseteq Listed'
  <2>1. Calls!Listed \subseteq Calls!Listed' /\ (~open => b \in Calls!Listed')
    BY <1>7, <1>8 DEF Calls!Listed
  <2>2. unlisted \subseteq unlisted' /\ (open => b \in unlisted')
    BY <1>4
  <2>3. b \in Listed'
    BY <2>1, <2>2 DEF Listed
  <2>4. failed' \subseteq failed \cup {} /\ {} \subseteq Listed'
    BY <1>3
  <2> QED  BY <1>6, <2>1, <2>2, <2>3, <2>4, ListedStill DEF b
<1> QED  BY <1>1, <1>3, <1>9, <1>10, <1>11 DEF CallInv

\* One slot moves on or is freed, and the ledger and the processes stay as they are.
LEMMA SlotMoves ==
    ASSUME CallInv, NEW s \in Slots,
           call' \in [Slots -> Calls!Calls \cup {Calls!Free}],
           \A t \in Slots \ {s} : call'[t] = call[t],
           started' \in 0 .. MaxBatches, UNCHANGED <<mode, agents, ledger, open, orphaned>>,
           Calls!Does(s, "waiting") => agents[call[s].batch] = "none",
           unlisted \subseteq unlisted',
           NEW D, failed' \subseteq failed \cup D, D \subseteq Listed',
           Calls!Does(s, "failing") => call[s].batch \in Listed'
    PROVE  CallInv'
<1>1. CallTyped'
  BY DEF CallInv, CallTyped
<1>2. Processes'
  BY ProcessesStill
<1>3. Calls!Listed \subseteq Calls!Listed'
  BY DEF Calls!Listed
<1>4. failed' \subseteq Listed'
  BY <1>3, ListedStill
<1> QED  BY <1>1, <1>2, <1>4 DEF CallInv

\* A slot that comes to fail, from where it waits for no process.
LEMMA SlotFails ==
    ASSUME CallInv, NEW s \in Slots, ~Calls!Does(s, "free"), ~Calls!Does(s, "failing"),
           Calls!Goes(s, "failing"), failed' = failed \cup {call[s].batch},
           Calls!Does(s, "waiting") => agents[call[s].batch] = "none",
           UNCHANGED <<mode, agents, ledger, open, orphaned, started, unlisted>>
    PROVE  CallInv'
<1>1. CallTyped
  BY DEF CallInv
<1>2. /\ call' \in [Slots -> Calls!Calls \cup {Calls!Free}]
      /\ call'[s].does = "failing" /\ call'[s].batch = call[s].batch
      /\ \A t \in Slots \ {s} : call'[t] = call[t]
  BY <1>1, GoesOn
<1>3. call[s].batch \in Listed'
  BY <1>2 DEF Listed, Calls!Pending, Calls!Does
<1>4. {call[s].batch} \subseteq Listed' /\ failed' \subseteq failed \cup {call[s].batch}
  BY <1>3
<1>5. started' \in 0 .. MaxBatches
  BY <1>1 DEF CallTyped
<1> QED  BY <1>2, <1>4, <1>5, SlotMoves

\* A slot that goes on without failing, or is freed.
LEMMA SlotGoesOn ==
    ASSUME CallInv, NEW s \in Slots, ~Calls!Does(s, "free"), ~Calls!Does(s, "failing"),
           \/ Calls!Goes(s, "applying")
           \/ call' = [call EXCEPT ![s] = Calls!Free],
           Calls!Does(s, "waiting") => agents[call[s].batch] = "none",
           UNCHANGED <<mode, agents, ledger, open, orphaned, started, unlisted, failed>>
    PROVE  CallInv'
<1>1. CallTyped
  BY DEF CallInv
<1>2. /\ call' \in [Slots -> Calls!Calls \cup {Calls!Free}]
      /\ \A t \in Slots \ {s} : call'[t] = call[t]
  BY <1>1, GoesOn, IsFreed
<1>3. failed' \subseteq failed \cup {} /\ {} \subseteq Listed'
  OBVIOUS
<1>4. started' \in 0 .. MaxBatches
  BY <1>1 DEF CallTyped
<1> QED  BY <1>2, <1>3, <1>4, SlotMoves

\* A reply, however it came, is taken up by a slot whose process is done.
LEMMA ReplyIsTaken ==
    ASSUME CallInv, NEW s \in Slots, Calls!Does(s, "waiting"),
           agents[call[s].batch] = "none",
           NEW reply \in Calls!Reply, Calls!Received(s, reply),
           UNCHANGED <<mode, agents, ledger, open, orphaned, started, unlisted>>
    PROVE  CallInv'
<1>1. ~Calls!Does(s, "free") /\ ~Calls!Does(s, "failing")
  BY DEF Calls!Does
<1>2. CASE reply = "edits"
  <2>1. Calls!Goes(s, "applying") /\ failed' = failed
    BY <1>2 DEF Calls!Received
  <2> QED  BY <1>1, <2>1, SlotGoesOn
<1>3. CASE reply = "unauthenticated"
  <2>1. Calls!Goes(s, "failing") /\ failed' = failed \cup {call[s].batch}
    BY <1>3 DEF Calls!Received
  <2> QED  BY <1>1, <2>1, SlotFails
<1>4. CASE reply = "other"
  <2>1. call' = [call EXCEPT ![s] = Calls!Free] /\ failed' = failed
    BY <1>4 DEF Calls!Received
  <2> QED  BY <1>1, <2>1, SlotGoesOn
<1> QED  BY <1>2, <1>3, <1>4 DEF Calls!Reply

\* The API has no process, and a slot that is not free has a batch.
LEMMA NoneThroughApi ==
    ASSUME CallInv, mode = "api", NEW s \in Slots, ~Calls!Does(s, "free")
    PROVE  agents[call[s].batch] = "none"
<1>1. call[s] \in Calls!Calls
  BY DEF CallInv, CallTyped, Calls!Does, Calls!Free
<1> QED  BY <1>1 DEF CallInv, Calls!Calls

LEMMA BatchTaken ==
    ASSUME CallInv, NEW s \in Slots, Calls!Take(s)
    PROVE  CallInv'
<1> DEFINE new == [does |-> "starting", batch |-> started + 1]
<1>1. CallTyped
  BY DEF CallInv
<1>2. started + 1 \in Calls!Batches /\ started' \in 0 .. MaxBatches
  BY <1>1, ServiceAssumption DEF Calls!Take, CallTyped, Calls!Batches, Calls!CallAssumption
<1>3. new \in Calls!Calls
  BY <1>2 DEF Calls!Calls
<1>4. call' = [call EXCEPT ![s] = new] /\ Calls!Does(s, "free")
  BY DEF Calls!Take
<1>5. /\ call' \in [Slots -> Calls!Calls \cup {Calls!Free}]
      /\ \A t \in Slots \ {s} : call'[t] = call[t]
  <2> HIDE DEF new
  <2> QED  BY <1>1, <1>3, <1>4 DEF CallTyped
<1>6. failed' \subseteq failed \cup {} /\ {} \subseteq Listed'
  BY DEF Calls!Take
<1>7. ~Calls!Does(s, "waiting") /\ ~Calls!Does(s, "failing")
  BY <1>4 DEF Calls!Does
<1>8. UNCHANGED <<mode, agents, ledger, open, orphaned, unlisted>>
  BY DEF Calls!Take, Calls!ledgerVars
<1> QED  BY <1>2, <1>5, <1>6, <1>7, <1>8, SlotMoves

LEMMA RecordIsLost ==
    ASSUME CallInv, NEW s \in Slots, Calls!RecordFails(s)
    PROVE  CallInv'
<1>1. CallTyped
  BY DEF CallInv
<1>2. /\ Calls!Does(s, "failing") /\ call' = [call EXCEPT ![s] = Calls!Free]
      /\ unlisted' = unlisted \cup {call[s].batch}
      /\ UNCHANGED <<mode, agents, ledger, open, orphaned, started, failed>>
  BY DEF Calls!RecordFails, Calls!ledgerVars
<1>3. /\ call' \in [Slots -> Calls!Calls \cup {Calls!Free}]
      /\ \A t \in Slots \ {s} : call'[t] = call[t]
  BY <1>1, <1>2, IsFreed
<1>4. ~Calls!Does(s, "waiting") /\ call[s].batch \in Listed' /\ unlisted \subseteq unlisted'
  BY <1>2 DEF Calls!Does, Listed
<1>5. failed' \subseteq failed \cup {} /\ {} \subseteq Listed' /\ started' \in 0 .. MaxBatches
  BY <1>1, <1>2 DEF CallTyped
<1> QED  BY <1>2, <1>3, <1>4, <1>5, SlotMoves

\* A process starts for a slot that waits for it from then on.
LEMMA Invoked ==
    ASSUME CallInv, NEW s \in Slots, Calls!Invoke(s)
    PROVE  CallInv'
<1>1. CallTyped
  BY DEF CallInv
<1>2. /\ Calls!Does(s, "starting") /\ Calls!Goes(s, "waiting")
      /\ agents' = [agents EXCEPT ![call[s].batch] = IF mode = "cli" THEN "running" ELSE @]
      /\ UNCHANGED <<mode, ledger, open, failed, unlisted, orphaned, started>>
  BY DEF Calls!Invoke, Calls!ledgerVars
<1>3. ~Calls!Does(s, "free") /\ ~Calls!Does(s, "waiting") /\ ~Calls!Does(s, "failing")
  BY <1>2 DEF Calls!Does
<1>4. /\ call' \in [Slots -> Calls!Calls \cup {Calls!Free}]
      /\ call'[s].does = "waiting" /\ call'[s].batch = call[s].batch
      /\ \A t \in Slots \ {s} : call'[t] = call[t]
  BY <1>1, <1>2, <1>3, GoesOn
<1>5. CallTyped'
  BY <1>1, <1>2, <1>4 DEF CallTyped
<1>6. mode' = "api" => \A b \in Calls!Batches : agents'[b] = "none"
  BY <1>1, <1>2 DEF CallInv, CallTyped
<1>7. Processes'
  <2> SUFFICES ASSUME NEW b \in Calls!Batches \ orphaned, agents'[b] # "none"
               PROVE  \E t \in Slots : Calls!Does(t, "waiting")' /\ call'[t].batch = b
    BY <1>2 DEF Processes
  <2>1. CASE b = call[s].batch
    BY <1>4, <2>1 DEF Calls!Does
  <2>2. CASE b # call[s].batch
    <3>1. agents[b] # "none"
      BY <1>1, <1>2, <2>2 DEF CallTyped
    <3>2. PICK t \in Slots : Calls!Does(t, "waiting") /\ call[t].batch = b
      BY <3>1 DEF CallInv, Processes
    <3>3. t # s
      BY <1>3, <3>2
    <3> QED  BY <1>4, <3>2, <3>3 DEF Calls!Does
  <2> QED  BY <2>1, <2>2
<1>8. failed' \subseteq Listed'
  <2>1. Calls!Listed \subseteq Calls!Listed'
    BY <1>2 DEF Calls!Listed
  <2>2. failed' \subseteq failed \cup {} /\ {} \subseteq Listed' /\ unlisted \subseteq unlisted'
    BY <1>2
  <2> QED  BY <1>3, <1>4, <2>1, <2>2, ListedStill
<1> QED  BY <1>2, <1>5, <1>6, <1>7, <1>8 DEF CallInv

\* A process is told to end, or ends, and nothing else happens.
LEMMA ProcessMoves ==
    ASSUME CallInv, NEW b \in Calls!Batches, agents[b] # "none",
           NEW now \in {"none", "told"}, agents' = [agents EXCEPT ![b] = now],
           UNCHANGED <<mode, call, ledger, open, failed, unlisted, orphaned, started>>
    PROVE  CallInv'
<1>1. CallTyped'
  BY DEF CallInv, CallTyped
<1>2. \A c \in Calls!Batches : agents'[c] # "none" => agents[c] # "none"
  BY DEF CallInv, CallTyped
<1>3. mode' = "api" => \A c \in Calls!Batches : agents'[c] = "none"
  BY <1>2 DEF CallInv
<1>4. Processes'
  BY <1>2 DEF CallInv, Processes, Calls!Does
<1>5. failed' \subseteq Listed'
  BY DEF CallInv, Listed, Calls!Listed, Calls!Pending, Calls!Does
<1> QED  BY <1>1, <1>3, <1>4, <1>5 DEF CallInv

\* Who is left behind by the daemon is on the list of those left behind.
LEMMA CallsEnd ==
    ASSUME CallInv, Calls!DaemonEnds
    PROVE  CallInv'
<1> DEFINE lost == {call[s].batch : s \in {t \in Slots : ~Calls!Does(t, "free")}}
<1>1. /\ orphaned' = orphaned \cup lost /\ unlisted' = unlisted \cup lost
      /\ call' = [s \in Slots |-> Calls!Free] /\ UNCHANGED <<mode, agents, failed, started>>
  BY DEF Calls!DaemonEnds
<1>2. /\ ledger' \in Seq(Calls!Batches \cup {Calls!Junk})
      /\ open' => ledger' # <<>> /\ ledger'[Len(ledger')] = Calls!Junk
      /\ Calls!Listed \subseteq Calls!Listed'
  <2>1. CASE UNCHANGED <<ledger, open>>
    BY <2>1 DEF CallInv, CallTyped, Calls!Listed
  <2>2. CASE ledger' = IF open THEN ledger ELSE Append(ledger, Calls!Junk)
    <3>1. CASE open
      BY <2>2, <3>1 DEF CallInv, CallTyped, Calls!Listed
    <3>2. CASE ~open
      <4>1. Calls!Appended(Calls!Junk) = ledger'
        BY <2>2, <3>2 DEF Calls!Appended
      <4> QED  BY <3>2, <4>1, AppendingKeeps DEF Calls!Listed
    <3> QED  BY <3>1, <3>2
  <2> QED  BY <2>1, <2>2 DEF Calls!DaemonEnds, Calls!ledgerVars
<1>3. CallTyped'
  BY <1>1, <1>2 DEF CallInv, CallTyped
<1>4. Processes'
  <2> SUFFICES ASSUME NEW b \in Calls!Batches \ orphaned', agents[b] # "none"
               PROVE  FALSE
    BY <1>1 DEF Processes
  <2>1. b \notin orphaned /\ b \notin lost
    BY <1>1
  <2>2. PICK s \in Slots : Calls!Does(s, "waiting") /\ call[s].batch = b
    BY <2>1 DEF CallInv, Processes
  <2> QED  BY <2>1, <2>2 DEF Calls!Does
<1>5. failed' \subseteq Listed'
  <2>1. Calls!Pending \subseteq lost
    BY DEF Calls!Pending, Calls!Does
  <2> HIDE DEF lost
  <2>2. failed \subseteq Calls!Listed \cup unlisted \cup Calls!Pending
    BY DEF CallInv, Listed
  <2>3. Calls!Listed' \subseteq Listed' /\ unlisted' \subseteq Listed'
    BY DEF Listed
  <2> QED  BY <1>1, <1>2, <2>1, <2>2, <2>3
<1> QED  BY <1>1, <1>2, <1>3, <1>4, <1>5 DEF CallInv

\* No process works in the wiki that nobody waits for, but for those a daemon
\* has left behind, and every batch that failed is on the ledger but for those
\* whose record was not written or was swallowed (cli-invoker.ts,
\* runtime-aware.ts, dead-letter.ts, queue.ts).
THEOREM CallsStayAccountedFor == CallsSpec => []CallsAreAccountedFor
<1>1. Calls!CallsInit => CallInv
  <2> SUFFICES ASSUME Calls!CallsInit  PROVE CallInv
    OBVIOUS
  <2>1. CallTyped
    BY ServiceAssumption DEF Calls!CallsInit, CallTyped, Calls!CallAssumption
  <2>2. Processes /\ \A b \in Calls!Batches : agents[b] = "none"
    BY DEF Calls!CallsInit, Processes
  <2>3. failed = {} /\ open = FALSE
    BY DEF Calls!CallsInit
  <2> QED  BY <2>1, <2>2, <2>3 DEF CallInv
<1>2. CallInv /\ [Calls!CallsNext]_callVars => CallInv'
  <2> SUFFICES ASSUME CallInv, [Calls!CallsNext]_callVars  PROVE CallInv'
    OBVIOUS
  <2>1. ASSUME NEW s \in Slots, Calls!Take(s)  PROVE CallInv'
    BY <2>1, BatchTaken
  <2>2. ASSUME NEW s \in Slots, Calls!Invoke(s)  PROVE CallInv'
    BY <2>2, Invoked
  <2>3. ASSUME NEW s \in Slots, Calls!PromptFails(s)  PROVE CallInv'
    <3>1. /\ ~Calls!Does(s, "free") /\ ~Calls!Does(s, "failing") /\ ~Calls!Does(s, "waiting")
          /\ Calls!Goes(s, "failing") /\ failed' = failed \cup {call[s].batch}
          /\ UNCHANGED <<mode, agents, ledger, open, orphaned, started, unlisted>>
      BY <2>3 DEF Calls!PromptFails, Calls!ledgerVars, Calls!Does
    <3> QED  BY <3>1, SlotFails
  <2>4. ASSUME NEW s \in Slots, Calls!CliReplies(s)  PROVE CallInv'
    BY <2>4, ReplyIsTaken DEF Calls!CliReplies, Calls!Ended, Calls!ledgerVars
  <2>5. ASSUME NEW s \in Slots, Calls!Overdue(s)  PROVE CallInv'
    <3>1. call[s].batch \in Calls!Batches
      BY <2>5 DEF CallInv, CallTyped, Calls!Overdue, Calls!Does, Calls!Free, Calls!Calls
    <3> QED  BY <2>5, <3>1, ProcessMoves DEF Calls!Overdue, Calls!ledgerVars
  <2>6. ASSUME NEW s \in Slots, Calls!ApiReplies(s)  PROVE CallInv'
    <3>1. agents[call[s].batch] = "none"
      BY <2>6, NoneThroughApi DEF Calls!ApiReplies, Calls!Does
    <3> QED  BY <2>6, <3>1, ReplyIsTaken DEF Calls!ApiReplies, Calls!ledgerVars
  <2>7. ASSUME NEW s \in Slots, Calls!ApiThrows(s)  PROVE CallInv'
    <3>1. agents[call[s].batch] = "none"
      BY <2>7, NoneThroughApi DEF Calls!ApiThrows, Calls!Does
    <3> QED  BY <2>7, <3>1, SlotFails DEF Calls!ApiThrows, Calls!ledgerVars, Calls!Does
  <2>8. ASSUME NEW s \in Slots, Calls!Applied(s)  PROVE CallInv'
    BY <2>8, SlotGoesOn DEF Calls!Applied, Calls!ledgerVars, Calls!Does
  <2>9. ASSUME NEW s \in Slots, Calls!ApplyThrows(s)  PROVE CallInv'
    BY <2>9, SlotFails DEF Calls!ApplyThrows, Calls!ledgerVars, Calls!Does
  <2>10. ASSUME NEW s \in Slots, Calls!RecordFails(s)  PROVE CallInv'
    BY <2>10, RecordIsLost
  <2>11. ASSUME NEW b \in Calls!Batches, Calls!AgentEnds(b)  PROVE CallInv'
    BY <2>11, ProcessMoves DEF Calls!AgentEnds, Calls!ledgerVars
  <2>12. CASE UNCHANGED callVars
    BY <2>12 DEF callVars, CallInv, CallTyped, Processes, Listed, Calls!Listed, Calls!Pending,
                 Calls!Does
  <2> QED
    BY <2>1, <2>2, <2>3, <2>4, <2>5, <2>6, <2>7, <2>8, <2>9, <2>10, <2>11, <2>12,
       Recorded, CallsEnd
       DEF Calls!CallsNext
<1>3. CallInv => CallsAreAccountedFor
  BY DEF CallInv, Processes, Listed, CallsAreAccountedFor, Calls!CallsAreAccountedFor
<1>4. QED
  BY <1>1, <1>2, <1>3, PTL DEF CallsSpec

-----------------------------------------------------------------------------
(* ProgressiveRetrieval.  An entry is as old as its token is unused.  A      *)
(* token that was told to a client and whose entry has been dropped was      *)
(* unused for too long, or has been passed by MaxEntries others, and stays   *)
(* so: the others are never older than it again, for nobody can use it.      *)
RetrievalSpec == Retrieval!RetrievalInit /\ [][Retrieval!RetrievalNext]_retrievalVars

IsTold(c) == client[c].does = "told"
Others(t) == {u \in Retrieval!Tokens \ {t} : unused[u] <= unused[t]}
Passed(t) == unused[t] > TTL \/ Cardinality(Others(t)) >= MaxEntries
Waits(t) == t \in DOMAIN cache /\ ~Retrieval!Spent(cache[t])

\* What is shipped need not be known: a budget is compared with it, no more.
IsEntry(e) ==
    /\ e = [question |-> e.question, tier |-> e.tier, shipped |-> e.shipped, cap |-> e.cap,
            age |-> e.age]
    /\ e.tier \in Nat
    /\ e.age \in Retrieval!Ages

PromiseTyped ==
    /\ unused \in Seq(Retrieval!Ages)
    /\ client \in [Clients -> Retrieval!Asking \cup Retrieval!Told \cup {Retrieval!Idle}]
    /\ \A t \in DOMAIN cache : t \in Retrieval!Tokens /\ IsEntry(cache[t])
    /\ cache = [t \in DOMAIN cache |-> cache[t]]

PromiseInv ==
    /\ PromiseTyped
    /\ \A t \in DOMAIN cache : cache[t].age = unused[t]
    /\ \A c \in Clients : IsTold(c) => client[c].token \in Retrieval!Tokens
    /\ \A c, d \in Clients : IsTold(c) /\ IsTold(d) /\ client[c].token = client[d].token => c = d
    /\ \A c \in Clients :
          IsTold(c) /\ ~client[c].lost => Passed(client[c].token) \/ Waits(client[c].token)

\* Cardinality is the same operator wherever it comes from.
LEMMA SameCardinality == \A S : Retrieval!Cardinality(S) = Cardinality(S)
BY DEF Cardinality, Retrieval!Cardinality

LEMMA RetrievalBounds ==
    TTL \in Nat /\ MaxEntries \in Nat \ {0} /\ MaxTokens \in Nat /\ Retrieval!MaxTier = 3
BY ServiceAssumption DEF Retrieval!RetrievalAssumption, Retrieval!MaxTier

LEMMA LeastOfTwo ==
    ASSUME NEW x \in Int, NEW y \in Int
    PROVE  Retrieval!Min({x, y}) = IF x <= y THEN x ELSE y
<1>1. Retrieval!Min({x, y}) = Min({x, y})
  BY DEF Min, Retrieval!Min
<1> QED  BY <1>1, MinOfTwo

LEMMA OthersAreFinite ==
    ASSUME NEW ages \in Seq(Retrieval!Ages), NEW t
    PROVE  LET others == {u \in (1 .. Len(ages)) \ {t} : ages[u] <= ages[t]}
           IN  IsFiniteSet(others) /\ Cardinality(others) \in Nat
<1> DEFINE others == {u \in (1 .. Len(ages)) \ {t} : ages[u] <= ages[t]}
<1>1. Len(ages) \in Nat
  OBVIOUS
<1>2. IsFiniteSet(1 .. Len(ages))
  BY <1>1, FS_Interval
<1>3. others \in SUBSET (1 .. Len(ages))
  OBVIOUS
<1> HIDE DEF others
<1>4. IsFiniteSet(others) /\ Cardinality(others) \in Nat
  BY <1>2, <1>3, FS_Subset, FS_CardinalityType
<1> QED  BY <1>4 DEF others

\* A token that has been passed stays so as long as it is not used itself.
LEMMA StaysPassed ==
    ASSUME PromiseTyped, PromiseTyped', NEW t \in Retrieval!Tokens, Passed(t),
           Retrieval!Tokens \subseteq Retrieval!Tokens',
           unused[t] > TTL => unused'[t] > TTL,
           \A u \in Retrieval!Tokens : unused[u] <= unused[t] => unused'[u] <= unused'[t]
    PROVE  Passed(t)'
<1>1. CASE unused[t] > TTL
  BY <1>1 DEF Passed
<1>2. CASE Cardinality(Others(t)) >= MaxEntries
  <2>1. Others(t) \in SUBSET (Others(t)')
    BY DEF Others
  <2>2. IsFiniteSet(Others(t)') /\ Cardinality(Others(t)') \in Nat
    <3>1. unused' \in Seq(Retrieval!Ages)
      BY DEF PromiseTyped
    <3> QED  BY <3>1, OthersAreFinite DEF Others, Retrieval!Tokens
  <2>3. Cardinality(Others(t)) <= Cardinality(Others(t)')
    BY <2>1, <2>2, FS_Subset
  <2>4. Cardinality(Others(t)) \in Nat
    BY OthersAreFinite DEF PromiseTyped, Others, Retrieval!Tokens
  <2>5. Cardinality(Others(t)') >= MaxEntries
    BY <1>2, <2>2, <2>3, <2>4, RetrievalBounds
  <2> QED  BY <2>5 DEF Passed
<1> QED  BY <1>1, <1>2 DEF Passed

LEMMA LeastExists ==
    ASSUME NEW S \in SUBSET Nat, S # {}
    PROVE  \E n \in S : \A m \in S : n <= m
<1> DEFINE R == {ss \in Nat \X Nat : ss[1] < ss[2]}
<1>1. IsWellFoundedOn(R, Nat)
  BY NatLessThanWellFounded DEF OpToRel
<1>2. PICK n \in S : \A m \in S : ~(<<m, n>> \in R)
  <2> HIDE DEF R
  <2> QED  BY <1>1, WFMin
<1>3. \A m \in S : ~(m < n)
  BY <1>2
<1> QED  BY <1>3

\* Who is evicted was not used for longest.
LEMMA OldestIsOldest ==
    ASSUME PromiseTyped, NEW S \in SUBSET DOMAIN cache, S # {}
    PROVE  /\ Retrieval!Oldest(S) \in S
           /\ \A u \in S : cache[u].age <= cache[Retrieval!Oldest(S)].age
<1> DEFINE Youth(t) == TTL + 1 - cache[t].age
           Youths == {Youth(t) : t \in S}
<1>1. \A t \in S : t \in Nat /\ cache[t].age \in Nat /\ Youth(t) \in Nat
  BY RetrievalBounds DEF PromiseTyped, IsEntry, Retrieval!Ages, Retrieval!Tokens
<1>2. PICK y \in Youths : \A x \in Youths : y <= x
  <2>1. Youths \in SUBSET Nat /\ Youths # {}
    BY <1>1
  <2> HIDE DEF Youths
  <2> QED  BY <2>1, LeastExists
<1> DEFINE First == {t \in S : Youth(t) = y}
<1>3. PICK t \in First : \A u \in First : t <= u
  <2>1. First \in SUBSET Nat /\ First # {}
    BY <1>1, <1>2
  <2> HIDE DEF First
  <2> QED  BY <2>1, LeastExists
<1>4. ASSUME NEW u \in S
      PROVE  \/ cache[u].age < cache[t].age
             \/ cache[u].age = cache[t].age /\ t <= u
  <2>1. Youth(t) <= Youth(u) /\ t \in S
    BY <1>2, <1>3
  <2>2. cache[u].age <= cache[t].age
    BY <1>1, <2>1, RetrievalBounds
  <2>3. cache[u].age = cache[t].age => u \in First
    BY <1>3
  <2> QED  BY <1>1, <1>3, <2>1, <2>2, <2>3
<1>5. t \in S
  BY <1>3
<1> HIDE DEF First, Youths
<1>6. \E v \in S : \A u \in S : \/ cache[u].age < cache[v].age
                                \/ cache[u].age = cache[v].age /\ v <= u
  BY <1>4, <1>5
<1>7. /\ Retrieval!Oldest(S) \in S
      /\ \A u \in S : \/ cache[u].age < cache[Retrieval!Oldest(S)].age
                      \/ /\ cache[u].age = cache[Retrieval!Oldest(S)].age
                         /\ Retrieval!Oldest(S) <= u
  BY <1>6 DEF Retrieval!Oldest
<1> QED  BY <1>1, <1>7

\* An entry is put into the cache: the others are as they were, or passed.
LEMMA PutKeepsOrPasses ==
    ASSUME PromiseInv, PromiseTyped', NEW token, token = Len(unused) + 1, NEW entry,
           Retrieval!Put(token, entry), unused' = Append(unused, 0)
    PROVE  /\ DOMAIN cache' \subseteq DOMAIN cache \cup {token}
           /\ token \in DOMAIN cache' /\ cache'[token] = entry
           /\ \A t \in DOMAIN cache' \ {token} : cache'[t] = cache[t]
           /\ \A t \in DOMAIN cache : t \in DOMAIN cache' \/ Passed(t)'
<1> DEFINE fresh == Retrieval!Fresh
           room == IF Cardinality(fresh) >= MaxEntries THEN fresh \ {Retrieval!Oldest(fresh)} ELSE fresh
<1>1. cache' = [t \in room \cup {token} |-> IF t = token THEN entry ELSE cache[t]]
  BY SameCardinality DEF Retrieval!Put
<1>2. fresh \subseteq DOMAIN cache
  BY DEF Retrieval!Fresh
<1>3. /\ Len(unused) \in Nat /\ Len(unused') = Len(unused) + 1 /\ unused'[token] = 0
      /\ \A t \in 1 .. Len(unused) : unused'[t] = unused[t] /\ unused[t] \in Nat
  <2> HIDE DEF fresh, room
  <2>1. unused \in Seq(Retrieval!Ages) /\ Retrieval!Ages \subseteq Nat /\ 0 \in Retrieval!Ages
    BY RetrievalBounds DEF PromiseInv, PromiseTyped, Retrieval!Ages
  <2>2. Len(unused) \in Nat /\ Len(Append(unused, 0)) = Len(unused) + 1
    BY <2>1
  <2>3. ASSUME NEW t \in 1 .. Len(unused)
        PROVE  Append(unused, 0)[t] = unused[t] /\ unused[t] \in Nat
    <3>1. unused[t] \in Retrieval!Ages
      BY <2>1
    <3>2. Append(unused, 0)[t] = unused[t]
      BY <2>1
    <3> QED  BY <2>1, <3>1, <3>2
  <2>4. Append(unused, 0)[Len(unused) + 1] = 0
    BY <2>1
  <2> QED  BY <2>2, <2>3, <2>4
<1>4. \A t \in DOMAIN cache : t \in 1 .. Len(unused) /\ cache[t].age = unused[t]
  BY DEF PromiseInv, PromiseTyped, Retrieval!Tokens
<1>5. ASSUME NEW t \in DOMAIN cache, t \notin fresh  PROVE Passed(t)'
  <2>1. unused[t] > TTL
    BY <1>4, <1>5 DEF Retrieval!Fresh, Retrieval!Expired
  <2> QED  BY <1>3, <1>4, <2>1 DEF Passed
<1>6. ASSUME NEW t \in fresh, t \notin room  PROVE Passed(t)'
  <2>1. Cardinality(fresh) >= MaxEntries /\ t = Retrieval!Oldest(fresh)
    BY <1>6
  <2>2. \A u \in fresh : cache[u].age <= cache[t].age
    <3> HIDE DEF fresh
    <3> QED  BY <1>2, <1>6, <2>1, OldestIsOldest DEF PromiseInv
  <2> DEFINE rest == fresh \ {t}
             more == rest \cup {token}
  <2>3. more \in SUBSET (Others(t)')
    <3>1. ASSUME NEW u \in more
          PROVE  u \in (1 .. Len(unused')) \ {t} /\ unused'[u] <= unused'[t]
      <4>0. t \in 1 .. Len(unused)
        BY <1>2, <1>4, <1>6
      <4>1. CASE u = token
        BY <1>3, <4>0, <4>1
      <4>2. CASE u \in fresh \ {t}
        <5>1. u \in 1 .. Len(unused) /\ unused[u] <= unused[t]
          BY <1>2, <1>4, <2>2, <4>2
        <5> QED  BY <1>3, <4>0, <4>2, <5>1
      <4> QED  BY <3>1, <4>1, <4>2
    <3> HIDE DEF more
    <3> QED  BY <3>1 DEF Others, Retrieval!Tokens
  <2>4. IsFiniteSet(fresh) /\ Cardinality(fresh) \in Nat
    <3>1. IsFiniteSet(1 .. Len(unused))
      BY <1>3, FS_Interval
    <3>2. fresh \in SUBSET (1 .. Len(unused))
      BY <1>2, <1>4
    <3> HIDE DEF fresh
    <3> QED  BY <3>1, <3>2, FS_Subset, FS_CardinalityType
  <2>5. token \notin rest
    BY <1>2, <1>3, <1>4
  <2>6. IsFiniteSet(more) /\ Cardinality(more) = Cardinality(fresh)
    <3> HIDE DEF fresh
    <3>1. IsFiniteSet(rest) /\ Cardinality(rest) = Cardinality(fresh) - 1
      BY <1>6, <2>4, FS_RemoveElement
    <3> HIDE DEF rest
    <3>2. IsFiniteSet(rest \cup {token}) /\ Cardinality(rest \cup {token}) = Cardinality(rest) + 1
      BY <2>5, <3>1, FS_AddElement
    <3> QED  BY <2>4, <3>1, <3>2
  <2>7. IsFiniteSet(Others(t)') /\ Cardinality(Others(t)') \in Nat
    <3>1. unused' \in Seq(Retrieval!Ages)
      BY DEF PromiseTyped
    <3> QED  BY <3>1, OthersAreFinite DEF Others, Retrieval!Tokens
  <2>8. Cardinality(more) <= Cardinality(Others(t)')
    <3> HIDE DEF more
    <3> QED  BY <2>3, <2>7, FS_Subset
  <2>9. Cardinality(Others(t)') >= MaxEntries
    <3> HIDE DEF more, fresh
    <3> QED  BY <2>1, <2>4, <2>6, <2>7, <2>8, RetrievalBounds
  <2> QED  BY <2>9 DEF Passed
<1>7. room \subseteq fresh
  OBVIOUS
<1> HIDE DEF room, fresh
<1> QED  BY <1>1, <1>2, <1>5, <1>6, <1>7

\* One token is used, as an entry that is not dropped.  The others stay passed
\* or wait as they did.
LEMMA UsedToken ==
    ASSUME PromiseInv, NEW k \in DOMAIN cache, NEW entry, IsEntry(entry), entry.age = 0,
           cache' = [cache EXCEPT ![k] = entry], unused' = [unused EXCEPT ![k] = 0],
           client' \in [Clients -> Retrieval!Asking \cup Retrieval!Told \cup {Retrieval!Idle}]
    PROVE  /\ PromiseTyped'
           /\ Retrieval!Tokens' = Retrieval!Tokens
           /\ \A t \in DOMAIN cache' : cache'[t].age = unused'[t]
           /\ DOMAIN cache' = DOMAIN cache /\ cache'[k] = entry
           /\ \A t \in Retrieval!Tokens \ {k} :
                 (Passed(t) => Passed(t)') /\ (Waits(t) => Waits(t)')
<1>1. k \in Retrieval!Tokens /\ 0 \in Retrieval!Ages /\ Retrieval!Ages \subseteq Nat
  BY RetrievalBounds DEF PromiseInv, PromiseTyped, Retrieval!Ages
<1>2. /\ unused' \in Seq(Retrieval!Ages) /\ Len(unused') = Len(unused)
      /\ unused'[k] = 0 /\ \A t \in Retrieval!Tokens \ {k} : unused'[t] = unused[t]
      /\ \A t \in Retrieval!Tokens : unused[t] \in Nat
  BY <1>1 DEF PromiseInv, PromiseTyped, Retrieval!Tokens
<1>3. /\ DOMAIN cache' = DOMAIN cache /\ cache'[k] = entry
      /\ \A t \in DOMAIN cache \ {k} : cache'[t] = cache[t]
      /\ cache' = [t \in DOMAIN cache' |-> cache'[t]]
  BY DEF PromiseInv, PromiseTyped
<1>4. PromiseTyped'
  BY <1>2, <1>3 DEF PromiseInv, PromiseTyped, Retrieval!Tokens, IsEntry
<1>5. Retrieval!Tokens' = Retrieval!Tokens
  BY <1>2 DEF Retrieval!Tokens
<1>6. ASSUME NEW t \in Retrieval!Tokens \ {k}, Passed(t)  PROVE Passed(t)'
  <2>1. \A u \in Retrieval!Tokens : unused[u] <= unused[t] => unused'[u] <= unused'[t]
    BY <1>1, <1>2
  <2>2. unused[t] > TTL => unused'[t] > TTL
    BY <1>2
  <2> QED  BY <1>4, <1>5, <1>6, <2>1, <2>2, StaysPassed DEF PromiseInv
<1>7. \A t \in DOMAIN cache : cache'[t].age = unused'[t]
  BY <1>2, <1>3 DEF PromiseInv, PromiseTyped
<1>8. ASSUME NEW t \in Retrieval!Tokens \ {k}, Waits(t)  PROVE Waits(t)'
  BY <1>3, <1>8 DEF Waits, Retrieval!Spent, Retrieval!HasLeft
<1> QED  BY <1>3, <1>4, <1>5, <1>6, <1>7, <1>8

LEMMA AskStep ==
    ASSUME PromiseInv, NEW c \in Clients, Retrieval!Ask(c)
    PROVE  PromiseInv'
<1>1. PICK now \in Retrieval!Asking \cup {Retrieval!Idle} : client' = [client EXCEPT ![c] = now]
  BY DEF Retrieval!Ask, Retrieval!Asking
<1>2. UNCHANGED <<cache, unused>>
  BY DEF Retrieval!Ask
<1>3. now.does # "told"
  BY DEF Retrieval!Asking, Retrieval!Idle
<1>4. PromiseTyped'
  BY <1>1, <1>2 DEF PromiseInv, PromiseTyped, Retrieval!Tokens, IsEntry
<1>5. \A d \in Clients : IsTold(d)' => IsTold(d) /\ client'[d] = client[d]
  BY <1>1, <1>3 DEF PromiseInv, PromiseTyped, IsTold
<1>6. \A t : (Passed(t) => Passed(t)') /\ (Waits(t) => Waits(t)')
  BY <1>2 DEF Passed, Others, Waits, Retrieval!Tokens, Retrieval!Spent, Retrieval!HasLeft
<1> QED  BY <1>2, <1>4, <1>5, <1>6 DEF PromiseInv, Retrieval!Tokens

LEMMA AnswerStep ==
    ASSUME PromiseInv, NEW c \in Clients, Retrieval!Answer(c)
    PROVE  PromiseInv'
<1>0. PICK token : token = Len(unused) + 1
  OBVIOUS
<1> DEFINE asked == client[c]
           hits == Found[asked.question]
           shipped == Retrieval!Rendered(0, hits, Retrieval!Min({asked.initial, asked.cap}))
           entry == [question |-> asked.question, tier |-> 0, cap |-> asked.cap, age |-> 0,
                     shipped |-> shipped]
           told == [does |-> "told", token |-> token, lost |-> FALSE]
<1>1. Retrieval!Put(token, entry) /\ unused' = Append(unused, 0) /\ token \in 1 .. MaxTokens
  BY <1>0, RetrievalBounds DEF Retrieval!Answer, PromiseInv, PromiseTyped
<1>2. \/ client' = [client EXCEPT ![c] = Retrieval!Idle]
      \/ client' = [client EXCEPT ![c] = told] /\ Retrieval!HasLeft(entry)
  BY <1>0 DEF Retrieval!Answer, Retrieval!HasMore
<1>3. IsEntry(entry) /\ entry.tier = 0
  BY RetrievalBounds DEF IsEntry, Retrieval!Ages
<1> HIDE DEF entry
<1>4. /\ unused' \in Seq(Retrieval!Ages) /\ Retrieval!Tokens' = Retrieval!Tokens \cup {token}
      /\ token \notin Retrieval!Tokens /\ unused'[token] = 0
      /\ \A t \in Retrieval!Tokens : unused'[t] = unused[t] /\ unused[t] \in Nat
  <2>1. unused \in Seq(Retrieval!Ages) /\ 0 \in Retrieval!Ages /\ Retrieval!Ages \subseteq Nat
    BY RetrievalBounds DEF PromiseInv, PromiseTyped, Retrieval!Ages
  <2>2. \A t \in 1 .. Len(unused) : unused[t] \in Retrieval!Ages
    BY <2>1
  <2>3. \A t \in 1 .. Len(unused) : Append(unused, 0)[t] = unused[t]
    BY <2>1
  <2>4. Len(unused) \in Nat /\ Len(Append(unused, 0)) = Len(unused) + 1
    BY <2>1
  <2>5. Append(unused, 0)[Len(unused) + 1] = 0 /\ Append(unused, 0) \in Seq(Retrieval!Ages)
    BY <2>1
  <2>6. 1 .. Len(unused) + 1 = (1 .. Len(unused)) \cup {token} /\ token \notin 1 .. Len(unused)
    BY <1>0, <2>4
  <2> QED  BY <1>0, <1>1, <2>1, <2>2, <2>3, <2>4, <2>5, <2>6 DEF Retrieval!Tokens
<1>5. cache' = [t \in DOMAIN cache' |-> cache'[t]]
  BY <1>1 DEF Retrieval!Put
<1>6. /\ DOMAIN cache' \subseteq DOMAIN cache \cup {token}
      /\ token \in DOMAIN cache' /\ cache'[token] = entry
      /\ \A t \in DOMAIN cache' \ {token} : cache'[t] = cache[t]
  <2>1. \A room, t : room \subseteq Retrieval!Fresh /\ t \in room => t \in DOMAIN cache
    BY DEF Retrieval!Fresh
  <2> QED  BY <1>1, <2>1 DEF Retrieval!Put
<1>7. client' \in [Clients -> Retrieval!Asking \cup Retrieval!Told \cup {Retrieval!Idle}]
  <2>1. told \in Retrieval!Told
    BY <1>1 DEF Retrieval!Told
  <2> HIDE DEF told
  <2> QED  BY <1>2, <2>1 DEF PromiseInv, PromiseTyped
<1>8. PromiseTyped'
  BY <1>3, <1>4, <1>5, <1>6, <1>7 DEF PromiseInv, PromiseTyped, IsEntry
<1>9. \A t \in DOMAIN cache : t \in DOMAIN cache' \/ Passed(t)'
  BY <1>0, <1>1, <1>8, PutKeepsOrPasses
<1>10. \A t \in DOMAIN cache' : cache'[t].age = unused'[t]
  BY <1>4, <1>6 DEF PromiseInv, PromiseTyped, entry
<1>11. ASSUME NEW d \in Clients, IsTold(d)'
       PROVE  \/ IsTold(d) /\ client'[d] = client[d]
              \/ d = c /\ client'[d] = told /\ Retrieval!HasLeft(entry)
  <2>1. Retrieval!Idle.does # "told"
    BY DEF Retrieval!Idle
  <2> HIDE DEF told
  <2> QED  BY <1>2, <1>11, <2>1 DEF PromiseInv, PromiseTyped, IsTold
<1>12. ASSUME NEW t \in Retrieval!Tokens, Passed(t) \/ Waits(t)  PROVE (Passed(t) \/ Waits(t))'
  <2>1. CASE Passed(t)
    <3>1. \A u \in Retrieval!Tokens : unused[u] <= unused[t] => unused'[u] <= unused'[t]
      BY <1>4
    <3>2. unused[t] > TTL => unused'[t] > TTL
      BY <1>4
    <3> QED  BY <1>4, <1>8, <2>1, <3>1, <3>2, StaysPassed DEF PromiseInv
  <2>2. CASE Waits(t)
    <3>1. t # token
      BY <1>4
    <3> QED  BY <1>6, <1>9, <2>2, <3>1 DEF Waits, Retrieval!Spent, Retrieval!HasLeft
  <2> QED  BY <1>12, <2>1, <2>2
<1>13. Retrieval!HasLeft(entry) => Waits(token)'
  BY <1>3, <1>6 DEF Waits, Retrieval!Spent, Retrieval!HasLeft, Retrieval!MaxTier
<1>14. ASSUME NEW d \in Clients, IsTold(d)'  PROVE client'[d].token \in Retrieval!Tokens'
  BY <1>4, <1>11, <1>14 DEF PromiseInv
<1>15. ASSUME NEW d \in Clients, NEW e \in Clients, IsTold(d)', IsTold(e)',
              client'[d].token = client'[e].token
       PROVE  d = e
  BY <1>4, <1>11, <1>15 DEF PromiseInv
<1>16. ASSUME NEW d \in Clients, IsTold(d)', ~client'[d].lost
       PROVE  (Passed(client[d].token) \/ Waits(client[d].token))'
  BY <1>11, <1>12, <1>13, <1>16 DEF PromiseInv
<1> QED  BY <1>8, <1>10, <1>14, <1>15, <1>16 DEF PromiseInv

LEMMA ExpandRefusedStep ==
    ASSUME PromiseInv, NEW c \in Clients, Retrieval!ExpandRefused(c)
    PROVE  PromiseInv'
<1>0. PICK token : token = client[c].token
  OBVIOUS
<1>1. /\ IsTold(c) /\ client' = [client EXCEPT ![c] = Retrieval!Idle]
      /\ token \in Retrieval!Tokens
  BY <1>0 DEF Retrieval!ExpandRefused, PromiseInv, IsTold
<1>2. client' \in [Clients -> Retrieval!Asking \cup Retrieval!Told \cup {Retrieval!Idle}]
  BY <1>1 DEF PromiseInv, PromiseTyped
<1>3. ASSUME NEW d \in Clients, IsTold(d)'
      PROVE  IsTold(d) /\ client'[d] = client[d] /\ client[d].token # token
  <2>1. d # c
    BY <1>1, <1>3 DEF IsTold, Retrieval!Idle, PromiseInv, PromiseTyped
  <2>2. IsTold(d) /\ client'[d] = client[d]
    BY <1>1, <1>3, <2>1 DEF IsTold, PromiseInv, PromiseTyped
  <2> QED  BY <1>0, <1>1, <2>1, <2>2 DEF PromiseInv
<1>4. CASE /\ Retrieval!Unknown(token)
           /\ cache' = Retrieval!Restrict(cache, DOMAIN cache \ {token})
           /\ UNCHANGED unused
  <2>1. /\ DOMAIN cache' = DOMAIN cache \ {token}
        /\ \A t \in DOMAIN cache' : cache'[t] = cache[t]
        /\ cache' = [t \in DOMAIN cache' |-> cache'[t]]
    BY <1>4 DEF Retrieval!Restrict
  <2>2. PromiseTyped'
    BY <1>2, <1>4, <2>1 DEF PromiseInv, PromiseTyped, Retrieval!Tokens, IsEntry
  <2>3. \A t : Passed(t) => Passed(t)'
    BY <1>4 DEF Passed, Others, Retrieval!Tokens
  <2>4. \A t : t # token /\ Waits(t) => Waits(t)'
    BY <2>1 DEF Waits, Retrieval!Spent, Retrieval!HasLeft
  <2> QED  BY <1>3, <1>4, <2>1, <2>2, <2>3, <2>4 DEF PromiseInv, Retrieval!Tokens
<1>5. CASE /\ ~Retrieval!Unknown(token)
           /\ cache' = [cache EXCEPT ![token] = Retrieval!Touched(@)]
           /\ unused' = [unused EXCEPT ![token] = 0]
  <2>1. token \in DOMAIN cache
    BY <1>5 DEF Retrieval!Unknown
  <2>2. PICK entry : entry = Retrieval!Touched(cache[token])
    OBVIOUS
  <2>3. IsEntry(entry) /\ entry.age = 0
    <3>1. /\ cache[token] = [question |-> cache[token].question, tier |-> cache[token].tier,
                             shipped |-> cache[token].shipped, cap |-> cache[token].cap,
                             age |-> cache[token].age]
          /\ cache[token].tier \in Nat
      BY <2>1 DEF PromiseInv, PromiseTyped, IsEntry
    <3>2. entry = [question |-> cache[token].question, tier |-> cache[token].tier,
                   shipped |-> cache[token].shipped, cap |-> cache[token].cap, age |-> 0]
      BY <2>2, <3>1 DEF Retrieval!Touched
    <3> QED  BY <3>1, <3>2, RetrievalBounds DEF IsEntry, Retrieval!Ages
  <2>4. cache' = [cache EXCEPT ![token] = entry]
    BY <1>5, <2>2
  <2>5. /\ PromiseTyped'
        /\ Retrieval!Tokens' = Retrieval!Tokens
        /\ \A t \in DOMAIN cache' : cache'[t].age = unused'[t]
        /\ \A t \in Retrieval!Tokens \ {token} :
              (Passed(t) => Passed(t)') /\ (Waits(t) => Waits(t)')
    BY <1>2, <1>5, <2>1, <2>3, <2>4, UsedToken
  <2> QED  BY <1>3, <2>5 DEF PromiseInv
<1> QED  BY <1>0, <1>4, <1>5 DEF Retrieval!ExpandRefused

LEMMA ExpandStep ==
    ASSUME PromiseInv, NEW c \in Clients, Retrieval!Expand(c)
    PROVE  PromiseInv'
<1>0. PICK token, old : token = client[c].token /\ old = cache[token]
  OBVIOUS
<1>1. PICK additional \in Additional, arrives \in BOOLEAN :
        LET tier == old.tier + 1
            tokens == Retrieval!Rendered(tier, Found[old.question],
                                         Retrieval!Budget(old, additional))
            advanced == [old EXCEPT !.tier = tier, !.shipped = @ + tokens]
            more == tier < Retrieval!MaxTier /\ Retrieval!HasLeft(advanced)
        IN  /\ cache' = [cache EXCEPT ![token] = Retrieval!Touched(advanced)]
            /\ client' = [client EXCEPT ![c] =
                   IF arrives /\ ~more THEN Retrieval!Idle ELSE [@ EXCEPT !.lost = ~arrives]]
  BY <1>0 DEF Retrieval!Expand
<1>2. PICK shipped : shipped = old.shipped + Retrieval!Rendered(old.tier + 1, Found[old.question],
                                                 Retrieval!Budget(old, additional))
  OBVIOUS
<1> DEFINE entry == [question |-> old.question, tier |-> old.tier + 1, shipped |-> shipped,
                     cap |-> old.cap, age |-> 0]
           more == old.tier + 1 < 3 /\ old.cap - shipped > 0
<1>3. /\ IsTold(c) /\ token \in Retrieval!Tokens /\ token \in DOMAIN cache
      /\ unused' = [unused EXCEPT ![token] = 0]
  BY <1>0 DEF Retrieval!Expand, Retrieval!Unknown, PromiseInv, IsTold
<1>4. /\ old = [question |-> old.question, tier |-> old.tier, shipped |-> old.shipped,
                cap |-> old.cap, age |-> old.age]
      /\ old.tier \in Nat
  BY <1>0, <1>3 DEF PromiseInv, PromiseTyped, IsEntry
<1>5. cache' = [cache EXCEPT ![token] = entry]
  <2> DEFINE advanced == [old EXCEPT !.tier = old.tier + 1, !.shipped = shipped]
  <2>1. cache' = [cache EXCEPT ![token] = Retrieval!Touched(advanced)]
    BY <1>1, <1>2
  <2>2. Retrieval!Touched(advanced) = entry
    <3>1. advanced = [question |-> old.question, tier |-> old.tier + 1, shipped |-> shipped,
                      cap |-> old.cap, age |-> old.age]
      <4> DEFINE next == [old EXCEPT !.tier = old.tier + 1]
      <4>1. advanced = [next EXCEPT !.shipped = shipped]
        OBVIOUS
      <4>2. next = [question |-> old.question, tier |-> old.tier + 1, shipped |-> old.shipped,
                    cap |-> old.cap, age |-> old.age]
        BY <1>4
      <4> HIDE DEF advanced, next
      <4> QED  BY <4>1, <4>2
    <3> HIDE DEF advanced
    <3> QED  BY <3>1 DEF Retrieval!Touched
  <2> QED  BY <2>1, <2>2
<1>6. client' = [client EXCEPT ![c] =
                    IF arrives /\ ~more THEN Retrieval!Idle ELSE [@ EXCEPT !.lost = ~arrives]]
  <2> DEFINE advanced == [old EXCEPT !.tier = old.tier + 1, !.shipped = shipped]
  <2>1. advanced.cap = old.cap /\ advanced.shipped = shipped
    BY <1>4
  <2>2. more <=> old.tier + 1 < Retrieval!MaxTier /\ Retrieval!HasLeft(advanced)
    BY <2>1, RetrievalBounds DEF Retrieval!HasLeft
  <2> QED  BY <1>1, <1>2, <2>2
<1>7. IsEntry(entry) /\ entry.age = 0
  BY <1>4, RetrievalBounds DEF IsEntry, Retrieval!Ages
<1>8. more => ~Retrieval!Spent(entry)
  BY <1>4, RetrievalBounds DEF Retrieval!Spent, Retrieval!HasLeft
<1> HIDE DEF entry, more
<1>9. client[c] \in Retrieval!Told
  BY <1>3 DEF PromiseInv, PromiseTyped, IsTold, Retrieval!Asking, Retrieval!Idle
<1>10. /\ client' \in [Clients -> Retrieval!Asking \cup Retrieval!Told \cup {Retrieval!Idle}]
       /\ IsTold(c)' => client'[c].token = token /\ client'[c].lost = ~arrives /\ (arrives => more)
       /\ \A d \in Clients \ {c} : client'[d] = client[d]
  <2>1. [client[c] EXCEPT !.lost = ~arrives] \in Retrieval!Told
    BY <1>9 DEF Retrieval!Told
  <2>2. /\ [client[c] EXCEPT !.lost = ~arrives].token = token
        /\ [client[c] EXCEPT !.lost = ~arrives].lost = ~arrives
    BY <1>0, <1>9 DEF Retrieval!Told
  <2>3. client'[c] = IF arrives /\ ~more THEN Retrieval!Idle ELSE [client[c] EXCEPT !.lost = ~arrives]
    BY <1>6 DEF PromiseInv, PromiseTyped
  <2>4. \A d \in Clients \ {c} : client'[d] = client[d]
    BY <1>6 DEF PromiseInv, PromiseTyped
  <2>5. Retrieval!Idle.does # "told"
    BY DEF Retrieval!Idle
  <2>6. client' \in [Clients -> Retrieval!Asking \cup Retrieval!Told \cup {Retrieval!Idle}]
    BY <1>6, <2>1 DEF PromiseInv, PromiseTyped
  <2>7. IsTold(c)' => client'[c].token = token /\ client'[c].lost = ~arrives /\ (arrives => more)
    BY <2>2, <2>3, <2>5 DEF IsTold
  <2> QED  BY <2>4, <2>6, <2>7
<1>11. /\ PromiseTyped'
       /\ Retrieval!Tokens' = Retrieval!Tokens
       /\ \A t \in DOMAIN cache' : cache'[t].age = unused'[t]
       /\ DOMAIN cache' = DOMAIN cache /\ cache'[token] = entry
       /\ \A t \in Retrieval!Tokens \ {token} :
             (Passed(t) => Passed(t)') /\ (Waits(t) => Waits(t)')
  BY <1>3, <1>5, <1>7, <1>10, UsedToken
<1>12. more => Waits(token)'
  BY <1>3, <1>8, <1>11 DEF Waits, Retrieval!Spent, Retrieval!HasLeft
<1>13. ASSUME NEW d \in Clients \ {c}, IsTold(d)'
       PROVE  IsTold(d) /\ client'[d] = client[d] /\ client[d].token # token
  <2>1. IsTold(d) /\ client'[d] = client[d]
    BY <1>10, <1>13 DEF IsTold
  <2> QED  BY <1>0, <1>3, <2>1 DEF PromiseInv
<1>14. ASSUME NEW d \in Clients, IsTold(d)'  PROVE client'[d].token \in Retrieval!Tokens'
  BY <1>3, <1>10, <1>11, <1>13, <1>14 DEF PromiseInv
<1>15. ASSUME NEW d \in Clients, NEW e \in Clients, IsTold(d)', IsTold(e)',
              client'[d].token = client'[e].token
       PROVE  d = e
  BY <1>10, <1>13, <1>15 DEF PromiseInv
<1>16. ASSUME NEW d \in Clients, IsTold(d)', ~client'[d].lost
       PROVE  (Passed(client[d].token) \/ Waits(client[d].token))'
  <2>1. CASE d = c
    BY <1>10, <1>12, <1>16, <2>1
  <2>2. CASE d # c
    BY <1>11, <1>13, <1>16, <2>2 DEF PromiseInv
  <2> QED  BY <2>1, <2>2
<1> QED  BY <1>11, <1>14, <1>15, <1>16 DEF PromiseInv

LEMMA TickStep ==
    ASSUME PromiseInv, Retrieval!Tick
    PROVE  PromiseInv'
<1>1. /\ cache' = [t \in DOMAIN cache |-> [cache[t] EXCEPT !.age = Retrieval!Older(@)]]
      /\ unused' = [t \in DOMAIN unused |-> Retrieval!Older(unused[t])]
      /\ client' = client
  BY DEF Retrieval!Tick
<1>2. \A a \in Retrieval!Ages : /\ Retrieval!Older(a) = IF a + 1 <= TTL + 1 THEN a + 1 ELSE TTL + 1
                                /\ Retrieval!Older(a) \in Retrieval!Ages
  <2> SUFFICES ASSUME NEW a \in Retrieval!Ages
               PROVE  /\ Retrieval!Older(a) = IF a + 1 <= TTL + 1 THEN a + 1 ELSE TTL + 1
                      /\ Retrieval!Older(a) \in Retrieval!Ages
    OBVIOUS
  <2>1. a \in Nat /\ a + 1 \in Int /\ TTL + 1 \in Int
    BY RetrievalBounds DEF Retrieval!Ages
  <2>2. Retrieval!Older(a) = IF a + 1 <= TTL + 1 THEN a + 1 ELSE TTL + 1
    BY <2>1, LeastOfTwo DEF Retrieval!Older
  <2> QED  BY <2>1, <2>2, RetrievalBounds DEF Retrieval!Ages
<1>3. /\ unused \in Seq(Retrieval!Ages) /\ DOMAIN unused = Retrieval!Tokens
      /\ \A t \in Retrieval!Tokens : unused[t] \in Retrieval!Ages
  BY DEF PromiseInv, PromiseTyped, Retrieval!Tokens
<1>4. /\ unused' \in Seq(Retrieval!Ages) /\ Retrieval!Tokens' = Retrieval!Tokens
      /\ \A t \in Retrieval!Tokens : unused'[t] = Retrieval!Older(unused[t])
  <2>1. unused' \in [1 .. Len(unused) -> Retrieval!Ages] /\ Len(unused) \in Nat
    BY <1>1, <1>2, <1>3 DEF Retrieval!Tokens
  <2>2. unused' \in Seq(Retrieval!Ages) /\ Len(unused') = Len(unused)
    BY <2>1
  <2> QED  BY <1>1, <1>3, <2>2 DEF Retrieval!Tokens
<1>5. ASSUME NEW t \in DOMAIN cache
      PROVE  /\ IsEntry(cache'[t]) /\ cache'[t].age = Retrieval!Older(cache[t].age)
             /\ cache'[t].tier = cache[t].tier /\ cache'[t].shipped = cache[t].shipped
             /\ cache'[t].cap = cache[t].cap
  <2> DEFINE e == cache[t]
  <2>1. /\ e = [question |-> e.question, tier |-> e.tier, shipped |-> e.shipped, cap |-> e.cap,
                age |-> e.age]
        /\ e.tier \in Nat /\ e.age \in Retrieval!Ages
    BY DEF PromiseInv, PromiseTyped, IsEntry
  <2>2. cache'[t] = [e EXCEPT !.age = Retrieval!Older(e.age)]
    BY <1>1
  <2> HIDE DEF e
  <2>3. cache'[t] = [question |-> e.question, tier |-> e.tier, shipped |-> e.shipped,
                     cap |-> e.cap, age |-> Retrieval!Older(e.age)]
    BY <2>1, <2>2
  <2>4. Retrieval!Older(e.age) \in Retrieval!Ages
    BY <1>2, <2>1
  <2> QED  BY <2>1, <2>3, <2>4 DEF IsEntry, e
<1>6. DOMAIN cache' = DOMAIN cache /\ cache' = [t \in DOMAIN cache' |-> cache'[t]]
  BY <1>1
<1>7. PromiseTyped'
  BY <1>1, <1>4, <1>5, <1>6 DEF PromiseInv, PromiseTyped
<1>8. \A t \in DOMAIN cache' : cache'[t].age = unused'[t]
  BY <1>4, <1>5, <1>6 DEF PromiseInv, PromiseTyped
<1>9. ASSUME NEW t \in Retrieval!Tokens, Passed(t)  PROVE Passed(t)'
  <2>1. unused[t] > TTL => unused'[t] > TTL
    BY <1>2, <1>3, <1>4, RetrievalBounds DEF Retrieval!Ages
  <2>2. ASSUME NEW u \in Retrieval!Tokens, unused[u] <= unused[t]
        PROVE  unused'[u] <= unused'[t]
    <3>1. \A a, b \in Retrieval!Ages : a <= b => Retrieval!Older(a) <= Retrieval!Older(b)
      <4>1. \A a, b \in Retrieval!Ages :
               a <= b => (IF a + 1 <= TTL + 1 THEN a + 1 ELSE TTL + 1)
                           <= (IF b + 1 <= TTL + 1 THEN b + 1 ELSE TTL + 1)
        BY RetrievalBounds DEF Retrieval!Ages
      <4> QED  BY <1>2, <4>1
    <3> QED  BY <1>3, <1>4, <2>2, <3>1
  <2> QED  BY <1>4, <1>7, <1>9, <2>1, <2>2, StaysPassed DEF PromiseInv
<1>10. ASSUME NEW t, Waits(t)  PROVE Waits(t)'
  BY <1>5, <1>6, <1>10 DEF Waits, Retrieval!Spent, Retrieval!HasLeft
<1> QED  BY <1>1, <1>4, <1>7, <1>8, <1>9, <1>10 DEF PromiseInv, IsTold

LEMMA RestartStep ==
    ASSUME PromiseInv, Retrieval!Restart
    PROVE  PromiseInv'
<1>1. /\ cache' = <<>> /\ unused' = [t \in DOMAIN unused |-> TTL + 1]
      /\ client' = [c \in Clients |-> IF client[c].does = "asking" THEN Retrieval!Idle ELSE client[c]]
  BY DEF Retrieval!Restart
<1>2. DOMAIN cache' = {} /\ cache' = [t \in DOMAIN cache' |-> cache'[t]]
  BY <1>1
<1>3. TTL + 1 \in Retrieval!Ages
  BY RetrievalBounds DEF Retrieval!Ages
<1>4. /\ unused' \in Seq(Retrieval!Ages) /\ Retrieval!Tokens' = Retrieval!Tokens
      /\ \A t \in Retrieval!Tokens : unused'[t] = TTL + 1
  <2>1. DOMAIN unused = 1 .. Len(unused) /\ Len(unused) \in Nat
    BY DEF PromiseInv, PromiseTyped
  <2>2. unused' \in [1 .. Len(unused) -> Retrieval!Ages]
    BY <1>1, <1>3, <2>1
  <2>3. unused' \in Seq(Retrieval!Ages) /\ Len(unused') = Len(unused)
    BY <2>1, <2>2
  <2> QED  BY <1>1, <2>1, <2>3 DEF Retrieval!Tokens
<1>5. PromiseTyped'
  <2>1. client' \in [Clients -> Retrieval!Asking \cup Retrieval!Told \cup {Retrieval!Idle}]
    BY <1>1 DEF PromiseInv, PromiseTyped
  <2> QED  BY <1>2, <1>4, <2>1 DEF PromiseTyped
<1>6. \A c \in Clients : IsTold(c)' => IsTold(c) /\ client'[c] = client[c]
  BY <1>1 DEF IsTold, Retrieval!Idle
<1>7. \A t \in Retrieval!Tokens : Passed(t)'
  BY <1>4, RetrievalBounds DEF Passed
<1> QED  BY <1>2, <1>4, <1>5, <1>6, <1>7 DEF PromiseInv

\* Who was told that there is more gets it, unless the token was not used for
\* TTL or passed by MaxEntries others, an answer was lost, or the daemon
\* started anew: whatever is found and however much of it is shipped, no tier
\* handed out as "more" is missing (progressive-query.ts, progressive-cache.ts).
THEOREM PromisesAreKept == RetrievalSpec => []PromiseIsKept
<1>1. Retrieval!RetrievalInit => PromiseInv
  <2> SUFFICES ASSUME Retrieval!RetrievalInit  PROVE PromiseInv
    OBVIOUS
  <2>1. cache = <<>> /\ unused = <<>> /\ client = [c \in Clients |-> Retrieval!Idle]
    BY DEF Retrieval!RetrievalInit
  <2>2. DOMAIN cache = {} /\ cache = [t \in DOMAIN cache |-> cache[t]]
    BY <2>1
  <2>3. \A c \in Clients : ~IsTold(c)
    BY <2>1 DEF IsTold, Retrieval!Idle
  <2> QED  BY <2>1, <2>2, <2>3 DEF PromiseInv, PromiseTyped
<1>2. PromiseInv /\ [Retrieval!RetrievalNext]_retrievalVars => PromiseInv'
  <2> SUFFICES ASSUME PromiseInv, [Retrieval!RetrievalNext]_retrievalVars  PROVE PromiseInv'
    OBVIOUS
  <2>1. CASE UNCHANGED retrievalVars
    BY <2>1 DEF retrievalVars, PromiseInv, PromiseTyped, IsEntry, IsTold, Passed, Others, Waits,
                Retrieval!Tokens, Retrieval!Spent, Retrieval!HasLeft
  <2> QED
    BY <2>1, AskStep, AnswerStep, ExpandStep, ExpandRefusedStep, TickStep, RestartStep
       DEF Retrieval!RetrievalNext
<1>3. PromiseInv => PromiseIsKept
  BY SameCardinality
     DEF PromiseInv, PromiseIsKept, Retrieval!PromiseIsKept, IsTold, Passed, Others, Waits
<1>4. QED
  BY <1>1, <1>2, <1>3, PTL DEF RetrievalSpec
-----------------------------------------------------------------------------
(* Service.  A step of the whole is a step of one part and leaves the others *)
(* alone, so that a behaviour of the whole is a behaviour of every part, and *)
(* what a part promises by itself it promises beside the others.             *)
LEMMA EachPartBehaves ==
    Spec => RetrievalSpec /\ UploadsSpec /\ AccessSpec /\ FactSpec /\ CallsSpec
<1>1. Init => /\ Retrieval!RetrievalInit /\ UploadsInit /\ AccessInit /\ FactInit
             /\ Calls!CallsInit
  BY DEF Init
<1>2. [Next]_vars => /\ [Retrieval!RetrievalNext]_retrievalVars
                     /\ [UploadsNext]_uploadVars
                     /\ [AccessNext]_accessVars
                     /\ [FactNext]_factVars
                     /\ [Calls!CallsNext]_callVars
  BY DEF Next, vars, RetrievalStep, UploadStep, AccessStep, CallStep, FactStep
<1>3. QED
  BY <1>1, <1>2, PTL DEF Spec, RetrievalSpec, UploadsSpec, AccessSpec, FactSpec, CallsSpec

\* What each part promises holds of the service: who was told that there is
\* more gets it, accepted files stay, tokens stay with those they were given
\* to, no address gets more than it may, no process and no failure is
\* forgotten, and the facts of a page are of one extraction, indexed and on
\* record.
THEOREM PartsKeepTheirPromises ==
    Spec => /\ []PromiseIsKept
            /\ []AcceptedStays
            /\ []TokensHold
            /\ []FloodIsBounded
            /\ []CallsAreAccountedFor
            /\ []OneExtraction
            /\ []IndexFollows
            /\ []FactsAreOnRecord
<1>1. UploadAssumption /\ AccessAssumption /\ FactAssumption
  BY ServiceAssumption
<1>2. UploadsSpec => []AcceptedStays
  BY <1>1, AcceptedFilesStay
<1>3. AccessSpec => []TokensHold /\ []FloodIsBounded
  BY <1>1, TokensAreHeld, FloodsAreBounded
<1>4. FactSpec => []OneExtraction /\ []IndexFollows /\ []FactsAreOnRecord
  BY <1>1, OneExtractionPerPage, IndexFollowsTable, FactsGoOnRecord
<1>5. QED
  BY <1>2, <1>3, <1>4, PromisesAreKept, CallsStayAccountedFor, EachPartBehaves, PTL
=============================================================================
