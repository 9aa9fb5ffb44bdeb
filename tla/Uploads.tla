--------------------------------- MODULE Uploads ---------------------------------
(***************************************************************************)
(* POST /internal/ingest (src/server/index.ts): the hosted service asks    *)
(* the daemon to download a file into raw/, where the watcher finds it.    *)
(* The download (src/server/safe-fetch.ts) streams into the file itself,   *)
(* under its final name, and tries to remove that name when anything goes  *)
(* wrong; that this failed is not noticed.                                 *)
(* Nothing keeps two requests for one name apart: a retry may run beside   *)
(* the download it repeats, or after it.                                   *)
(*                                                                         *)
(* All downloads of a name are of the same object, so a file is the set of *)
(* its parts that are in it.  A download keeps its file open: a name that  *)
(* is removed meanwhile leaves it writing to a file without one.           *)
(***************************************************************************)
EXTENDS Integers, FiniteSets

CONSTANTS
    Requests,
    Names,          \* raw_source_id and file name
    Parts,          \* parts of an object
    NoFile,
    MaxUploadFaults \* bound: failed downloads and removals, deaths of the daemon

UploadAssumption == NoFile \notin Requests /\ Parts \in Nat \ {0} /\ MaxUploadFaults \in Nat

VARIABLES
    request,        \* how far each request is
    raw,            \* the file behind each name in raw/
    content,        \* the parts in each file; a file is called after who made it
    contended,      \* requests another download of the name came in the way of (history)
    torn,           \* names whose last download the daemon did not survive, or
                    \* failed and could not be removed (history)
    uploadFaults    \* faults so far

uploadVars == <<request, raw, content, contended, torn, uploadFaults>>
-----------------------------------------------------------------------------
NotYet == [does |-> "idle"]
Answers == {202, 400, 401, 403, 413, 500, 502, 504}
Fetching == [does : {"fetching"}, name : Names]
Downloading == [does : {"streaming", "failed", "stuck"}, name : Names, file : Requests,
                next : 1 .. Parts + 1]
Answered == [does : {"answered"}, name : Names, status : Answers]
Cut == [does : {"cut"}, name : Names]

UploadsTypeOK ==
    /\ request \in [Requests -> Fetching \cup Downloading \cup Answered \cup Cut \cup {NotYet}]
    /\ raw \in [Names -> Requests \cup {NoFile}]
    /\ content \in [Requests -> SUBSET (1 .. Parts)]
    /\ contended \subseteq Requests
    /\ torn \subseteq Names
    /\ uploadFaults \in 0 .. MaxUploadFaults

UploadsInit ==
    /\ request = [r \in Requests |-> NotYet]
    /\ raw = [n \in Names |-> NoFile]
    /\ content = [r \in Requests |-> {}]
    /\ contended = {}
    /\ torn = {}
    /\ uploadFaults = 0

Does(r, stages) == request[r].does \in stages
OpenFor(n) == {r \in Requests : Does(r, {"streaming", "failed", "stuck"}) /\ request[r].name = n}
Accepted(r) == Does(r, {"answered"}) /\ request[r].status = 202

UploadFault == uploadFaults < MaxUploadFaults /\ uploadFaults' = uploadFaults + 1
-----------------------------------------------------------------------------
\* The key, the body and the tenant are checked, then the fields and the path.
\* A request may be refused for each; raw/ is made.
Post(r, n) ==
    /\ Does(r, {"idle"})
    /\ \/ request' = [request EXCEPT ![r] = [does |-> "fetching", name |-> n]]
       \/ \E status \in {400, 401, 403, 500} :
             request' = [request EXCEPT ![r] = [does |-> "answered", name |-> n, status |-> status]]
    /\ UNCHANGED <<raw, content, contended, torn, uploadFaults>>

\* The host, its addresses, the response or its length will not do, or thirty
\* seconds are over: nothing has been touched.
TurnDown(r) ==
    /\ Does(r, {"fetching"})
    /\ \E status \in {400, 413, 500, 502, 504} :
          request' = [request EXCEPT ![r] =
              [does |-> "answered", name |-> request[r].name, status |-> status]]
    /\ UNCHANGED <<raw, content, contended, torn, uploadFaults>>

\* createWriteStream(): the file is made, or emptied.
Open(r) ==
    /\ Does(r, {"fetching"})
    /\ LET n == request[r].name
           file == IF raw[n] = NoFile THEN r ELSE raw[n]
           others == OpenFor(n)
       IN  /\ raw' = [raw EXCEPT ![n] = file]
           /\ content' = [content EXCEPT ![file] = {}]
           /\ request' = [request EXCEPT ![r] =
                  [does |-> "streaming", name |-> n, file |-> file, next |-> 1]]
           /\ contended' = contended \cup others
                  \cup {q \in Requests : Accepted(q) /\ request[q].name = n}
                  \cup IF others # {} THEN {r} ELSE {}
           /\ torn' = IF others = {} THEN torn \ {n} ELSE torn
    /\ UNCHANGED uploadFaults

Write(r) ==
    /\ Does(r, {"streaming"})
    /\ request[r].next <= Parts
    /\ content' = [content EXCEPT ![request[r].file] = @ \cup {request[r].next}]
    /\ request' = [request EXCEPT ![r].next = @ + 1]
    /\ UNCHANGED <<raw, contended, torn, uploadFaults>>

\* The stream fails while the loop waits for it to drain: no error reaches it.
GetStuck(r) ==
    /\ Does(r, {"streaming"})
    /\ request[r].next <= Parts
    /\ UploadFault
    /\ request' = [request EXCEPT ![r].does = "stuck"]
    /\ UNCHANGED <<raw, content, contended, torn>>

\* Everything is written and the stream has ended without an error.
Accept(r) ==
    /\ Does(r, {"streaming"})
    /\ request[r].next > Parts
    /\ request' = [request EXCEPT ![r] =
           [does |-> "answered", name |-> request[r].name, status |-> 202]]
    /\ UNCHANGED <<raw, content, contended, torn, uploadFaults>>

\* The body breaks off, is too long or too late, or the disk refuses it.
Break(r) ==
    /\ Does(r, {"streaming"})
    /\ UploadFault
    /\ request' = [request EXCEPT ![r].does = "failed"]
    /\ UNCHANGED <<raw, content, contended, torn>>

\* Mutant of Removed: a failed download leaves its file.
Removed_Not(n) == raw

\* unlink() of the name, whatever file is behind it now.
Removed(n) == [raw EXCEPT ![n] = NoFile]

CleanUp(r) ==
    /\ Does(r, {"failed"})
    /\ raw' = Removed(request[r].name)
    /\ \E status \in {413, 500, 504} :
          request' = [request EXCEPT ![r] =
              [does |-> "answered", name |-> request[r].name, status |-> status]]
    /\ UNCHANGED <<content, contended, torn, uploadFaults>>

\* unlink() fails, and catch() passes over it.
CleanUpFails(r) ==
    /\ Does(r, {"failed"})
    /\ UploadFault
    /\ torn' = torn \cup {request[r].name}
    /\ \E status \in {413, 500, 504} :
          request' = [request EXCEPT ![r] =
              [does |-> "answered", name |-> request[r].name, status |-> status]]
    /\ UNCHANGED <<raw, content, contended>>

\* The daemon dies or is stopped: its downloads are cut off where they are.
DaemonEnds ==
    /\ UploadFault
    /\ torn' = torn \cup {n \in Names : OpenFor(n) # {}}
    /\ request' = [r \in Requests |->
           IF Does(r, {"fetching", "streaming", "failed", "stuck"})
           THEN [does |-> "cut", name |-> request[r].name] ELSE request[r]]
    /\ UNCHANGED <<raw, content, contended>>

UploadsNext ==
    \/ \E r \in Requests :
          \/ \E n \in Names : Post(r, n)
          \/ TurnDown(r) \/ Open(r) \/ Write(r) \/ GetStuck(r) \/ Accept(r) \/ Break(r)
          \/ CleanUp(r) \/ CleanUpFails(r)
    \/ DaemonEnds
-----------------------------------------------------------------------------
IsWhole(n) == raw[n] # NoFile /\ content[raw[n]] = 1 .. Parts
Contended(n) == \E r \in contended : request[r].name = n

\* A file that was accepted is there, whole, but for another download of its name
\* that ran beside it or later (index.ts:549, 202 "once the file is on disk").  And
\* once none is under way (one that got stuck is so for ever), a part of a file is
\* only left where downloads of one name ran beside each other or after an accepted
\* one, or the last one was cut off by the end of the daemon, or it failed and its
\* removal failed too, which nobody hears of (safe-fetch.ts:112, "On any failure
\* the (partial) target file is removed").  The next one that is alone puts that
\* right.
AcceptedStays ==
    /\ \A r \in Requests \ contended : Accepted(r) => IsWhole(request[r].name)
    /\ \A n \in Names :
          OpenFor(n) = {} /\ n \notin torn /\ ~Contended(n) /\ raw[n] # NoFile => IsWhole(n)
=============================================================================
