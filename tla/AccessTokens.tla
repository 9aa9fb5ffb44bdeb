------------------------------- MODULE AccessTokens -------------------------------
(***************************************************************************)
(* Who may use the MCP endpoint.  `wotw user add` and `wotw user revoke`   *)
(* load tokens.json, change it and save it whole (src/multi-user/          *)
(* token-store.ts, src/cli/commands/user.ts); nothing locks the file       *)
(* between.  The daemon loads it when it starts and never again; its       *)
(* middleware (src/server/middleware.ts) takes a token off the bucket of   *)
(* the client's address and then looks up the bearer token.                *)
(*                                                                         *)
(* A token is a number, in the order of their issue.  A bucket holds whole *)
(* requests; Refill of them come back in a tick.                           *)
(***************************************************************************)
EXTENDS Integers, FiniteSets, FiniteSetsExt

CONSTANTS
    Users,
    Commands,       \* `wotw user` commands at the same time
    Addresses,      \* of clients
    Capacity,       \* server.rate_limit_rpm
    Refill,         \* ... of it in a tick
    Corrupt,        \* what cannot be read as tokens.json
    Down,           \* no daemon runs
    MaxIssued,      \* bound: tokens issued
    MaxDamages      \* bound: damages to the file

AccessAssumption ==
    /\ Capacity \in Nat \ {0}
    /\ Refill \in Nat
    /\ MaxIssued \in Nat
    /\ MaxDamages \in Nat

VARIABLES
    file,           \* tokens.json: a set of [token, user], or Corrupt
    command,        \* what each command has loaded and is about to do
    daemon,         \* the tokens the daemon knows, or Down
    bucket,         \* of each address, or absent: not seen yet
    issued,         \* tokens issued so far
    wanted,         \* what each user should hold by the commands done (history)
    undone,         \* users for whom a command's work may be lost (history)
    pressed,        \* requests let through, less Refill for each tick (history)
    damages

accessVars == <<file, command, daemon, bucket, issued, wanted, undone, pressed, damages>>
-----------------------------------------------------------------------------
Unseen == -1
None == 0

Tokens == 1 .. MaxIssued
Grants == [token : Tokens, user : Users]
Resting == [does |-> "idle"]
\* missed: the users other commands have changed since the file was read.
Loaded == [does : {"add", "revoke"}, user : Users, holds : SUBSET Grants, missed : SUBSET Users]

AccessTypeOK ==
    /\ file \in (SUBSET Grants) \cup {Corrupt}
    /\ command \in [Commands -> Loaded \cup {Resting}]
    /\ daemon \in (SUBSET Grants) \cup {Down}
    /\ bucket \in [Addresses -> {Unseen} \cup 0 .. Capacity]
    /\ issued \in 0 .. MaxIssued
    /\ wanted \in [Users -> Tokens \cup {None}]
    /\ undone \subseteq Users
    /\ pressed \in [Addresses -> 0 .. Capacity]
    /\ damages \in 0 .. MaxDamages

AccessInit ==
    /\ file = {}
    /\ command = [c \in Commands |-> Resting]
    /\ daemon = Down
    /\ bucket = [a \in Addresses |-> Unseen]
    /\ issued = 0
    /\ wanted = [u \in Users |-> None]
    /\ undone = {}
    /\ pressed = [a \in Addresses |-> 0]
    /\ damages = 0

\* load(): a file that is missing or cannot be read is no tokens.
Known == IF file = Corrupt THEN {} ELSE file
TokensOf(S, u) == {g \in S : g.user = u}
-----------------------------------------------------------------------------
\* A command starts.  When the file is corrupt everybody's token is lost to it.
Load(c, op, u) ==
    /\ command[c] = Resting
    /\ command' = [command EXCEPT ![c] =
           [does |-> op, user |-> u, holds |-> Known,
            missed |-> IF file = Corrupt THEN Users ELSE {}]]
    /\ UNCHANGED <<file, daemon, bucket, issued, wanted, undone, pressed, damages>>

\* Somebody's change is saved: the others that run have missed it.
Saved(c, tokens) ==
    LET u == command[c].user
    IN  /\ file' = tokens
        /\ command' = [d \in Commands |->
               IF d = c THEN Resting
               ELSE IF command[d] = Resting THEN Resting
               ELSE [command[d] EXCEPT !.missed = @ \cup {u}]]
        /\ undone' = (undone \cup command[c].missed) \ {u}

\* Mutant of Dropped: the user's other tokens stay.
Dropped_None(holds, u) == {}

\* The tokens a user gives up for a new one.
Dropped(holds, u) == TokensOf(holds, u)

\* addUser()
Add(c) ==
    /\ command[c].does = "add"
    /\ issued < MaxIssued
    /\ issued' = issued + 1
    /\ LET u == command[c].user
           holds == command[c].holds
       IN  /\ Saved(c, (holds \ Dropped(holds, u)) \cup {[token |-> issued + 1, user |-> u]})
           /\ wanted' = [wanted EXCEPT ![u] = issued + 1]
    /\ UNCHANGED <<daemon, bucket, pressed, damages>>

\* revokeUser(): without a token to revoke nothing is saved.
Revoke(c) ==
    /\ command[c].does = "revoke"
    /\ LET u == command[c].user
           holds == command[c].holds
       IN  IF TokensOf(holds, u) # {}
           THEN /\ Saved(c, holds \ TokensOf(holds, u))
                /\ wanted' = [wanted EXCEPT ![u] = None]
           ELSE /\ command' = [command EXCEPT ![c] = Resting]
                /\ UNCHANGED <<file, undone, wanted>>
    /\ UNCHANGED <<daemon, bucket, issued, pressed, damages>>

\* The file is edited by hand, or a disk loses it.
Damage ==
    /\ damages < MaxDamages
    /\ damages' = damages + 1
    /\ file' = Corrupt
    /\ undone' = Users
    /\ UNCHANGED <<command, daemon, bucket, issued, wanted, pressed>>

\* The daemon starts with what the file says, and with full buckets.
Start ==
    /\ daemon = Down
    /\ daemon' = Known
    /\ bucket' = [a \in Addresses |-> Unseen]
    /\ pressed' = [a \in Addresses |-> 0]
    /\ UNCHANGED <<file, command, issued, wanted, undone, damages>>

Stop ==
    /\ daemon # Down
    /\ daemon' = Down
    /\ UNCHANGED <<file, command, bucket, issued, wanted, undone, pressed, damages>>

\* take()
Level(a) == IF bucket[a] = Unseen THEN Capacity ELSE bucket[a]
Taken(a) == bucket' = [bucket EXCEPT ![a] = Level(a) - 1]

\* A request past the limiter: served with a token the daemon knows, else 401.
Request(a) ==
    /\ daemon # Down
    /\ Level(a) >= 1
    /\ Taken(a)
    /\ pressed' = [pressed EXCEPT ![a] = @ + 1]
    /\ UNCHANGED <<file, command, daemon, issued, wanted, undone, damages>>

Refilled(level) == Min({Capacity, level + Refill})

\* Time passes.  The code reckons the refill when the next request comes.
Tick ==
    /\ bucket' = [a \in Addresses |-> IF bucket[a] = Unseen THEN Unseen ELSE Refilled(bucket[a])]
    /\ pressed' = [a \in Addresses |-> Max({0, pressed[a] - Refill})]
    /\ UNCHANGED <<file, command, daemon, issued, wanted, undone, damages>>

AccessNext ==
    \/ \E c \in Commands :
          \/ \E op \in {"add", "revoke"}, u \in Users : Load(c, op, u)
          \/ Add(c) \/ Revoke(c)
    \/ Damage \/ Start \/ Stop \/ Tick
    \/ \E a \in Addresses : Request(a)
-----------------------------------------------------------------------------
\* Nobody holds two tokens, whatever commands run beside each other, and what
\* the commands that are done have issued and revoked is what the file says,
\* save for users whose change another command had not seen when it wrote the
\* file, and for damage (token-store.ts:150, "enforce one active token per
\* user").
TokensHold ==
    file # Corrupt =>
        /\ \A u \in Users : Cardinality(TokensOf(file, u)) <= 1
        /\ \A u \in Users \ undone :
              {g.token : g \in TokensOf(file, u)} = {wanted[u]} \ {None}

\* However requests of an address are spread over time, those let through never
\* exceed a full bucket beyond what has been refilled meanwhile
\* (middleware.ts:80, take()).
FloodIsBounded == \A a \in Addresses : pressed[a] <= Capacity
=============================================================================
