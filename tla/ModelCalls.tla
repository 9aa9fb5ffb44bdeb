-------------------------------- MODULE ModelCalls --------------------------------
(***************************************************************************)
(* How a batch reaches the model and what becomes of it when that fails.   *)
(* At its start the daemon settles for the `claude` command or the API of  *)
(* a provider (src/ingestion/execution-mode.ts).  A call of the command is *)
(* a process (src/ingestion/cli-invoker.ts) that is waited for until it    *)
(* ends, told to end after ten minutes, and never told when the daemon     *)
(* ends; its exit status is dropped on the way back                        *)
(* (src/llm/runtime-aware.ts), so that what it printed is the reply.       *)
(* Batches that fail for good go on a ledger of one line each              *)
(* (src/ingestion/dead-letter.ts, "must never prevent the daemon from      *)
(* continuing").                                                           *)
(*                                                                         *)
(* A reply is edits, a complaint that the command is not logged in, or     *)
(* anything else, an answer broken off included: it does not parse.        *)
(***************************************************************************)
EXTENDS Integers, Sequences, SequencesExt, FiniteSets

CONSTANTS
    Slots,          \* batches at the same time
    MaxBatches,     \* bound: batches
    MaxCallFaults   \* bound: failed appends and ends of the daemon

CallAssumption == MaxBatches \in Nat /\ MaxCallFaults \in Nat

VARIABLES
    mode,           \* the runtime the daemon has settled for
    call,           \* the batch in each slot and how far it is
    agents,         \* the processes: batch -> running or told to end
    ledger,         \* the lines of the dead-letter file
    open,           \* the last line has no end
    failed,         \* batches whose failure should be on the ledger (history)
    unlisted,       \* ... and may not be (history)
    orphaned,       \* batches whose daemon ended before them (history)
    started,        \* batches so far
    callFaults

callVars == <<mode, call, agents, ledger, open, failed, unlisted, orphaned, started, callFaults>>
ledgerVars == <<ledger, open>>
-----------------------------------------------------------------------------
Batches == 1 .. MaxBatches
Junk == 0
Free == [does |-> "free"]
Calls == [does : {"starting", "waiting", "applying", "failing"}, batch : Batches]

CallsTypeOK ==
    /\ mode \in {"cli", "api"}
    /\ call \in [Slots -> Calls \cup {Free}]
    /\ agents \in [Batches -> {"none", "running", "told"}]
    /\ ledger \in Seq(Batches \cup {Junk})
    /\ open \in BOOLEAN
    /\ failed \subseteq Batches
    /\ unlisted \subseteq Batches
    /\ orphaned \subseteq Batches
    /\ started \in 0 .. MaxBatches
    /\ callFaults \in 0 .. MaxCallFaults

\* resolveExecutionMode().  Whatever is not Anthropic's is never left to the
\* command by itself; Ollama needs no key.
ResolvedMode(configured, provider, cliThere, keySet) ==
    LET keyed == keySet \/ (configured = "auto" /\ provider = "ollama")
        api == IF keyed THEN "api" ELSE "refused"
    IN  CASE configured = "cli" -> IF cliThere THEN "cli" ELSE "refused"
          [] configured = "api" -> api
          [] configured = "auto" -> IF provider = "anthropic" /\ cliThere THEN "cli" ELSE api

CallsInit ==
    /\ \E configured \in {"auto", "cli", "api"}, cliThere, keySet \in BOOLEAN,
          provider \in {"anthropic", "openai", "gemini", "ollama"} :
          /\ mode = ResolvedMode(configured, provider, cliThere, keySet)
          /\ mode # "refused"
    /\ call = [s \in Slots |-> Free]
    /\ agents = [b \in Batches |-> "none"]
    /\ ledger = <<>>
    /\ open = FALSE
    /\ failed = {}
    /\ unlisted = {}
    /\ orphaned = {}
    /\ started = 0
    /\ callFaults = 0

Does(s, stage) == call[s].does = stage
CallFault == callFaults < MaxCallFaults /\ callFaults' = callFaults + 1
Goes(s, stage) == call' = [call EXCEPT ![s].does = stage]
-----------------------------------------------------------------------------
\* A batch's prompt is built.
Take(s) ==
    /\ Does(s, "free")
    /\ started < MaxBatches
    /\ started' = started + 1
    /\ call' = [call EXCEPT ![s] = [does |-> "starting", batch |-> started + 1]]
    /\ UNCHANGED <<mode, agents, ledgerVars, failed, unlisted, orphaned, callFaults>>

\* The call goes out: a process with the prompt on its standard input, or a
\* request to the provider.
Invoke(s) ==
    /\ Does(s, "starting")
    /\ Goes(s, "waiting")
    /\ agents' = [agents EXCEPT ![call[s].batch] = IF mode = "cli" THEN "running" ELSE @]
    /\ UNCHANGED <<mode, ledgerVars, failed, unlisted, orphaned, started, callFaults>>

\* The pages, or what the prompt is made of, cannot be read, or another step before
\* the call throws; enqueue() catches that.
PromptFails(s) ==
    /\ Does(s, "starting")
    /\ Goes(s, "failing")
    /\ failed' = failed \cup {call[s].batch}
    /\ UNCHANGED <<mode, agents, ledgerVars, unlisted, orphaned, started, callFaults>>

\* What the caller makes of the reply: edits are applied; only the complaint of
\* the command goes on the ledger, any other reply is passed over.
Received(s, reply) ==
    /\ CASE reply = "edits" -> Goes(s, "applying")
         [] reply = "unauthenticated" -> Goes(s, "failing")
         [] reply = "other" -> call' = [call EXCEPT ![s] = Free]
    /\ failed' = IF reply = "unauthenticated" THEN failed \cup {call[s].batch} ELSE failed

Reply == {"edits", "unauthenticated", "other"}

\* Mutant of Ended: the call is over once the process has been told to end.
Ended_Told(b) == agents[b] = "told"

\* The process has ended and closed its output.
Ended(b) == agents[b] = "none"

\* It ends by itself, or as it was told.
AgentEnds(b) ==
    /\ agents[b] # "none"
    /\ agents' = [agents EXCEPT ![b] = "none"]
    /\ UNCHANGED <<mode, call, ledgerVars, failed, unlisted, orphaned, started, callFaults>>

\* "close", or "error" when there was no such command: whatever was printed,
\* and whether the process came to its end or was ended, is the reply.
CliReplies(s) ==
    /\ mode = "cli"
    /\ Does(s, "waiting")
    /\ Ended(call[s].batch)
    /\ \E reply \in Reply : Received(s, reply)
    /\ UNCHANGED <<mode, agents, ledgerVars, unlisted, orphaned, started, callFaults>>

\* The timer: a signal, which the process may take its time to follow.
Overdue(s) ==
    /\ Does(s, "waiting")
    /\ agents[call[s].batch] = "running"
    /\ agents' = [agents EXCEPT ![call[s].batch] = "told"]
    /\ UNCHANGED <<mode, call, ledgerVars, failed, unlisted, orphaned, started, callFaults>>

ApiReplies(s) ==
    /\ mode = "api"
    /\ Does(s, "waiting")
    /\ \E reply \in Reply : Received(s, reply)
    /\ UNCHANGED <<mode, agents, ledgerVars, unlisted, orphaned, started, callFaults>>

\* The provider cannot be reached, or answers with an error.
ApiThrows(s) ==
    /\ mode = "api"
    /\ Does(s, "waiting")
    /\ Goes(s, "failing")
    /\ failed' = failed \cup {call[s].batch}
    /\ UNCHANGED <<mode, agents, ledgerVars, unlisted, orphaned, started, callFaults>>

\* Pages, links, index, record and commit: done, or given up half-way.
Applied(s) ==
    /\ Does(s, "applying")
    /\ call' = [call EXCEPT ![s] = Free]
    /\ UNCHANGED <<mode, agents, ledgerVars, failed, unlisted, orphaned, started, callFaults>>

ApplyThrows(s) ==
    /\ Does(s, "applying")
    /\ Goes(s, "failing")
    /\ failed' = failed \cup {call[s].batch}
    /\ UNCHANGED <<mode, agents, ledgerVars, unlisted, orphaned, started, callFaults>>

\* appendFile(): a last line without an end swallows the record.
Appended(b) == IF open THEN Append(Front(ledger), Junk) ELSE Append(ledger, b)

\* record()
Record(s) ==
    /\ Does(s, "failing")
    /\ ledger' = Appended(call[s].batch)
    /\ open' = FALSE
    /\ unlisted' = IF open THEN unlisted \cup {call[s].batch} ELSE unlisted
    /\ call' = [call EXCEPT ![s] = Free]
    /\ UNCHANGED <<mode, agents, failed, orphaned, started, callFaults>>

\* The file cannot be written: a warning.
RecordFails(s) ==
    /\ Does(s, "failing")
    /\ CallFault
    /\ unlisted' = unlisted \cup {call[s].batch}
    /\ call' = [call EXCEPT ![s] = Free]
    /\ UNCHANGED <<mode, agents, ledgerVars, failed, orphaned, started>>

\* The daemon ends, or dies in the middle of a record, and another one starts.
\* The processes are not told, nor known to the next daemon.
DaemonEnds ==
    /\ CallFault
    /\ LET lost == {call[s].batch : s \in {t \in Slots : ~Does(t, "free")}}
       IN  /\ orphaned' = orphaned \cup lost
           /\ unlisted' = unlisted \cup lost
    /\ \/ UNCHANGED ledgerVars
       \/ /\ \E s \in Slots : Does(s, "failing")
          /\ ledger' = IF open THEN ledger ELSE Append(ledger, Junk)
          /\ open' = TRUE
    /\ call' = [s \in Slots |-> Free]
    /\ UNCHANGED <<mode, agents, failed, started>>

CallsNext ==
    \/ \E s \in Slots :
          \/ Take(s) \/ Invoke(s) \/ PromptFails(s)
          \/ CliReplies(s) \/ Overdue(s) \/ ApiReplies(s) \/ ApiThrows(s)
          \/ Applied(s) \/ ApplyThrows(s) \/ Record(s) \/ RecordFails(s)
    \/ \E b \in Batches : AgentEnds(b)
    \/ DaemonEnds
-----------------------------------------------------------------------------
\* list() of the ledger; count() counts the broken lines, too.
Listed == ToSet(ledger) \ {Junk}
Pending == {call[s].batch : s \in {t \in Slots : Does(t, "failing")}}

\* No process works in the wiki that nobody waits for, but for those a daemon
\* has left behind, and every batch that failed is read back from the ledger,
\* but for a record that could not be written, one the daemon did not live to
\* write, and the first after a line that was broken off (dead-letter.ts:2,
\* "Records permanently-failed ingestion batches", and queue.ts:192).
CallsAreAccountedFor ==
    /\ \A b \in Batches \ orphaned :
          agents[b] # "none" => \E s \in Slots : Does(s, "waiting") /\ call[s].batch = b
    /\ failed \subseteq Listed \cup unlisted \cup Pending
=============================================================================
