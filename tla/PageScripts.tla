----------------------------- MODULE PageScripts -----------------------------
(***************************************************************************)
(* Scripts run on the page, by the agent's run_js and by the guest's js(1): *)
(* they overlap, share one console, and outlive their own timeouts.         *)
(***************************************************************************)
EXTENDS Integers, FiniteSets

CONSTANTS
  Scripts,  \* runs that may be in flight at once
  MaxLine,  \* bound: lines logged
  MaxRun    \* bound: runs started

\* What the constants are taken to be.
ScriptsAssumption == {MaxLine, MaxRun} \subseteq Nat

VARIABLES
  script,    \* each: "idle", "live"
  straying,  \* scripts that timed out and still execute
  console,   \* "page": its own; "capture": the wrapper that fans lines out
  hijacked,  \* what the wrapper put aside; "null" when nothing is
  sinks,     \* scripts whose sink is open
  output,    \* lines in each sink
  said,      \* history: lines logged while each ran
  lines, ran \* history: lines; runs

vars == <<script, straying, console, hijacked, sinks, output, said, lines, ran>>

Live == {s \in Scripts : script[s] = "live"}

Init ==
  /\ script = [s \in Scripts |-> "idle"] /\ straying = 0
  /\ console = "page" /\ hijacked = "null" /\ sinks = {}
  /\ output = [s \in Scripts |-> 0] /\ said = [s \in Scripts |-> 0]
  /\ lines = 0 /\ ran = 0

\* openSink: the first run wraps the console.
OpenSink(s) ==
  /\ hijacked' = IF hijacked = "null" THEN console ELSE hijacked
  /\ console' = IF hijacked = "null" THEN "capture" ELSE console
  /\ sinks' = sinks \cup {s} /\ output' = [output EXCEPT ![s] = 0]

\* Mutant: each run restores what it found.
CloseSinkAlways(s) ==
  /\ sinks' = sinks \ {s}
  /\ console' = IF hijacked # "null" THEN hijacked ELSE console
  /\ hijacked' = "null"

\* closeSink: the last one to leave restores it.
CloseSink(s) ==
  /\ sinks' = sinks \ {s}
  /\ IF sinks' = {} /\ hijacked # "null"
     THEN console' = hijacked /\ hijacked' = "null"
     ELSE UNCHANGED <<console, hijacked>>

\* runJs: a script that does not compile never opens a sink.
Run(s) ==
  /\ script[s] = "idle" /\ ran < MaxRun /\ ran' = ran + 1
  /\ script' = [script EXCEPT ![s] = "live"] /\ OpenSink(s) /\ said' = [said EXCEPT ![s] = 0]
  /\ UNCHANGED <<straying, lines>>

\* It returns or throws.
Settle(s) ==
  /\ script[s] = "live" /\ CloseSink(s) /\ script' = [script EXCEPT ![s] = "idle"]
  /\ UNCHANGED <<straying, output, said, lines, ran>>

\* The race's timer: the answer goes out and the script goes on.
TimeOut(s) ==
  /\ script[s] = "live" /\ CloseSink(s) /\ script' = [script EXCEPT ![s] = "idle"]
  /\ straying' = straying + 1
  /\ UNCHANGED <<output, said, lines, ran>>

StrayEnds == straying > 0 /\ straying' = straying - 1
             /\ UNCHANGED <<script, console, hijacked, sinks, output, said, lines, ran>>

\* A line, by a script, a straying one or the page: whose it is nobody knows.
Log ==
  /\ lines < MaxLine /\ lines' = lines + 1
  /\ output' = [s \in Scripts |-> IF console = "capture" /\ s \in sinks THEN output[s] + 1 ELSE output[s]]
  /\ said' = [s \in Scripts |-> IF s \in Live THEN said[s] + 1 ELSE said[s]]
  /\ UNCHANGED <<script, straying, console, hijacked, sinks, ran>>

Next == (\E s \in Scripts : Run(s) \/ Settle(s) \/ TimeOut(s)) \/ StrayEnds \/ Log

Spec == Init /\ [][Next]_vars

----------------------------------------------------------------------------
\* Every script in flight has heard all that was said since it began, however
\* others overlap it, and with none in flight the console is the page's again.
EveryLineHeard ==
  /\ \A s \in Live : output[s] = said[s]
  /\ (Live = {}) = (console = "page")
=============================================================================
