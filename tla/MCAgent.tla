------------------------------ MODULE MCAgent ------------------------------
(* The agent's parts, one of them at a time: the page and its worker, a     *)
(* session's messages, the toolbox and the machine's power, the file tools, *)
(* the scripts that share the page's console, the bar that asks before a    *)
(* call runs; and what the guest asks of the page: fetches, and the rest.   *)
EXTENDS AgentWorker, Confirms, DeviceTools, HostCalls, PageScripts, ToolFollow, TurnQueue

VARIABLE part

ASSUME AgentAssumption ==
  /\ WorkerAssumption /\ QueueAssumption /\ ToolFollowAssumption /\ DeviceToolsAssumption /\ ScriptsAssumption
  /\ ConfirmsAssumption /\ FetchAssumption /\ HostCallsAssumption

ofWorker  == workerVars
ofTurns   == turnsVars
ofFollow  == followVars
ofTools   == toolsVars
ofConsole == vars
ofConsent == confirmsVars
ofFetch   == fetchVars
ofHosting == askVars
ofHost    == <<ofFetch, ofHosting>>
ofAll == <<part, ofWorker, ofTurns, ofFollow, ofTools, ofConsole, ofConsent, ofHost>>

\* Another part's runs have no worker that could be owed anything.
NoWorker ==
  /\ worker = "broken" /\ ready = "failed" /\ waiting = <<>> /\ pending = {} /\ toWorker = <<>> /\ posted = <<>>
  /\ streams = {} /\ view = [v \in Views |-> "none"] /\ shown = [v \in Views |-> 0] /\ attached = {}
  /\ log = 0 /\ busy = FALSE /\ parked = 0 /\ tool = "none" /\ running = 0 /\ polling = FALSE
  /\ errors = 0 /\ sent = 0

AgentInit ==
  /\ part \in {"worker", "turns", "follow", "tools", "console", "consent", "fetch", "calls"}
  /\ IF part = "worker" THEN WorkerInit ELSE NoWorker
  /\ TurnsInit /\ FollowInit /\ ToolsInit /\ Init /\ ConfirmsInit /\ FetchInit /\ AskInit
  /\ part = "follow" \/ power

AgentNext ==
  /\ UNCHANGED part
  /\ \/ part = "worker" /\ WorkerNext /\ UNCHANGED <<ofTurns, ofFollow, ofTools, ofConsole, ofConsent, ofHost>>
     \/ part = "turns" /\ TurnsNext /\ UNCHANGED <<ofWorker, ofFollow, ofTools, ofConsole, ofConsent, ofHost>>
     \/ part = "follow" /\ FollowNext /\ UNCHANGED <<ofWorker, ofTurns, ofTools, ofConsole, ofConsent, ofHost>>
     \/ part = "tools" /\ ToolsNext /\ UNCHANGED <<ofWorker, ofTurns, ofFollow, ofConsole, ofConsent, ofHost>>
     \/ part = "console" /\ Next /\ UNCHANGED <<ofWorker, ofTurns, ofFollow, ofTools, ofConsent, ofHost>>
     \/ part = "consent" /\ ConfirmsNext /\ UNCHANGED <<ofWorker, ofTurns, ofFollow, ofTools, ofConsole, ofHost>>
     \/ part = "fetch" /\ FetchNext /\ UNCHANGED <<ofWorker, ofTurns, ofFollow, ofTools, ofConsole, ofConsent, ofHosting>>
     \/ part = "calls" /\ AskNext /\ UNCHANGED <<ofWorker, ofTurns, ofFollow, ofTools, ofConsole, ofConsent, ofFetch>>

AgentSpec == AgentInit /\ [][AgentNext]_ofAll /\ WorkerFairness
=============================================================================
