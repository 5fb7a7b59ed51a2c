------------------------------ MODULE DeviceTools ------------------------------
(***************************************************************************)
(* The engine's file tools over the in-page machine: runtime/src/           *)
(* device-vm.ts.  A path under /data is the page's own file; any other one   *)
(* goes through a relay of its own under /data/.vinx/tmp, copied by a shell  *)
(* command in the guest.  Calls overlap and the guest writes what it likes.  *)
(* A shell command may break off half way or be killed at its timeout, and    *)
(* its answer may never come: then the call fails and the command may still   *)
(* run, later.                                                               *)
(*                                                                         *)
(* A file's content is the set of passages it is made of; a copy is one step. *)
(***************************************************************************)
EXTENDS Integers

CONSTANTS
  ToolCalls,  \* tool calls, each made once; also the passage each one writes
  Paths, InData,  \* the files, and those of them that are under /data
  MaxGuest    \* bound: writes by the guest

\* What the constants are taken to be.
DeviceToolsAssumption == InData \subseteq Paths /\ MaxGuest \in Nat

VARIABLES
  file,     \* the guest's files
  relay,    \* the relays under /data/.vinx/tmp, by name
  guest,    \* bound: writes by the guest so far
  call,     \* the calls: tool, path, step, bytes in hand, what the file was
            \* meanwhile, and what the call wrote
  shell,    \* each call's shell command: "none", "out" or "in" (to be run: to the
            \* relay, from the relay), "done", "broken"
  severed   \* history: calls whose write or command broke off, was killed, or was
            \* never answered

toolsVars == <<file, relay, guest, call, shell, severed>>

Absent == {"absent"}
Half   == {"rest"}
NoCall == [tool |-> "none", path |-> "none", step |-> "idle", got |-> {}, seen |-> {}, wrote |-> {}]

ToolsInit ==
  /\ file = [p \in Paths |-> {"old", "rest"}] /\ relay = [c \in ToolCalls |-> Absent]
  /\ guest = 0 /\ call = [c \in ToolCalls |-> NoCall]
  /\ shell = [c \in ToolCalls |-> "none"] /\ severed = {}

----------------------------------------------------------------------------
\* Mutant: one relay for every transfer.
OneRelay(c) == CHOOSE r \in ToolCalls : TRUE

\* ioName: a name of its own for each transfer.
Relay(c) == c

Ended == {"ok", "failed"}
Running(c) == call[c].step \notin {"idle"} \cup Ended

\* The file changes: whoever has a call on it may have seen either content.
Write(calls, p, content) ==
  /\ file' = [file EXCEPT ![p] = content]
  /\ call' = [c \in ToolCalls |->
       IF calls[c].path = p /\ calls[c].step \notin {"idle"} \cup Ended
       THEN [calls[c] EXCEPT !.seen = @ \cup {content}] ELSE calls[c]]

GuestWrites(p) ==
  /\ guest < MaxGuest /\ guest' = guest + 1
  /\ \E content \in {{"old", "guest"}, {"guest"}} : Write(call, p, content)
  /\ UNCHANGED <<relay, shell, severed>>

\* An edit of one place whose new text holds one of the patterns that
\* String.replace reads is a tool of its own here.
Tools == {"read", "download", "write", "edit", "edit$"}

\* dispatch: the arguments are in order.
Dispatch(c, tool, p) ==
  /\ call[c].step = "idle"
  /\ call' = [call EXCEPT ![c] =
       [tool |-> tool, path |-> p, step |-> IF tool = "write" THEN "put" ELSE "read",
        got |-> IF tool = "write" THEN {c} ELSE {}, seen |-> {file[p]}, wrote |-> {}]]
  /\ UNCHANGED <<file, relay, guest, shell, severed>>

ToolFails(c) == call' = [call EXCEPT ![c].step = "failed"]
ToolGoesOn(c, step) == call' = [call EXCEPT ![c].step = step]

----------------------------------------------------------------------------
(* Reading: readGuestFile, and what each tool does with the bytes.         *)

\* What takes the old passage's place.
NewText(c) == IF call[c].tool = "edit$" THEN {c, "mangled"} ELSE {c}

\* Bytes in hand: the answer of a read or a download, or the write of an edit.
Use(c, bytes) ==
  \/ /\ call[c].tool \in {"read", "download"}
     /\ call' = [call EXCEPT ![c].got = bytes, ![c].step = "ok"]
  \/ /\ call[c].tool \in {"edit", "edit$"} /\ "old" \notin bytes /\ ToolFails(c)
  \/ /\ call[c].tool \in {"edit", "edit$"} /\ "old" \in bytes
     /\ \E new \in NewText(c) :
          call' = [call EXCEPT ![c].got = (bytes \ {"old"}) \cup {new}, ![c].step = "put"]

ReadDirect(c) ==
  /\ call[c].step = "read" /\ call[c].path \in InData
  /\ \/ Use(c, file[call[c].path])
     \/ ToolFails(c)
  /\ UNCHANGED <<file, relay, guest, shell, severed>>

\* The guest is asked to copy the file to the relay, or cannot be asked.
Stage(c) ==
  /\ call[c].step = "read" /\ call[c].path \notin InData
  /\ \/ ToolGoesOn(c, "staging") /\ shell' = [shell EXCEPT ![c] = "out"]
     \/ ToolFails(c) /\ UNCHANGED shell
  /\ UNCHANGED <<file, relay, guest, severed>>

\* The guest copies it; or refuses to, the file missing or too long or /data not
\* mounted; or the copy breaks off, killed or without room.
CopyOut(c) ==
  /\ shell[c] = "out"
  /\ \/ /\ relay' = [relay EXCEPT ![Relay(c)] = file[call[c].path]]
        /\ shell' = [shell EXCEPT ![c] = "done"] /\ UNCHANGED severed
     \/ shell' = [shell EXCEPT ![c] = "broken"] /\ UNCHANGED <<relay, severed>>
     \/ /\ relay' = [relay EXCEPT ![Relay(c)] = Half]
        /\ shell' = [shell EXCEPT ![c] = "broken"] /\ severed' = severed \cup {c}
  /\ UNCHANGED <<file, guest, call>>

\* The answer of a command, of exit code 0 or another.
Answered(c, next) ==
  \/ shell[c] = "done" /\ ToolGoesOn(c, next)
  \/ shell[c] = "broken" /\ ToolFails(c)

\* A staging that failed is answered at once, the relay as it is.
Staged(c) ==
  /\ call[c].step = "staging" /\ Answered(c, "staged")
  /\ UNCHANGED <<file, relay, guest, shell, severed>>

\* The page reads the relay and unlinks it, read or not.
Fetch(c) ==
  /\ call[c].step = "staged"
  /\ relay' = [relay EXCEPT ![Relay(c)] = Absent]
  /\ \/ relay[Relay(c)] # Absent /\ Use(c, relay[Relay(c)])
     \/ ToolFails(c)
  /\ UNCHANGED <<file, guest, shell, severed>>

\* runShell rejects: rund is overloaded, the link is down, or the answer is late.
\* The guest may still run the command.
Unheard(c) ==
  /\ call[c].step \in {"staging", "landing"}
  /\ ToolFails(c) /\ severed' = severed \cup {c}
  /\ UNCHANGED <<file, relay, guest, shell>>

----------------------------------------------------------------------------
(* Writing: writeGuestFile.                                                *)

\* putFile, which may reject before it made the file, or with it half made.
PutDirect(c) ==
  LET p == call[c].path IN
  /\ call[c].step = "put" /\ p \in InData
  /\ \/ Write([call EXCEPT ![c].step = "ok", ![c].wrote = call[c].got], p, call[c].got) /\ UNCHANGED severed
     \/ \E text \in {file[p], {}} :
          Write([call EXCEPT ![c].step = "failed"], p, text) /\ severed' = severed \cup {c}
  /\ UNCHANGED <<relay, guest, shell>>

PutRelay(c) ==
  /\ call[c].step = "put" /\ call[c].path \notin InData
  /\ \/ /\ relay' = [relay EXCEPT ![Relay(c)] = call[c].got]
        /\ ToolGoesOn(c, "landing") /\ shell' = [shell EXCEPT ![c] = "in"] /\ UNCHANGED severed
     \/ /\ \E text \in {Absent, {}} : relay' = [relay EXCEPT ![Relay(c)] = text]
        /\ ToolFails(c) /\ severed' = severed \cup {c} /\ UNCHANGED shell
  /\ UNCHANGED <<file, guest>>

\* The guest copies the relay into place and removes it; or cannot copy it, or
\* not all of it, and removes it; or stops before it has, killed or with /data
\* not mounted.
CopyIn(c) ==
  LET p == call[c].path
      r == Relay(c)
  IN
  /\ shell[c] = "in"
  /\ \/ /\ relay[r] # Absent /\ relay' = [relay EXCEPT ![r] = Absent]
        /\ Write([call EXCEPT ![c].wrote = relay[r]], p, relay[r])
        /\ shell' = [shell EXCEPT ![c] = "done"] /\ UNCHANGED severed
     \/ /\ relay' = [relay EXCEPT ![r] = Absent]
        /\ \E text \in {file[p], Half} : Write(call, p, text)
        /\ shell' = [shell EXCEPT ![c] = "broken"] /\ UNCHANGED severed
     \/ /\ \E text \in {file[p], Half} \cup ({relay[r]} \ {Absent}) : Write(call, p, text)
        /\ shell' = [shell EXCEPT ![c] = "broken"] /\ severed' = severed \cup {c} /\ UNCHANGED relay
  /\ UNCHANGED guest

\* The command's answer is the tool's.
Land(c) ==
  /\ call[c].step = "landing" /\ Answered(c, "ok")
  /\ UNCHANGED <<file, relay, guest, shell, severed>>

ToolsNext ==
  \/ \E p \in Paths : GuestWrites(p)
  \/ \E c \in ToolCalls :
       \/ \E tool \in Tools, p \in Paths : Dispatch(c, tool, p)
       \/ ReadDirect(c) \/ Stage(c) \/ CopyOut(c) \/ Staged(c) \/ Fetch(c) \/ Unheard(c)
       \/ PutDirect(c) \/ PutRelay(c) \/ CopyIn(c) \/ Land(c)

ToolsSpec == ToolsInit /\ [][ToolsNext]_toolsVars

----------------------------------------------------------------------------
\* An edit that says it was made wrote a text the file had during the call with
\* just the passage asked for in place of the old one -- or what String.replace
\* makes of that passage, when it holds one of its patterns.
EditAsAsked ==
  \A c \in ToolCalls : call[c].tool \in {"edit", "edit$"} /\ call[c].step = "ok" =>
    \E text \in call[c].seen, new \in NewText(c) :
      "old" \in text /\ call[c].wrote = (text \ {"old"}) \cup {new}

\* "Exact content transfer": whatever else runs, killed or unheard commands that
\* run late included, the bytes of a read are what that file held during the call,
\* a write lands its own bytes and an edit is the edit asked for.  No transfer
\* leaves its relay behind ("removed on every path out"), refused ones included,
\* but one whose write or command broke off, was killed or never answered.
TransferExact ==
  /\ \A c \in ToolCalls : call[c].step = "ok" =>
       CASE call[c].tool \in {"read", "download"} -> call[c].got \in call[c].seen
         [] call[c].tool = "write" -> call[c].wrote = {c}
         [] OTHER -> TRUE
  /\ EditAsAsked
  /\ \A c \in ToolCalls : call[c].step = "ok" \/ (call[c].step = "failed" /\ c \notin severed) => relay[c] = Absent
=============================================================================
