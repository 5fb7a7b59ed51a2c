------------------------------ MODULE RunShell ------------------------------
(***************************************************************************)
(* Commands the page runs in the machine, and the files it keeps in /data   *)
(* for them: a long command staged as a script, a long output left there as *)
(* a ref to be spent, a file rewritten with its mode.  The machine may go   *)
(* off, and another come up, at any await.                                  *)
(***************************************************************************)
EXTENDS Integers, FiniteSets

CONSTANTS
  Runs,       \* commands, each run once
  Writers,    \* whoever rewrites the one executable file
  MaxPower    \* bound: machines

\* What the constants are taken to be.
RunShellAssumption == MaxPower \in Nat

VARIABLES
  box,       \* the machine: "off", "booting", "ready"
  gen,       \* which one it is
  shared,    \* files of runs in its /data: <<"script" or "out", run>>
  run,       \* each: its step, whether it is long, the machine whose link it took, its answer
  job,       \* each: proc.run in the guest, from "asked" to what it replied
  exec,      \* the mode of the executable file
  rewrite,   \* each writer: its step, and the mode it read
  meant,     \* history: the mode last asked for
  mixed,     \* history: a rewrite met another, a chmod or the machine's end since
  opening,   \* ptyOpening
  shells     \* proc.pty calls in flight

shellVars == <<box, gen, shared, run, job, exec, rewrite, meant, mixed, opening, shells>>
modes == <<exec, rewrite, meant, mixed>>
pty  == <<opening, shells>>

NoRun == [step |-> "idle", long |-> FALSE, link |-> 0, answer |-> "none"]
NoWrite == [step |-> "idle", read |-> "plain"]
Modes == {"plain", "executable"}

ShellInit ==
  /\ box = "ready" /\ gen = 1 /\ shared = {}
  /\ run = [r \in Runs |-> NoRun] /\ job = [r \in Runs |-> "none"]
  /\ exec = "executable" /\ meant = "executable" /\ mixed = FALSE /\ rewrite = [w \in Writers |-> NoWrite]
  /\ opening = FALSE /\ shells = 0

----------------------------------------------------------------------------
(* The machine, and what its going takes with it.                          *)

Rewriting == \E w \in Writers : rewrite[w].step # "idle"

\* destroy(): the link is detached and its calls fail; the next machine has the
\* mode that was saved last.
DestroyBox ==
  /\ box # "off" /\ box' = "off" /\ shared' = {} /\ job' = [r \in Runs |-> "none"]
  /\ exec' \in (IF Rewriting THEN {exec, meant} ELSE {exec}) /\ mixed' = (mixed \/ Rewriting)
  /\ rewrite' = [w \in Writers |-> NoWrite]
  /\ shells' = 0 /\ opening' = FALSE
  /\ UNCHANGED <<gen, run, meant>>

BootBox == box = "off" /\ gen < MaxPower /\ gen' = gen + 1 /\ box' = "booting"
           /\ UNCHANGED <<shared, run, job, modes, pty>>
BoxReady == box = "booting" /\ box' = "ready" /\ UNCHANGED <<gen, shared, run, job, modes, pty>>

----------------------------------------------------------------------------
(* runShell.                                                               *)

Linked(r) == box # "off" /\ run[r].link = gen
Goto(r, step) == run' = [run EXCEPT ![r].step = step]
Out(r) == shared \cap {<<"out", r>>}

\* Mutant: only a command that succeeded takes its script away.
SettleRunOnSuccess(r, answer, spent) ==
  /\ run' = [run EXCEPT ![r].step = "over", ![r].answer = answer]
  /\ shared' = shared \ (spent \cup IF answer = "failed" THEN {} ELSE {<<"script", r>>})

\* The end of it, and the finally: the script goes, whatever came of it.
SettleRun(r, answer, spent) ==
  /\ run' = [run EXCEPT ![r].step = "over", ![r].answer = answer]
  /\ shared' = shared \ (spent \cup {<<"script", r>>})

\* whenUp: a boot is waited for, a machine left off refuses.
Run(r, long) ==
  /\ run[r].step = "idle"
  /\ run' = [run EXCEPT ![r] = [NoRun EXCEPT !.step = IF box = "off" THEN "over" ELSE "waiting", !.long = long,
                                             !.answer = IF box = "off" THEN "failed" ELSE "none"]]
  /\ UNCHANGED <<box, gen, shared, job, modes, pty>>

\* rpc.call on the link that was taken; a detached one rejects.
SendRun(r, link) == job' = IF link = gen THEN [job EXCEPT ![r] = "asked"] ELSE job

\* The link of the machine that is up, kept for the whole call.
Wake(r) ==
  /\ run[r].step = "waiting" /\ box = "ready"
  /\ run' = [run EXCEPT ![r].step = IF run[r].long THEN "putting" ELSE "calling", ![r].link = gen]
  /\ IF run[r].long THEN UNCHANGED job ELSE SendRun(r, gen)
  /\ UNCHANGED <<box, gen, shared, modes, pty>>

\* putFile of the script, into the machine there is by then.
PutScript(r) ==
  /\ run[r].step = "putting" /\ box = "ready"
  /\ shared' = shared \cup {<<"script", r>>} /\ Goto(r, "calling") /\ SendRun(r, run[r].link)
  /\ UNCHANGED <<box, gen, modes, pty>>

\* The machine went off, or is another; or the call is refused, its link lost, or
\* its deadline past, wherever the command is in the guest.
RunFails(r) ==
  /\ \/ run[r].step = "waiting" /\ box = "off"
     \/ run[r].step = "putting" /\ box = "off"
     \/ run[r].step = "calling"
  /\ SettleRun(r, "failed", {})
  /\ UNCHANGED <<box, gen, job, modes, pty>>

\* handle_proc_run: the script is to be there still, and the job table to have room.
JobStarts(r, room) ==
  /\ job[r] = "asked" /\ box = "ready"
  /\ job' = [job EXCEPT ![r] = IF room /\ (run[r].long => <<"script", r>> \in shared) THEN "running" ELSE "error"]
  /\ UNCHANGED <<box, gen, shared, run, modes, pty>>

\* job_finish: the output rides in the reply; or it goes to a file, whole or cut
\* short by a full /data, before the reply is sent; or the job was cancelled.
JobEnds(r, reply, wrote) ==
  /\ job[r] = "running" /\ box = "ready" /\ job' = [job EXCEPT ![r] = reply]
  /\ (reply = "ref" => wrote) /\ (reply = "inline" => ~wrote)
  /\ shared' = IF wrote THEN shared \cup {<<"out", r>>} ELSE shared
  /\ UNCHANGED <<box, gen, run, modes, pty>>

\* proc.run's reply carries the output ...
ReplyInline(r) ==
  /\ run[r].step = "calling" /\ Linked(r) /\ job[r] = "inline" /\ SettleRun(r, "whole", {})
  /\ UNCHANGED <<box, gen, job, modes, pty>>

\* ... or names a file that does ...
ReplyRef(r) ==
  /\ run[r].step = "calling" /\ Linked(r) /\ job[r] = "ref" /\ Goto(r, "collecting")
  /\ UNCHANGED <<box, gen, shared, job, modes, pty>>

\* ... and collectRun reads and deletes it when it is small enough; a longer one
\* is left and named in the answer, and so is one that cannot be read.
Collect(r, small, readable) ==
  /\ run[r].step = "collecting"
  /\ readable => box = "ready" /\ Out(r) # {}
  /\ IF readable /\ small THEN SettleRun(r, "whole", {<<"out", r>>})
     ELSE SettleRun(r, IF readable THEN "named" ELSE "unread", {})
  /\ UNCHANGED <<box, gen, job, modes, pty>>

----------------------------------------------------------------------------
(* putFile over a file that was executable.                                *)

\* The mode is read and create_file makes a new inode without it ...
PutBytes(w) ==
  /\ rewrite[w].step = "idle" /\ box = "ready"
  /\ rewrite' = [rewrite EXCEPT ![w] = [step |-> "creating", read |-> exec]]
  /\ exec' = "plain" /\ mixed' = (mixed \/ Rewriting)
  /\ UNCHANGED <<box, gen, shared, run, job, meant, pty>>

\* ... which gets it when the bytes are in.
PutMode(w) ==
  /\ rewrite[w].step = "creating" /\ exec' = rewrite[w].read
  /\ rewrite' = [rewrite EXCEPT ![w] = NoWrite]
  /\ UNCHANGED <<box, gen, shared, run, job, meant, mixed, pty>>

\* setExecData, or chmod in the guest; between two rewrites it sets things right.
Chmod(x) ==
  /\ box = "ready" /\ exec' = x /\ meant' = x /\ mixed' = Rewriting
  /\ UNCHANGED <<box, gen, shared, run, job, rewrite, pty>>

----------------------------------------------------------------------------
(* openShellWindow: a click while a call is in flight is the same wish.     *)

OpenShell ==
  /\ box # "off" /\ ~opening /\ opening' = TRUE /\ shells' = shells + 1
  /\ UNCHANGED <<box, gen, shared, run, job, modes>>

ShellOpened ==
  /\ shells > 0 /\ shells' = shells - 1 /\ opening' = FALSE
  /\ UNCHANGED <<box, gen, shared, run, job, modes>>

ShellNext ==
  \/ DestroyBox \/ BootBox \/ BoxReady \/ OpenShell \/ ShellOpened
  \/ \E x \in Modes : Chmod(x)
  \/ \E w \in Writers : PutBytes(w) \/ PutMode(w)
  \/ \E r \in Runs :
       \/ \E yes \in BOOLEAN : Run(r, yes) \/ JobStarts(r, yes) \/ \E also \in BOOLEAN : Collect(r, yes, also)
       \/ Wake(r) \/ RunFails(r) \/ PutScript(r) \/ ReplyInline(r) \/ ReplyRef(r)
       \/ \E reply \in {"inline", "ref", "error"}, wrote \in BOOLEAN : JobEnds(r, reply, wrote)

ShellSpec == ShellInit /\ [][ShellNext]_shellVars

----------------------------------------------------------------------------
\* However a command ends and whatever the machine did meanwhile, its script is
\* gone with it, and no output is left behind but one the answer names or one whose
\* reply the page did not live to read; the output an answer was cut short of is in
\* the file it names as long as the machine lives.
FilesSpent ==
  \A r \in Runs : run[r].step = "over" =>
    /\ <<"script", r>> \notin shared
    /\ <<"out", r>> \in shared => run[r].answer \in {"named", "unread", "failed"}
    /\ run[r].answer = "named" /\ Linked(r) => <<"out", r>> \in shared

\* A file that is rewritten keeps its mode, unless the rewrite met another one, a
\* change of the mode, or the machine's end.
ModeKept == ~Rewriting /\ ~mixed => exec = meant

RunsSwept == FilesSpent /\ ModeKept
=============================================================================
