------------------------------ MODULE RundJobs ------------------------------
(***************************************************************************)
(* rund as the runner of commands: proc.run with its output, its timeout,   *)
(* its cancel and the loss of the socket, and the shells of proc.pty.       *)
(*                                                                         *)
(* A job's processes are the one rund forked (its leader), what that one    *)
(* started in its own process group, and what it started that left the      *)
(* group.  SIGKILL works at once; rund itself does not die.  What a job     *)
(* leaves behind when it is over is not followed.  The services, the other  *)
(* half of the program, are here so that what both promise is said in one   *)
(* place; each half has its own view of the socket, and no step is shared.  *)
(***************************************************************************)
EXTENDS RundServices, Sequences, TLAPS

CONSTANTS
  Calls,         \* ids of requests, each used once
  Shells,        \* those that ask for proc.pty
  MAX_JOBS, MAX_PTYS,
  INLINE_MAX, OUT_HARD_CAP,
  Early,         \* TRUE: rund may kill a job before it leads a group of its own
  MaxSay,        \* bound: bytes of one job
  MaxLoss        \* bound: connections lost

\* What the constants are taken to be.
RundJobsAssumption ==
  /\ Shells \subseteq Calls /\ {MAX_JOBS, MAX_PTYS, INLINE_MAX, OUT_HARD_CAP, MaxSay, MaxLoss} \subseteq Nat
  /\ "none" \notin Calls /\ Early \in BOOLEAN

VARIABLES
  sock,      \* sock_fd: "up"; "broken", rpcd has gone and rund has yet to see it;
             \* "leaving", jobs are being killed; "down"
  conn,      \* history: the number of the connection, from 1
  wait,      \* the job whose waitpid rund sits in, or "none"
  jobs, ptys,          \* the calls that have a slot
  young,     \* jobs whose leader has not called setsid
  timed_out, cancelled,
  living,     \* the processes of each call: leader, "group", "outside"
  holds,     \* those that have its pipe open
  said,      \* history: bytes written to the pipe
  outlen, dropped,
  asked,     \* history: the connection each call came in, 0 before
  answers    \* history: what rpcd was answered for each

table == <<jobs, ptys, young, timed_out, cancelled>>
output == <<said, outlen, dropped>>
procs == <<living, holds>>
link  == <<sock, conn>>
jobsVars  == <<link, wait, table, procs, output, asked, answers>>

Kin == {"leader", "group", "outside"}

JobsInit ==
  /\ sock = "up" /\ conn = 1 /\ wait = "none"
  /\ jobs = {} /\ ptys = {} /\ young = {} /\ timed_out = {} /\ cancelled = {}
  /\ living = [c \in Calls |-> {}] /\ holds = [c \in Calls |-> {}]
  /\ said = [c \in Calls |-> 0] /\ outlen = [c \in Calls |-> 0] /\ dropped = [c \in Calls |-> 0]
  /\ asked = [c \in Calls |-> 0] /\ answers = [c \in Calls |-> <<>>]

\* rund's loop goes round: it sits in no waitpid and has a socket.
Turns == wait = "none" /\ sock \in {"up", "broken"}

\* send_line, which a socket that broke swallows.
Answer(c, what) ==
  answers' = IF sock = "up" THEN [answers EXCEPT ![c] = Append(@, [what |-> what, conn |-> conn])] ELSE answers

\* kill(-pid, SIGKILL) of the jobs in S: a leader without a group gets none.
Kill(S) ==
  LET Left(f) == [c \in Calls |-> IF c \in S \ young THEN f[c] \cap {"outside"} ELSE f[c]]
  IN living' = Left(living) /\ holds' = Left(holds)

----------------------------------------------------------------------------
(* Requests.                                                               *)

Ask(c) == Turns /\ sock = "up" /\ asked[c] = 0 /\ asked' = [asked EXCEPT ![c] = conn]

\* handle_proc_run with job_spawn: parameters that make sense, a slot, a pipe, a fork.
Run(c) ==
  /\ c \notin Shells /\ Ask(c)
  /\ \/ Cardinality(jobs) >= MAX_JOBS /\ Answer(c, "OVERLOADED") /\ UNCHANGED <<table, procs>>
     \/ Answer(c, "refused") /\ UNCHANGED <<table, procs>>
     \/ /\ Cardinality(jobs) < MAX_JOBS /\ jobs' = jobs \cup {c} /\ young' = young \cup {c}
        /\ living' = [living EXCEPT ![c] = {"leader"}] /\ holds' = [holds EXCEPT ![c] = {"leader"}]
        /\ UNCHANGED <<answers, ptys, timed_out, cancelled>>
  /\ UNCHANGED <<link, wait, output>>

\* handle_proc_pty: a shell whose terminal found no window is killed.
OpenShell(c) ==
  /\ c \in Shells /\ Ask(c)
  /\ \/ Cardinality(ptys) >= MAX_PTYS /\ Answer(c, "OVERLOADED") /\ UNCHANGED <<ptys, living>>
     \/ /\ Cardinality(ptys) < MAX_PTYS /\ UNCHANGED <<ptys, living>>
        /\ \E why \in {"refused", "UNAVAILABLE"} : Answer(c, why)
     \/ /\ Cardinality(ptys) < MAX_PTYS /\ Answer(c, "result")
        /\ ptys' = ptys \cup {c} /\ living' = [living EXCEPT ![c] = {"leader"}]
  /\ UNCHANGED <<link, wait, jobs, young, timed_out, cancelled, holds, output>>

\* rpc.cancel: job_cancel, for the asker's word, its departure or rpcd's deadline.
Cancel(c) ==
  /\ Turns /\ c \in jobs /\ (Early \/ c \notin young)
  /\ cancelled' = cancelled \cup {c} /\ Kill({c})
  /\ UNCHANGED <<link, wait, jobs, ptys, young, timed_out, output, asked, answers>>

\* The loop finds kill_at passed; a second is more than a fork takes.
TimeOut(c) ==
  /\ Turns /\ c \in jobs \ young /\ c \notin timed_out \cup cancelled
  /\ timed_out' = timed_out \cup {c} /\ Kill({c})
  /\ UNCHANGED <<link, wait, jobs, ptys, young, cancelled, output, asked, answers>>

----------------------------------------------------------------------------
(* Output and the end of a job.                                            *)

\* What the jobs in S leave behind is no longer followed.
Forget(S) ==
  /\ living' = [c \in Calls |-> IF c \in S THEN living[c] \cap {"leader"} ELSE living[c]]
  /\ holds' = [c \in Calls |-> IF c \in S THEN {} ELSE holds[c]]

\* job_finish, the leader collected.  What outgrew the inline budget needs /data.
FinishWith(c, heard, lost) ==
  /\ IF c \in cancelled THEN Answer(c, "CANCELLED")
     ELSE \/ Answer(c, "result")
          \/ (heard > INLINE_MAX \/ lost > 0) /\ Answer(c, "DATA_PLANE_UNAVAILABLE")
  /\ jobs' = jobs \ {c} /\ Forget({c})

\* What n more bytes make of the buffer: kept up to its cap, counted beyond.
Taken(c, n) ==
  LET room == IF n < OUT_HARD_CAP - outlen[c] THEN n ELSE OUT_HARD_CAP - outlen[c]
  IN [kept |-> outlen[c] + room, lost |-> dropped[c] + (n - room)]

\* job_read: the pipe until it is empty; at its end job_finish, which sits in
\* waitpid for as long as the leader lives.
Read(c) ==
  LET n == said[c] - (outlen[c] + dropped[c])
      got == Taken(c, n)
  IN /\ Turns /\ c \in jobs /\ (n > 0 \/ holds[c] = {})
     /\ outlen' = [outlen EXCEPT ![c] = got.kept] /\ dropped' = [dropped EXCEPT ![c] = got.lost]
     /\ IF holds[c] # {} THEN UNCHANGED <<jobs, wait, procs, answers>>
        ELSE IF "leader" \in living[c] THEN wait' = c /\ UNCHANGED <<jobs, procs, answers>>
        ELSE FinishWith(c, got.kept, got.lost) /\ UNCHANGED wait
     /\ UNCHANGED <<link, ptys, young, timed_out, cancelled, said, asked>>

\* waitpid returns.
Collect(c) ==
  /\ wait = c /\ "leader" \notin living[c] /\ wait' = "none"
  /\ FinishWith(c, outlen[c], dropped[c])
  /\ UNCHANGED <<link, ptys, young, timed_out, cancelled, output, asked>>

\* reap_ptys.
ReapShell(c) ==
  /\ Turns /\ c \in ptys /\ "leader" \notin living[c] /\ ptys' = ptys \ {c}
  /\ UNCHANGED <<link, wait, jobs, young, timed_out, cancelled, procs, output, asked, answers>>

----------------------------------------------------------------------------
(* The socket.                                                             *)

\* rpcd goes, and answers whoever waited for this connection itself.
Break ==
  /\ sock = "up" /\ conn <= MaxLoss /\ sock' = "broken"
  /\ UNCHANGED <<conn, wait, table, procs, output, asked, answers>>

\* kill_all_jobs: every group ...
Leave ==
  /\ Turns /\ sock = "broken" /\ (Early \/ young = {}) /\ sock' = "leaving" /\ Kill(jobs)
  /\ UNCHANGED <<conn, wait, table, output, asked, answers>>

\* Mutant: the jobs ride across the reconnect, as the services do.
KeepJobs ==
  /\ sock = "leaving" /\ sock' = "down"
  /\ UNCHANGED <<conn, wait, table, procs, output, asked, answers>>

\* ... and every leader collected, and the slots are free.
FreeJobs ==
  /\ sock = "leaving" /\ (\A c \in jobs : "leader" \notin living[c]) /\ sock' = "down"
  /\ jobs' = {}
  /\ Forget(jobs)
  /\ UNCHANGED <<conn, wait, ptys, young, timed_out, cancelled, output, asked, answers>>

Reconnect ==
  /\ sock = "down" /\ sock' = "up" /\ conn' = conn + 1
  /\ UNCHANGED <<wait, table, procs, output, asked, answers>>

----------------------------------------------------------------------------
(* The processes.                                                          *)

Setsid(c) ==
  /\ c \in young /\ young' = young \ {c}
  /\ UNCHANGED <<link, wait, jobs, ptys, timed_out, cancelled, procs, output, asked, answers>>

\* One that has the pipe writes.
Say(c) ==
  /\ c \in jobs \ young /\ holds[c] # {} /\ said[c] < MaxSay /\ said' = [said EXCEPT ![c] = @ + 1]
  /\ UNCHANGED <<link, wait, table, procs, outlen, dropped, asked, answers>>

\* The leader starts another, in its group or (setsid) outside.
Fork(c, kin) ==
  /\ c \in jobs \ young /\ "leader" \in living[c] /\ kin \in Kin \ living[c]
  /\ living' = [living EXCEPT ![c] = @ \cup {kin}]
  /\ holds' = [holds EXCEPT ![c] = IF "leader" \in @ THEN @ \cup {kin} ELSE @]
  /\ UNCHANGED <<link, wait, table, output, asked, answers>>

\* One closes its output and goes on.
FallSilent(c, kin) ==
  /\ c \notin young /\ kin \in holds[c] /\ holds' = [holds EXCEPT ![c] = @ \ {kin}]
  /\ UNCHANGED <<link, wait, table, living, output, asked, answers>>

End(c, kin) ==
  /\ c \notin young /\ kin \in living[c]
  /\ living' = [living EXCEPT ![c] = @ \ {kin}] /\ holds' = [holds EXCEPT ![c] = @ \ {kin}]
  /\ UNCHANGED <<link, wait, table, output, asked, answers>>

JobsNext ==
  \/ Break \/ Leave \/ FreeJobs \/ Reconnect
  \/ \E c \in Calls :
       \/ Run(c) \/ OpenShell(c) \/ Cancel(c) \/ TimeOut(c) \/ Read(c) \/ Collect(c) \/ ReapShell(c)
       \/ Setsid(c) \/ Say(c) \/ \E kin \in Kin : Fork(c, kin) \/ FallSilent(c, kin) \/ End(c, kin)

JobsSpec == JobsInit /\ [][JobsNext]_jobsVars

----------------------------------------------------------------------------
\* "Every accepted request is answered exactly once": while a connection
\* stands, a job that came in it has its slot or its answer and never both, and
\* no answer is given in a later one.
OneAnswer(c) ==
  /\ answers[c] # <<>> => Len(answers[c]) = 1 /\ answers[c][1].conn = asked[c]
  /\ asked[c] = conn /\ sock = "up" => (c \in jobs) = (answers[c] = <<>>)

\* A result accounts for every byte the job wrote: kept up to the cap, and
\* counted from there on.  What was cancelled says CANCELLED.
AnswerTrue(c) ==
  answers[c] # <<>> =>
    LET what == answers[c][1].what IN
    /\ what \in {"result", "DATA_PLANE_UNAVAILABLE"} =>
         /\ outlen[c] + dropped[c] = said[c] /\ outlen[c] <= OUT_HARD_CAP
         /\ dropped[c] > 0 => outlen[c] = OUT_HARD_CAP
    /\ c \in cancelled => what = "CANCELLED"

\* No command and no shell runs that rund does not know of, whatever happened
\* to the one who asked.
NobodyForgotten == \A c \in Calls : "leader" \in living[c] => c \in jobs \cup ptys

\* Whatever is lost, cancelled, silenced or left behind: see the three above.
JobsExact == (\A c \in Calls \ Shells : OneAnswer(c) /\ AnswerTrue(c)) /\ NobodyForgotten

\* What rund promises, in both halves: no process goes unwatched, an app that
\* was stopped by hand stays so, its files say what it does, and a command has
\* one true answer.
ProcessesAsTold == EveryProcessWatched /\ StoppedMeansStopped /\ SurfaceTrue /\ JobsExact

\* Where the code lets a job last: rund itself waits for a process that closed
\* its output, or one that left the group keeps the pipe open.
Stuck(c) == wait # "none" \/ "outside" \in holds[c]

\* A job comes to an end: its own, its timeout's or its connection's.
JobEnds(c) == []<>(c \notin jobs \/ Stuck(c))

\* "The process group dies and the reply is a CANCELLED error, because every
\* accepted request is answered exactly once."
CancelTakes(c) == c \in jobs \cap cancelled ~> c \notin jobs \/ Stuck(c)
----------------------------------------------------------------------------
(* Proof that JobsExact holds for any number of calls, slots and losses.    *)

Words == {"OVERLOADED", "refused", "UNAVAILABLE", "result", "CANCELLED", "DATA_PLANE_UNAVAILABLE"}

JobTypes ==
  /\ sock \in {"up", "broken", "leaving", "down"} /\ conn \in Nat \ {0}
  /\ jobs \subseteq Calls \ Shells /\ ptys \subseteq Shells /\ young \subseteq Calls
  /\ wait \in jobs \cup {"none"} /\ (wait = "none" \/ sock \in {"up", "broken"}) /\ cancelled \subseteq Calls
  /\ living \in [Calls -> SUBSET Kin] /\ holds \in [Calls -> SUBSET Kin]
  /\ said \in [Calls -> Nat] /\ outlen \in [Calls -> Nat] /\ dropped \in [Calls -> Nat]
  /\ asked \in [Calls -> Nat] /\ answers \in [Calls -> Seq([what : Words, conn : Nat])]

\* The buffer, its cap and its count.
Ledger(c) ==
  /\ outlen[c] + dropped[c] <= said[c] /\ outlen[c] <= OUT_HARD_CAP
  /\ dropped[c] > 0 => outlen[c] = OUT_HARD_CAP

\* A call before it comes, while it has a slot, and while rund waits for it.
Stage(c) ==
  /\ asked[c] <= conn
  /\ asked[c] = 0 => c \notin jobs \cup cancelled /\ answers[c] = <<>>
  /\ c \in jobs => answers[c] = <<>> /\ asked[c] = conn /\ sock # "down"
  /\ wait = c => holds[c] = {} /\ outlen[c] + dropped[c] = said[c]

JobInv(c) == Ledger(c) /\ Stage(c) /\ OneAnswer(c) /\ AnswerTrue(c)
RundInv == JobTypes /\ (\A c \in Calls \ Shells : JobInv(c)) /\ NobodyForgotten

\* An answer concerns its call alone, and is swallowed without a socket (send_line).
LEMMA AnswerTypes ==
  ASSUME JobTypes, NEW c \in Calls, NEW what \in Words, Answer(c, what)
  PROVE  /\ answers' \in [Calls -> Seq([what : Words, conn : Nat])]
         /\ \A d \in Calls : d # c => answers'[d] = answers[d]
         /\ sock # "up" => answers'[c] = answers[c]
         /\ sock = "up" => answers'[c] = Append(answers[c], [what |-> what, conn |-> conn])
<1> DEFINE word == [what |-> what, conn |-> conn]
           Word == [what : Words, conn : Nat]
<1>1. word \in Word /\ answers \in [Calls -> Seq(Word)]
  BY DEF JobTypes
<1>2. answers' = IF sock = "up" THEN [answers EXCEPT ![c] = Append(@, word)] ELSE answers
  BY DEF Answer
<1> HIDE DEF word, Word
<1>3. Append(answers[c], word) \in Seq(Word)
  BY <1>1
<1>4. answers' \in [Calls -> Seq(Word)] /\ \A d \in Calls : d # c => answers'[d] = answers[d]
  BY <1>1, <1>2, <1>3
<1>5. answers'[c] = IF sock = "up" THEN Append(answers[c], word) ELSE answers[c]
  BY <1>1, <1>2
<1> QED BY <1>4, <1>5 DEF word, Word

\* The first answer of a call.
LEMMA FirstAnswer ==
  ASSUME JobTypes, NEW c \in Calls, NEW what \in Words, answers[c] = <<>>, Answer(c, what)
  PROVE  /\ answers' \in [Calls -> Seq([what : Words, conn : Nat])]
         /\ \A d \in Calls : d # c => answers'[d] = answers[d]
         /\ sock # "up" => answers'[c] = <<>>
         /\ sock = "up" => answers'[c] = <<[what |-> what, conn |-> conn]>>
<1>1. Append(<<>>, [what |-> what, conn |-> conn]) = <<[what |-> what, conn |-> conn]>>
  OBVIOUS
<1> QED BY <1>1, AnswerTypes

\* kill(2) takes processes away and gives none.
LEMMA KillTakes ==
  ASSUME JobTypes, NEW S, Kill(S)
  PROVE  /\ living' \in [Calls -> SUBSET Kin] /\ holds' \in [Calls -> SUBSET Kin]
         /\ \A c \in Calls : living'[c] \subseteq living[c] /\ holds'[c] \subseteq holds[c]
  BY DEF JobTypes, Kill, Kin

\* A call whose own variables stay keeps its invariant.
LEMMA Untouched ==
  ASSUME NEW c \in Calls \ Shells, JobInv(c), JobTypes,
         sock' = sock, conn' = conn, outlen'[c] = outlen[c], dropped'[c] = dropped[c], said'[c] = said[c],
         asked'[c] = asked[c], answers'[c] = answers[c], (c \in jobs') = (c \in jobs), (c \in cancelled') = (c \in cancelled),
         wait' = c => wait = c, holds'[c] \subseteq holds[c]
  PROVE  JobInv(c)'
  BY DEF JobInv, Ledger, Stage, OneAnswer, AnswerTrue, JobTypes, link

\* rund takes a request (handle_proc_run).
LEMMA RunKeeps ==
  ASSUME RundJobsAssumption, RundInv, NEW c \in Calls, Run(c)
  PROVE  RundInv'
<1>1. c \in Calls \ Shells /\ sock = "up" /\ asked[c] = 0 /\ asked' = [asked EXCEPT ![c] = conn]
  BY DEF Run, Ask
<1>2. c \notin jobs \cup cancelled /\ answers[c] = <<>> /\ wait # c /\ JobTypes
  BY <1>1 DEF RundInv, JobInv, Stage, JobTypes, RundJobsAssumption
<1>3. UNCHANGED <<sock, conn, wait, ptys, cancelled, said, outlen, dropped>>
  BY DEF Run, link, table, output
<1>4. ASSUME NEW what \in {"OVERLOADED", "refused"}, Answer(c, what), UNCHANGED <<table, procs>>
      PROVE  RundInv'
  <2>1. answers' \in [Calls -> Seq([what : Words, conn : Nat])] /\ answers'[c] = <<[what |-> what, conn |-> conn]>>
        /\ \A d \in Calls : d # c => answers'[d] = answers[d]
    <3>1. what \in Words
      BY DEF Words
    <3> QED BY <1>1, <1>2, <1>4, <3>1, FirstAnswer
  <2>2. JobTypes'
    BY <1>1, <1>2, <1>3, <1>4, <2>1 DEF JobTypes, table, procs
  <2>3. JobInv(c)'
    BY <1>1, <1>2, <1>3, <1>4, <2>1 DEF RundInv, JobInv, Ledger, Stage, OneAnswer, AnswerTrue, JobTypes, table, procs
  <2>4. ASSUME NEW d \in Calls \ Shells, d # c PROVE JobInv(d)'
    BY <1>1, <1>2, <1>3, <1>4, <2>1, <2>4, Untouched DEF RundInv, JobTypes, table, procs
  <2> QED BY <1>4, <2>2, <2>3, <2>4 DEF RundInv, NobodyForgotten, table, procs
<1>5. ASSUME jobs' = jobs \cup {c}, young' = young \cup {c}, living' = [living EXCEPT ![c] = {"leader"}],
             holds' = [holds EXCEPT ![c] = {"leader"}], UNCHANGED answers
      PROVE  RundInv'
  <2>1. JobTypes'
    BY <1>1, <1>2, <1>3, <1>5 DEF JobTypes, Kin
  <2>2. JobInv(c)'
    BY <1>1, <1>2, <1>3, <1>5 DEF RundInv, JobInv, Ledger, Stage, OneAnswer, AnswerTrue, JobTypes
  <2>3. ASSUME NEW d \in Calls \ Shells, d # c PROVE JobInv(d)'
    <3>1. JobInv(d) /\ holds'[d] = holds[d] /\ (d \in jobs') = (d \in jobs) /\ asked'[d] = asked[d]
      BY <1>1, <1>2, <1>5, <2>3 DEF RundInv, JobTypes
    <3> QED BY <1>2, <1>3, <1>5, <2>3, <3>1, Untouched
  <2> QED BY <1>2, <1>3, <1>5, <2>1, <2>2, <2>3 DEF RundInv, NobodyForgotten, JobTypes
<1> QED BY <1>4, <1>5 DEF Run

\* A shell is opened, or is not (handle_proc_pty).
LEMMA OpenKeeps ==
  ASSUME RundJobsAssumption, RundInv, NEW c \in Calls, OpenShell(c)
  PROVE  RundInv'
<1>1. c \in Shells /\ asked' = [asked EXCEPT ![c] = conn] /\ JobTypes
  BY DEF OpenShell, Ask, RundInv
<1>2. UNCHANGED <<sock, conn, wait, jobs, young, cancelled, holds, said, outlen, dropped>>
  BY DEF OpenShell, link, output
<1>3. PICK what \in Words : Answer(c, what)
  BY DEF OpenShell, Words
<1>4. answers' \in [Calls -> Seq([what : Words, conn : Nat])] /\ \A d \in Calls : d # c => answers'[d] = answers[d]
  BY <1>1, <1>3, AnswerTypes
<1>5. /\ ptys' \subseteq ptys \cup {c} /\ ptys \subseteq ptys'
      /\ UNCHANGED living \/ (c \in ptys' /\ living' = [living EXCEPT ![c] = {"leader"}])
  BY DEF OpenShell
<1>6. JobTypes'
  BY <1>1, <1>2, <1>4, <1>5 DEF JobTypes, Kin
<1>7. ASSUME NEW d \in Calls \ Shells PROVE JobInv(d)'
  BY <1>1, <1>2, <1>4, <1>7, Untouched DEF RundInv, JobTypes
<1>8. NobodyForgotten'
  BY <1>1, <1>2, <1>5 DEF RundInv, NobodyForgotten, JobTypes
<1> QED BY <1>6, <1>7, <1>8 DEF RundInv

\* A kill, for a cancel or a timeout, changes only what it takes away.
LEMMA KilledKeeps ==
  ASSUME RundInv, NEW c \in jobs, Kill({c}), cancelled' \in {cancelled, cancelled \cup {c}},
         UNCHANGED <<link, wait, jobs, ptys, young, output, asked, answers>>
  PROVE  RundInv'
<1>1. JobTypes /\ c \in Calls \ Shells /\ answers[c] = <<>> /\ asked[c] # 0
  BY DEF RundInv, JobTypes, JobInv, Stage
<1>2. /\ living' \in [Calls -> SUBSET Kin] /\ holds' \in [Calls -> SUBSET Kin]
      /\ \A d \in Calls : living'[d] \subseteq living[d] /\ holds'[d] \subseteq holds[d]
  BY <1>1, KillTakes
<1>3. JobTypes'
  BY <1>1, <1>2 DEF JobTypes, link, output
<1>4. ASSUME NEW d \in Calls \ Shells, d # c PROVE JobInv(d)'
  BY <1>1, <1>2, <1>4, Untouched DEF RundInv, link, output
<1>5. JobInv(c)'
  BY <1>1, <1>2 DEF RundInv, JobInv, Ledger, Stage, OneAnswer, AnswerTrue, JobTypes, link, output
<1> QED BY <1>2, <1>3, <1>4, <1>5 DEF RundInv, NobodyForgotten, JobTypes

\* What is taken from the pipe is kept up to the cap and counted beyond (job_read).
LEMMA TakenExact ==
  ASSUME RundJobsAssumption, JobTypes, NEW c \in Calls, Ledger(c),
         NEW got, got = Taken(c, said[c] - (outlen[c] + dropped[c]))
  PROVE  /\ got.kept \in Nat /\ got.lost \in Nat /\ got.kept + got.lost = said[c]
         /\ got.kept <= OUT_HARD_CAP /\ (got.lost > 0 => got.kept = OUT_HARD_CAP)
<1> DEFINE n == said[c] - (outlen[c] + dropped[c])
           room == IF n < OUT_HARD_CAP - outlen[c] THEN n ELSE OUT_HARD_CAP - outlen[c]
<1>1. OUT_HARD_CAP \in Nat /\ said[c] \in Nat /\ outlen[c] \in Nat /\ dropped[c] \in Nat
  BY DEF RundJobsAssumption, JobTypes
<1>2. got = [kept |-> outlen[c] + room, lost |-> dropped[c] + (n - room)]
  BY DEF Taken
<1>3. got.kept = outlen[c] + room /\ got.lost = dropped[c] + (n - room)
  BY <1>2
<1>4. n \in Nat /\ outlen[c] <= OUT_HARD_CAP /\ (dropped[c] > 0 => outlen[c] = OUT_HARD_CAP)
  BY <1>1 DEF Ledger
<1> HIDE DEF n
<1>5. room \in Nat /\ room <= n /\ outlen[c] + room <= OUT_HARD_CAP /\ (room < n => outlen[c] + room = OUT_HARD_CAP)
  BY <1>1, <1>4
<1> HIDE DEF room
<1>6. outlen[c] + dropped[c] + n = said[c]
  BY <1>1 DEF n
<1>7. got.kept \in Nat /\ got.lost \in Nat /\ got.kept + got.lost = said[c] /\ got.kept <= OUT_HARD_CAP
  BY <1>1, <1>3, <1>4, <1>5, <1>6
<1>8. ASSUME got.lost > 0 PROVE got.kept = OUT_HARD_CAP
  <2>1. CASE room < n
    BY <1>3, <1>5, <2>1
  <2>2. CASE room = n
    <3>1. dropped[c] > 0 /\ outlen[c] = OUT_HARD_CAP
      BY <1>1, <1>3, <1>4, <1>5, <1>8, <2>2
    <3> QED BY <1>1, <1>3, <1>5, <3>1
  <2> QED BY <1>4, <1>5, <2>1, <2>2
<1> QED BY <1>7, <1>8

\* A job that is over has its answer and frees its slot (job_finish).
LEMMA FinishKeeps ==
  ASSUME RundJobsAssumption, RundInv, NEW c \in jobs, NEW heard, NEW lost, FinishWith(c, heard, lost),
         "leader" \notin living[c], wait \in {c, "none"}, wait' = "none",
         outlen' = [outlen EXCEPT ![c] = heard], dropped' = [dropped EXCEPT ![c] = lost],
         heard \in Nat, lost \in Nat, heard + lost = said[c], heard <= OUT_HARD_CAP,
         lost > 0 => heard = OUT_HARD_CAP,
         UNCHANGED <<link, ptys, young, timed_out, cancelled, said, asked>>
  PROVE  RundInv'
<1>1. JobTypes /\ c \in Calls \ Shells /\ answers[c] = <<>> /\ asked[c] = conn /\ asked[c] # 0
  BY DEF RundInv, JobTypes, JobInv, Stage
<1>2. PICK what \in Words : Answer(c, what) /\ (c \in cancelled => what = "CANCELLED")
  BY DEF FinishWith, Words
<1>3. /\ answers' \in [Calls -> Seq([what : Words, conn : Nat])]
      /\ \A d \in Calls : d # c => answers'[d] = answers[d]
      /\ sock # "up" => answers'[c] = <<>>
      /\ sock = "up" => answers'[c] = <<[what |-> what, conn |-> conn]>>
  BY <1>1, <1>2, FirstAnswer
<1>4. /\ jobs' = jobs \ {c} /\ \A d \in Calls : living'[d] \subseteq living[d] /\ holds'[d] \subseteq holds[d]
      /\ living' \in [Calls -> SUBSET Kin] /\ holds' \in [Calls -> SUBSET Kin]
  BY <1>1 DEF FinishWith, Forget, JobTypes
<1>5. JobTypes'
  BY <1>1, <1>3, <1>4 DEF JobTypes, link
<1>6. JobInv(c)'
  <2>1. outlen'[c] = heard /\ dropped'[c] = lost /\ c \notin jobs' /\ wait' # c
    BY <1>1, <1>4 DEF JobTypes, RundJobsAssumption
  <2>2. Ledger(c)'
    BY <2>1 DEF Ledger
  <2>3. Stage(c)'
    BY <1>1, <2>1 DEF Stage, link, JobTypes
  <2>4. OneAnswer(c)'
    <3>1. CASE sock = "up"
      <4> DEFINE word == [what |-> what, conn |-> conn]
      <4>1. answers'[c] = <<word>> /\ word.conn = conn
        BY <1>3, <3>1
      <4> HIDE DEF word
      <4>2. Len(<<word>>) = 1 /\ <<word>>[1] = word /\ <<word>> # <<>>
        OBVIOUS
      <4>3. answers'[c] # <<>> /\ Len(answers'[c]) = 1 /\ answers'[c][1].conn = conn
        BY <4>1, <4>2
      <4>4. (c \in jobs') = FALSE /\ (answers'[c] = <<>>) = FALSE
        BY <2>1, <4>3
      <4> QED BY <1>1, <4>3, <4>4 DEF OneAnswer, link
    <3>2. CASE sock # "up"
      BY <1>1, <1>3, <2>1, <3>2 DEF OneAnswer, link
    <3> QED BY <3>1, <3>2
  <2>5. AnswerTrue(c)'
    BY <1>1, <1>2, <1>3, <2>1 DEF AnswerTrue
  <2> QED BY <2>2, <2>3, <2>4, <2>5 DEF JobInv
<1>7. ASSUME NEW d \in Calls \ Shells, d # c PROVE JobInv(d)'
  <2>1. JobInv(d) /\ (d \in jobs') = (d \in jobs) /\ outlen'[d] = outlen[d] /\ dropped'[d] = dropped[d] /\ wait' # d
    BY <1>1, <1>4, <1>7 DEF RundInv, JobTypes, RundJobsAssumption
  <2> QED BY <1>1, <1>3, <1>4, <1>7, <2>1, Untouched DEF link
<1>8. NobodyForgotten'
  BY <1>1, <1>4 DEF RundInv, NobodyForgotten, JobTypes
<1> QED BY <1>5, <1>6, <1>7, <1>8 DEF RundInv

\* The pipe is read, and at its end the job finishes or rund waits for its leader (job_read).
LEMMA ReadKeeps ==
  ASSUME RundJobsAssumption, RundInv, NEW c \in Calls, Read(c)
  PROVE  RundInv'
<1> DEFINE got == Taken(c, said[c] - (outlen[c] + dropped[c]))
<1>1. /\ JobTypes /\ c \in jobs /\ c \in Calls \ Shells /\ wait = "none" /\ sock \in {"up", "broken"}
      /\ JobInv(c) /\ answers[c] = <<>> /\ asked[c] = conn /\ asked[c] # 0
  BY DEF Read, Turns, RundInv, JobTypes, JobInv, Stage
<1>2. /\ UNCHANGED <<link, ptys, young, timed_out, cancelled, said, asked>>
      /\ outlen' = [outlen EXCEPT ![c] = got.kept] /\ dropped' = [dropped EXCEPT ![c] = got.lost]
  BY DEF Read
<1>3. /\ got.kept \in Nat /\ got.lost \in Nat /\ got.kept + got.lost = said[c]
      /\ got.kept <= OUT_HARD_CAP /\ (got.lost > 0 => got.kept = OUT_HARD_CAP)
  BY <1>1, TakenExact DEF JobInv
<1>4. \/ holds[c] # {} /\ UNCHANGED <<jobs, wait, procs, answers>>
      \/ holds[c] = {} /\ wait' = c /\ UNCHANGED <<jobs, procs, answers>>
      \/ "leader" \notin living[c] /\ FinishWith(c, got.kept, got.lost) /\ wait' = "none"
  BY <1>1 DEF Read
<1> HIDE DEF got
<1>5. ASSUME UNCHANGED <<jobs, procs, answers>>, wait' \in {"none", c}, wait' = c => holds[c] = {}
      PROVE  RundInv'
  <2>1. outlen'[c] = got.kept /\ dropped'[c] = got.lost
    BY <1>1, <1>2 DEF JobTypes
  <2>2. JobTypes'
    BY <1>1, <1>2, <1>3, <1>5 DEF JobTypes, link, procs
  <2>3. JobInv(c)'
    BY <1>1, <1>2, <1>3, <1>5, <2>1 DEF JobInv, Ledger, Stage, OneAnswer, AnswerTrue, link, procs
  <2>4. ASSUME NEW d \in Calls \ Shells, d # c PROVE JobInv(d)'
    <3>1. JobInv(d) /\ outlen'[d] = outlen[d] /\ dropped'[d] = dropped[d] /\ wait' # d
      BY <1>1, <1>2, <1>5, <2>4 DEF RundInv, JobTypes, RundJobsAssumption
    <3> QED BY <1>1, <1>2, <1>5, <2>4, <3>1, Untouched DEF link, procs
  <2> QED BY <1>2, <1>5, <2>2, <2>3, <2>4 DEF RundInv, NobodyForgotten, procs
<1>6. ASSUME "leader" \notin living[c], FinishWith(c, got.kept, got.lost), wait' = "none"
      PROVE  RundInv'
  BY <1>1, <1>2, <1>3, <1>6, FinishKeeps
<1> QED BY <1>1, <1>4, <1>5, <1>6 DEF RundJobsAssumption

\* waitpid returns and the job finishes (job_finish).
LEMMA CollectKeeps ==
  ASSUME RundJobsAssumption, RundInv, NEW c \in Calls, Collect(c)
  PROVE  RundInv'
<1>1. JobTypes /\ c \in jobs /\ c \in Calls \ Shells /\ wait = c /\ "leader" \notin living[c] /\ wait' = "none"
  BY DEF Collect, RundInv, JobTypes, RundJobsAssumption
<1>2. outlen[c] + dropped[c] = said[c] /\ Ledger(c)
  BY <1>1 DEF RundInv, JobInv, Stage
<1>3. outlen' = [outlen EXCEPT ![c] = outlen[c]] /\ dropped' = [dropped EXCEPT ![c] = dropped[c]]
  BY <1>1 DEF Collect, output, JobTypes
<1>4. outlen[c] \in Nat /\ dropped[c] \in Nat /\ outlen[c] <= OUT_HARD_CAP /\ (dropped[c] > 0 => outlen[c] = OUT_HARD_CAP)
  BY <1>1, <1>2 DEF JobTypes, Ledger
<1>5. FinishWith(c, outlen[c], dropped[c]) /\ UNCHANGED <<link, ptys, young, timed_out, cancelled, said, asked>>
  BY DEF Collect, output
<1> QED BY <1>1, <1>2, <1>3, <1>4, <1>5, FinishKeeps

\* The socket breaks, the jobs of its connection are killed and freed, and the
\* next one starts with none (kill_all_jobs, the loop of main).
LEMMA SocketKeeps ==
  ASSUME RundJobsAssumption, RundInv, Break \/ Leave \/ FreeJobs \/ Reconnect
  PROVE  RundInv'
<1>1. JobTypes
  BY DEF RundInv
<1>2. /\ sock' \in {"up", "broken", "leaving", "down"} /\ conn' \in Nat \ {0} /\ conn <= conn'
      /\ (sock' = "up" => conn' = conn + 1) /\ (sock' # "up" => conn' = conn)
      /\ UNCHANGED <<ptys, young, cancelled, said, outlen, dropped, asked, answers, wait>>
      /\ wait = "none" \/ sock' \in {"up", "broken"}
  BY <1>1 DEF Break, Leave, FreeJobs, Reconnect, Turns, JobTypes, table, procs, output
<1>3. /\ living' \in [Calls -> SUBSET Kin] /\ holds' \in [Calls -> SUBSET Kin]
      /\ \A c \in Calls : living'[c] \subseteq living[c] /\ holds'[c] \subseteq holds[c]
  <2>1. CASE Break \/ Reconnect
    BY <1>1, <2>1 DEF Break, Reconnect, JobTypes, procs
  <2>2. CASE Leave
    BY <1>1, <2>2, KillTakes DEF Leave
  <2>3. CASE FreeJobs
    BY <1>1, <2>3 DEF FreeJobs, Forget, JobTypes
  <2> QED BY <2>1, <2>2, <2>3
<1>4. /\ jobs' \subseteq jobs /\ (sock' \in {"up", "down"} => jobs' = {})
      /\ \A c \in jobs \ jobs' : "leader" \notin living[c]
      /\ wait # "none" => jobs' = jobs
  <2>1. CASE Break \/ Leave
    BY <2>1 DEF Break, Leave, table
  <2>2. CASE FreeJobs
    BY <1>1, <2>2 DEF FreeJobs, JobTypes
  <2>3. CASE Reconnect
    BY <1>1, <2>3 DEF Reconnect, table, RundInv, JobInv, Stage, JobTypes
  <2> QED BY <2>1, <2>2, <2>3
<1>5. JobTypes'
  BY <1>1, <1>2, <1>3, <1>4 DEF JobTypes
<1>6. ASSUME NEW c \in Calls \ Shells PROVE JobInv(c)'
  <2>1. Ledger(c)' /\ AnswerTrue(c)'
    BY <1>2 DEF RundInv, JobInv, Ledger, AnswerTrue
  <2>2. asked[c] \in Nat /\ asked[c] <= conn /\ conn \in Nat /\ Stage(c) /\ OneAnswer(c)
    BY <1>1 DEF RundInv, JobInv, Stage, JobTypes
  <2>3. Stage(c)'
    BY <1>1, <1>2, <1>3, <1>4, <2>2 DEF Stage, JobTypes
  <2>4. OneAnswer(c)'
    BY <1>2, <2>2 DEF OneAnswer
  <2> QED BY <2>1, <2>3, <2>4 DEF JobInv
<1>7. NobodyForgotten'
  BY <1>1, <1>2, <1>3, <1>4 DEF RundInv, NobodyForgotten, JobTypes
<1> QED BY <1>5, <1>6, <1>7 DEF RundInv

\* What the processes do is nothing rund has to answer for, but for their bytes.
LEMMA ProcessKeeps ==
  ASSUME RundJobsAssumption, RundInv, NEW c \in Calls, NEW kin \in Kin,
         ReapShell(c) \/ Setsid(c) \/ Say(c) \/ Fork(c, kin) \/ FallSilent(c, kin) \/ End(c, kin)
  PROVE  RundInv'
<1>1. JobTypes
  BY DEF RundInv
<1>2. UNCHANGED <<sock, conn, wait, jobs, cancelled, outlen, dropped, asked, answers>>
  BY DEF ReapShell, Setsid, Say, Fork, FallSilent, End, link, table, output
<1>3. CASE Say(c)
  <2>1. /\ c \in jobs /\ holds[c] # {} /\ said' = [said EXCEPT ![c] = @ + 1]
        /\ UNCHANGED <<ptys, young, living, holds>> /\ c \in Calls \ Shells /\ JobInv(c) /\ answers[c] = <<>>
    BY <1>3 DEF Say, table, procs, RundInv, JobTypes, JobInv, Stage
  <2>2. said[c] \in Nat /\ said' \in [Calls -> Nat]
    BY <1>1, <2>1 DEF JobTypes
  <2>3. JobTypes'
    BY <1>1, <1>2, <2>1, <2>2 DEF JobTypes
  <2>4. JobInv(c)'
    BY <1>1, <1>2, <2>1 DEF JobInv, Ledger, Stage, OneAnswer, AnswerTrue, JobTypes
  <2>5. ASSUME NEW d \in Calls \ Shells, d # c PROVE JobInv(d)'
    BY <1>1, <1>2, <2>1, <2>5, Untouched DEF RundInv, JobTypes
  <2> QED BY <1>2, <2>1, <2>3, <2>4, <2>5 DEF RundInv, NobodyForgotten
<1>4. CASE ReapShell(c) \/ Setsid(c) \/ FallSilent(c, kin) \/ End(c, kin)
  <2>1. /\ UNCHANGED said /\ ptys' \subseteq ptys /\ young' \subseteq young
        /\ living' \in [Calls -> SUBSET Kin] /\ holds' \in [Calls -> SUBSET Kin]
        /\ \A d \in Calls : living'[d] \subseteq living[d] /\ holds'[d] \subseteq holds[d]
        /\ \A d \in ptys \ ptys' : "leader" \notin living[d]
    BY <1>1, <1>4 DEF ReapShell, Setsid, FallSilent, End, table, procs, output, JobTypes
  <2>2. JobTypes'
    BY <1>1, <1>2, <2>1 DEF JobTypes
  <2>3. ASSUME NEW d \in Calls \ Shells PROVE JobInv(d)'
    BY <1>1, <1>2, <2>1, <2>3, Untouched DEF RundInv
  <2> QED BY <1>2, <2>1, <2>2, <2>3 DEF RundInv, NobodyForgotten
<1>5. CASE Fork(c, kin)
  <2>1. /\ c \in jobs /\ c \in Calls \ Shells /\ UNCHANGED <<ptys, young, said>>
        /\ living' = [living EXCEPT ![c] = @ \cup {kin}]
        /\ holds' = [holds EXCEPT ![c] = IF "leader" \in @ THEN @ \cup {kin} ELSE @]
    BY <1>1, <1>5 DEF Fork, table, output, JobTypes
  <2>2. JobTypes'
    BY <1>1, <1>2, <2>1 DEF JobTypes, Kin
  <2>3. \A d \in Calls : (holds[d] = {} => holds'[d] = {}) /\ (d # c => living'[d] = living[d])
    BY <1>1, <2>1 DEF JobTypes
  <2>4. ASSUME NEW d \in Calls \ Shells PROVE JobInv(d)'
    BY <1>1, <1>2, <2>1, <2>3, <2>4 DEF RundInv, JobInv, Ledger, Stage, OneAnswer, AnswerTrue
  <2>5. NobodyForgotten'
    BY <1>1, <1>2, <2>1, <2>3 DEF RundInv, NobodyForgotten
  <2> QED BY <2>2, <2>4, <2>5 DEF RundInv
<1> QED BY <1>3, <1>4, <1>5

\* Every step keeps the invariant.
LEMMA RundKeeps ==
  ASSUME RundJobsAssumption, RundInv, [JobsNext]_jobsVars
  PROVE  RundInv'
<1>1. ASSUME NEW c \in Calls, Cancel(c) \/ TimeOut(c) PROVE RundInv'
  <2>1. /\ c \in jobs /\ Kill({c}) /\ cancelled' \in {cancelled, cancelled \cup {c}}
        /\ UNCHANGED <<link, wait, jobs, ptys, young, output, asked, answers>>
    BY <1>1 DEF Cancel, TimeOut
  <2> QED BY <2>1, KilledKeeps
<1>2. ASSUME UNCHANGED jobsVars PROVE RundInv'
  BY <1>2 DEF jobsVars, link, table, output, procs, RundInv, JobTypes, JobInv, Ledger, Stage, OneAnswer, AnswerTrue,
              NobodyForgotten
<1>3. ASSUME NEW c \in Calls, ReapShell(c) \/ Setsid(c) \/ Say(c) PROVE RundInv'
  <2>1. "leader" \in Kin
    BY DEF Kin
  <2> QED BY <1>3, <2>1, ProcessKeeps
<1>4. ASSUME NEW c \in Calls, NEW kin \in Kin, Fork(c, kin) \/ FallSilent(c, kin) \/ End(c, kin) PROVE RundInv'
  BY <1>4, ProcessKeeps
<1>5. ASSUME NEW c \in Calls, Run(c) \/ OpenShell(c) \/ Read(c) \/ Collect(c) PROVE RundInv'
  BY <1>5, RunKeeps, OpenKeeps, ReadKeeps, CollectKeeps
<1>6. ASSUME Break \/ Leave \/ FreeJobs \/ Reconnect PROVE RundInv'
  BY <1>6, SocketKeeps
<1> QED BY <1>1, <1>2, <1>3, <1>4, <1>5, <1>6 DEF JobsNext

\* Every accepted command has one answer, true to what it wrote, and nothing
\* runs that rund has forgotten, in every state.
THEOREM JobsAnsweredOnce == ASSUME RundJobsAssumption PROVE JobsSpec => []JobsExact
<1>1. JobsInit => RundInv
  BY RundJobsAssumption DEF JobsInit, RundJobsAssumption, RundInv, JobTypes, JobInv, Ledger, Stage, OneAnswer, AnswerTrue,
         NobodyForgotten, Kin
<1>2. RundInv /\ [JobsNext]_jobsVars => RundInv'
  BY RundJobsAssumption, RundKeeps
<1>3. RundInv => JobsExact
  BY DEF RundInv, JobInv, JobsExact
<1> QED BY <1>1, <1>2, <1>3, PTL DEF JobsSpec

----------------------------------------------------------------------------
(* Proof that the services keep their word, for any apps, slots and deaths *)
(* of rund.                                                                *)

SlotSet ==
  [used : BOOLEAN, pid : Nat, started : BOOLEAN, restarts : Nat, backoff : BOOLEAN, failed : BOOLEAN,
   stopping : BOOLEAN, manual_stop : BOOLEAN, stop_reply : Nat]

StateWords == {"none", "starting", "running", "stopping", "stopped", "crashed", "failed"}

ServiceTypes ==
  /\ services \in [Apps -> SlotSet] /\ pidfile \in [Apps -> Nat] /\ state \in [Apps -> StateWords]
  /\ alive \in [Apps -> SUBSET (Nat \ {0})] /\ runs \in [Apps -> Nat]
  /\ asks \in Nat /\ owed \subseteq Nat \ {0} /\ told \subseteq Apps

\* An app's slot, pid file, state file and processes; u, that rund runs.
SlotTrue(u, s, file, word, live) ==
  /\ \A p \in live : IF u THEN s.pid = p ELSE file = p
  /\ u => file = s.pid
  /\ (u /\ s.used) \/ s = Idle
  /\ s.stop_reply # 0 => s.pid # 0 /\ s.manual_stop
  /\ s.failed => s.pid = 0 /\ word = "failed"
  /\ s.pid # 0 => word = IF s.stopping THEN "stopping" ELSE "running"
  /\ file = 0 => word \notin {"running", "stopping"}

SlotsTrue == \A a \in Apps : SlotTrue(up, services[a], pidfile[a], state[a], alive[a])
ToldTrue == \A a \in told : up /\ services[a].used /\ services[a].manual_stop /\ services[a].pid = 0
ServicesInv == ServiceTypes /\ SlotsTrue /\ ToldTrue

LEMMA IdleSlot ==
  /\ Idle \in SlotSet /\ Idle.pid = 0 /\ Idle.stop_reply = 0 /\ ~Idle.failed /\ ~Idle.used /\ ~Idle.stopping /\ ~Idle.manual_stop
  BY DEF Idle, SlotSet

\* An app whose slot says nothing runs has no process while rund is up.
LEMMA NothingRuns ==
  ASSUME ServicesInv, up, NEW a \in Apps, services[a].pid = 0
  PROVE alive[a] = {} /\ pidfile[a] = 0 /\ services[a].stop_reply = 0 /\ state[a] \notin {"running", "stopping"}
  BY DEF ServicesInv, ServiceTypes, SlotsTrue, SlotTrue

Began(s, n) == [s EXCEPT !.pid = n, !.started = TRUE, !.stopping = FALSE, !.stop_reply = 0]

\* svc_spawn, for one app: started, failed, or left alone.
LEMMA SpawnEach ==
  ASSUME NEW A, NEW F, NEW prepared, NEW living0, Spawn(A, F, prepared, living0), NEW a \in Apps
  PROVE  /\ a \in A \ F => /\ services'[a] = Began(prepared[a], runs[a] + 1)
                           /\ alive'[a] = living0[a] \cup {runs[a] + 1} /\ pidfile'[a] = runs[a] + 1 /\ state'[a] = "running"
                           /\ runs'[a] = runs[a] + 1
         /\ a \notin A \ F => /\ services'[a] = prepared[a] /\ alive'[a] = living0[a] /\ pidfile'[a] = pidfile[a] /\ runs'[a] = runs[a]
                              /\ IF a \in A \cap F THEN state'[a] \in {"starting", "stopped"} ELSE state'[a] = state[a]
  BY DEF Spawn, Began

LEMMA StartedSlot ==
  ASSUME NEW s \in SlotSet, NEW n \in Nat
  PROVE  /\ Began(s, n) \in SlotSet /\ Began(s, n).pid = n /\ Began(s, n).stop_reply = 0 /\ ~Began(s, n).stopping
         /\ (s.used => Began(s, n).used) /\ (Began(s, n).failed => s.failed) /\ (s.manual_stop => Began(s, n).manual_stop)
  BY DEF SlotSet, Began

LEMMA SpawnTypes ==
  ASSUME ServiceTypes, NEW A, NEW F, NEW prepared \in [Apps -> SlotSet], NEW living0 \in [Apps -> SUBSET (Nat \ {0})], Spawn(A, F, prepared, living0)
  PROVE  /\ services' \in [Apps -> SlotSet] /\ pidfile' \in [Apps -> Nat] /\ state' \in [Apps -> StateWords]
         /\ alive' \in [Apps -> SUBSET (Nat \ {0})] /\ runs' \in [Apps -> Nat]
<1>1. /\ DOMAIN services' = Apps /\ DOMAIN pidfile' = Apps /\ DOMAIN state' = Apps /\ DOMAIN alive' = Apps /\ DOMAIN runs' = Apps
      /\ services' = [a \in Apps |-> services'[a]] /\ pidfile' = [a \in Apps |-> pidfile'[a]] /\ state' = [a \in Apps |-> state'[a]]
      /\ alive' = [a \in Apps |-> alive'[a]] /\ runs' = [a \in Apps |-> runs'[a]]
  BY DEF Spawn
<1>2. ASSUME NEW a \in Apps PROVE services'[a] \in SlotSet /\ pidfile'[a] \in Nat /\ state'[a] \in StateWords /\ alive'[a] \in SUBSET (Nat \ {0}) /\ runs'[a] \in Nat
  <2>1. /\ prepared[a] \in SlotSet /\ living0[a] \in SUBSET (Nat \ {0}) /\ runs[a] \in Nat /\ runs[a] + 1 \in Nat \ {0} /\ pidfile[a] \in Nat
        /\ state[a] \in StateWords
    BY DEF ServiceTypes
  <2>2. CASE a \in A \ F
    <3>1. services'[a] = Began(prepared[a], runs[a] + 1)
      BY <2>2, SpawnEach
    <3>2. services'[a] \in SlotSet
      BY <2>1, <3>1, StartedSlot
    <3>3. alive'[a] = living0[a] \cup {runs[a] + 1} /\ pidfile'[a] = runs[a] + 1 /\ state'[a] = "running" /\ runs'[a] = runs[a] + 1
      BY <2>2, SpawnEach
    <3> QED BY <2>1, <3>2, <3>3 DEF StateWords
  <2>3. CASE a \notin A \ F
    <3>1. /\ services'[a] = prepared[a] /\ alive'[a] = living0[a] /\ pidfile'[a] = pidfile[a] /\ runs'[a] = runs[a]
          /\ IF a \in A \cap F THEN state'[a] \in {"starting", "stopped"} ELSE state'[a] = state[a]
      BY <2>3, SpawnEach
    <3> QED BY <2>1, <3>1 DEF StateWords
  <2> QED BY <2>2, <2>3
<1> QED BY <1>1, <1>2

\* Spawning leaves every app watched, when those that are started have nothing
\* running and the others keep their slot or, with nothing running, lose it.
LEMMA SpawnKeeps ==
  ASSUME ServicesInv, up, up', NEW A, NEW F, NEW prepared \in [Apps -> SlotSet], NEW living0 \in [Apps -> SUBSET (Nat \ {0})],
         Spawn(A, F, prepared, living0),
         \A a \in Apps : living0[a] \subseteq alive[a],
         \A a \in Apps : a \in A => /\ services[a].pid = 0 /\ prepared[a].used /\ ~prepared[a].failed /\ prepared[a].pid = 0
                                    /\ prepared[a].stop_reply = 0,
         \A a \in Apps : a \notin A => prepared[a] = services[a] \/ (prepared[a] = Idle /\ services[a].pid = 0)
  PROVE  SlotsTrue'
<1> SUFFICES ASSUME NEW a \in Apps PROVE SlotTrue(up, services[a], pidfile[a], state[a], alive[a])'
  BY DEF SlotsTrue
<1>1. prepared[a] \in SlotSet /\ services[a] \in SlotSet /\ pidfile[a] \in Nat /\ runs[a] \in Nat /\ runs[a] + 1 \in Nat \ {0}
  BY DEF ServicesInv, ServiceTypes
<1>2. SlotTrue(up, services[a], pidfile[a], state[a], alive[a])
  BY DEF ServicesInv, SlotsTrue
<1>3. CASE a \in A \ F
  <2>1. services'[a] = Began(prepared[a], runs[a] + 1)
    BY <1>3, SpawnEach
  <2>2. alive'[a] = living0[a] \cup {runs[a] + 1} /\ pidfile'[a] = runs[a] + 1 /\ state'[a] = "running"
    BY <1>3, SpawnEach
  <2>3. alive[a] = {}
    BY <1>3, NothingRuns
  <2>4. prepared[a].used /\ ~prepared[a].failed
    BY <1>3
  <2>5. /\ Began(prepared[a], runs[a] + 1).pid = runs[a] + 1 /\ Began(prepared[a], runs[a] + 1).stop_reply = 0
        /\ ~Began(prepared[a], runs[a] + 1).stopping
        /\ Began(prepared[a], runs[a] + 1).used /\ ~Began(prepared[a], runs[a] + 1).failed
    BY <1>1, <2>4, StartedSlot
  <2> QED BY <1>1, <2>1, <2>2, <2>3, <2>5 DEF SlotTrue
<1>4. CASE a \in A \cap F
  <2>1. services'[a] = prepared[a] /\ alive'[a] = living0[a] /\ pidfile'[a] = pidfile[a] /\ state'[a] \in {"starting", "stopped"}
    BY <1>4, SpawnEach
  <2>2. alive[a] = {} /\ pidfile[a] = 0
    BY <1>4, NothingRuns
  <2> QED BY <1>1, <1>4, <2>1, <2>2 DEF SlotTrue
<1>5. CASE a \notin A
  <2>1. services'[a] = prepared[a] /\ alive'[a] = living0[a] /\ pidfile'[a] = pidfile[a] /\ state'[a] = state[a]
    BY <1>5, SpawnEach
  <2>2. CASE prepared[a] = services[a]
    BY <1>2, <2>1, <2>2 DEF SlotTrue
  <2>3. CASE prepared[a] = Idle /\ services[a].pid = 0
    <3>1. alive[a] = {} /\ pidfile[a] = 0 /\ state[a] \notin {"running", "stopping"}
      BY <2>3, NothingRuns
    <3> QED BY <2>1, <2>3, <3>1, IdleSlot DEF SlotTrue
  <2> QED BY <1>5, <2>2, <2>3
<1> QED BY <1>3, <1>4, <1>5

LEMMA StartServiceStep == ASSUME ServicesInv, NEW a \in Apps, Start(a) PROVE ServicesInv'
<1> DEFINE slot == [services[a] EXCEPT !.used = TRUE, !.failed = FALSE, !.restarts = 0, !.backoff = FALSE, !.manual_stop = FALSE]
<1>1. services[a] \in SlotSet /\ services \in [Apps -> SlotSet] /\ alive \in [Apps -> SUBSET (Nat \ {0})]
  BY DEF ServicesInv, ServiceTypes
<1>2. slot \in SlotSet /\ slot.used /\ ~slot.failed /\ slot.pid = services[a].pid /\ slot.stop_reply = services[a].stop_reply
  BY <1>1 DEF SlotSet
<1>3. up /\ services[a].pid = 0 /\ told' = told \ {a} /\ up' /\ asks' = asks /\ owed' = owed
  BY DEF Start, Running
<1>4. PICK F \in SUBSET {a} : Spawn({a}, F, [services EXCEPT ![a] = slot], alive)
  BY DEF Start
<1> HIDE DEF slot
<1>a. PICK prepared : prepared = [services EXCEPT ![a] = slot]
  OBVIOUS
<1>b. PICK before : before = alive
  OBVIOUS
<1>c. PICK A : A = {a}
  OBVIOUS
<1>5. prepared \in [Apps -> SlotSet] /\ prepared[a] = slot /\ \A b \in Apps : b # a => prepared[b] = services[b]
  BY <1>1, <1>2, <1>a
<1>6. Spawn(A, F, prepared, before) /\ before \in [Apps -> SUBSET (Nat \ {0})]
  BY <1>1, <1>4, <1>a, <1>b, <1>c
<1>7. slot.pid = 0 /\ slot.stop_reply = 0
  BY <1>2, <1>3, NothingRuns
<1>8. SlotsTrue'
  <2>1. /\ \A b \in Apps : before[b] \subseteq alive[b]
        /\ \A b \in Apps : b \in A => services[b].pid = 0 /\ prepared[b].used /\ ~prepared[b].failed /\ prepared[b].pid = 0
                                        /\ prepared[b].stop_reply = 0
        /\ \A b \in Apps : b \notin A => prepared[b] = services[b] \/ (prepared[b] = Idle /\ services[b].pid = 0)
    BY <1>2, <1>3, <1>5, <1>7, <1>b, <1>c
  <2> QED BY <1>1, <1>3, <1>5, <1>6, <2>1, SpawnKeeps
<1>9. ServiceTypes'
  <2>1. /\ services' \in [Apps -> SlotSet] /\ pidfile' \in [Apps -> Nat] /\ state' \in [Apps -> StateWords]
        /\ alive' \in [Apps -> SUBSET (Nat \ {0})] /\ runs' \in [Apps -> Nat]
    BY <1>1, <1>5, <1>6, SpawnTypes DEF ServicesInv
  <2> QED BY <1>3, <2>1 DEF ServicesInv, ServiceTypes
<1>10. ToldTrue'
  <2> SUFFICES ASSUME NEW b \in told, b # a PROVE services'[b].used /\ services'[b].manual_stop /\ services'[b].pid = 0
    BY <1>3 DEF ToldTrue
  <2>1. b \in Apps
    BY DEF ServicesInv, ServiceTypes
  <2>2. services'[b] = prepared[b]
    <3>1. b \notin A \ F
      BY <1>c
    <3> QED BY <1>6, <2>1, <3>1, SpawnEach
  <2> QED BY <1>5, <2>1, <2>2 DEF ServicesInv, ToldTrue
<1> QED BY <1>8, <1>9, <1>10 DEF ServicesInv

\* Mind: an app told stopped is one whose process was found gone.
LEMMA StopServiceStep == ASSUME ServicesInv, NEW a \in Apps, Stop(a) PROVE ServicesInv'
<1> DEFINE n == asks + 1
           slot == [services[a] EXCEPT !.manual_stop = TRUE, !.backoff = FALSE, !.stopping = services[a].stopping \/ Running(a),
                                       !.stop_reply = IF Running(a) THEN n ELSE services[a].stop_reply]
<1>1. services[a] \in SlotSet /\ services \in [Apps -> SlotSet] /\ state \in [Apps -> StateWords] /\ asks \in Nat /\ n \in Nat \ {0}
  BY DEF ServicesInv, ServiceTypes
<1>2. /\ up /\ up' /\ asks' = n /\ UNCHANGED <<alive, pidfile, runs>>
      /\ services' = IF services[a].used THEN [services EXCEPT ![a] = slot] ELSE services
      /\ IF Running(a) THEN state' = [state EXCEPT ![a] = "stopping"] /\ owed' = owed \cup {n} /\ told' = told
         ELSE told' = (IF services[a].used THEN told \cup {a} ELSE told) /\ state' = state /\ owed' = owed
  BY DEF Stop
<1>3. SlotTrue(TRUE, services[a], pidfile[a], state[a], alive[a])
  BY <1>2 DEF ServicesInv, SlotsTrue, SlotTrue
<1>4. /\ slot \in SlotSet /\ slot.used = services[a].used /\ slot.pid = services[a].pid /\ slot.manual_stop /\ slot.failed = services[a].failed
      /\ slot.stopping = (services[a].stopping \/ Running(a)) /\ slot.stop_reply = (IF Running(a) THEN n ELSE services[a].stop_reply)
  <2>1. (services[a].stopping \/ Running(a)) \in BOOLEAN
    OBVIOUS
  <2>2. PICK e \in BOOLEAN : e = (services[a].stopping \/ Running(a))
    BY <2>1
  <2>3. slot = [services[a] EXCEPT !.manual_stop = TRUE, !.backoff = FALSE, !.stopping = e, !.stop_reply = IF Running(a) THEN n ELSE services[a].stop_reply]
    BY <2>2, Zenon
  <2> HIDE DEF slot, n
  <2>4. /\ slot \in SlotSet /\ slot.used = services[a].used /\ slot.pid = services[a].pid /\ slot.manual_stop /\ slot.failed = services[a].failed
        /\ slot.stopping = e /\ slot.stop_reply = (IF Running(a) THEN n ELSE services[a].stop_reply)
    BY <1>1, <2>3 DEF SlotSet
  <2> QED BY <2>2, <2>4
<1> HIDE DEF slot, n
<1>5. \A b \in Apps : b # a => services'[b] = services[b] /\ state'[b] = state[b]
  BY <1>1, <1>2
<1>6. ServiceTypes'
  <2>1. services' \in [Apps -> SlotSet]
    BY <1>1, <1>2, <1>4
  <2>2. state' \in [Apps -> StateWords] /\ owed' \subseteq Nat \ {0} /\ told' \subseteq Apps
    BY <1>1, <1>2 DEF ServicesInv, ServiceTypes, StateWords
  <2> QED BY <1>1, <1>2, <2>1, <2>2 DEF ServicesInv, ServiceTypes
<1>7. SlotTrue(up, services[a], pidfile[a], state[a], alive[a])'
  <2>1. CASE Running(a)
    <3>1. services[a].used /\ services[a].pid # 0
      BY <1>3, <2>1, IdleSlot DEF SlotTrue, Running
    <3>2. services'[a] = slot /\ state'[a] = "stopping"
      BY <1>1, <1>2, <2>1, <3>1
    <3> QED BY <1>2, <1>3, <1>4, <2>1, <3>1, <3>2 DEF SlotTrue, Running
  <2>2. CASE ~Running(a) /\ services[a].used
    <3>1. services'[a] = slot /\ state'[a] = state[a]
      BY <1>1, <1>2, <2>2
    <3> QED BY <1>2, <1>3, <1>4, <2>2, <3>1 DEF SlotTrue, Running
  <2>3. CASE ~Running(a) /\ ~services[a].used
    BY <1>2, <1>3, <2>3 DEF SlotTrue
  <2> QED BY <2>1, <2>2, <2>3
<1>8. SlotsTrue'
  <2> SUFFICES ASSUME NEW b \in Apps, b # a PROVE SlotTrue(up, services[b], pidfile[b], state[b], alive[b])'
    BY <1>7 DEF SlotsTrue
  <2> QED BY <1>2, <1>5 DEF ServicesInv, SlotsTrue, SlotTrue
<1>9. ToldTrue'
  <2> SUFFICES ASSUME NEW b \in told' PROVE services'[b].used /\ services'[b].manual_stop /\ services'[b].pid = 0
    BY <1>2 DEF ToldTrue
  <2>1. CASE b = a
    <3>1. ~Running(a)
      BY <1>2, <2>1 DEF ServicesInv, ToldTrue, Running
    <3>2. services[a].used
      BY <1>2, <2>1, <3>1 DEF ServicesInv, ToldTrue
    <3>3. services'[a] = slot
      BY <1>1, <1>2, <3>2
    <3> QED BY <1>4, <2>1, <3>1, <3>2, <3>3 DEF Running
  <2>2. CASE b # a
    BY <1>2, <1>5, <2>2 DEF ServicesInv, ServiceTypes, ToldTrue
  <2> QED BY <2>1, <2>2
<1> QED BY <1>6, <1>8, <1>9 DEF ServicesInv

LEMMA ExitServiceStep == ASSUME ServicesInv, NEW a \in Apps, Exit(a) PROVE ServicesInv'
<1>1. PICK p \in alive[a] : alive' = [alive EXCEPT ![a] = alive[a] \ {p}]
  BY DEF Exit
<1>2. UNCHANGED <<up, services, pidfile, state, asks, owed, runs, told>>
  BY DEF Exit, files
<1>3. alive' \in [Apps -> SUBSET (Nat \ {0})] /\ \A b \in Apps : alive'[b] \subseteq alive[b]
  BY <1>1 DEF ServicesInv, ServiceTypes
<1>4. ServiceTypes' /\ ToldTrue'
  BY <1>2, <1>3 DEF ServicesInv, ServiceTypes, ToldTrue
<1>5. ASSUME NEW b \in Apps PROVE SlotTrue(up, services[b], pidfile[b], state[b], alive[b])'
  BY <1>2, <1>3 DEF ServicesInv, SlotsTrue, SlotTrue
<1> QED BY <1>4, <1>5 DEF ServicesInv, SlotsTrue

Reaped(s) == [s EXCEPT !.pid = 0, !.stop_reply = 0]

\* The slot and the word an exit leaves.
LEMMA ReapedSlot ==
  ASSUME NEW s \in SlotSet, ~s.failed, NEW a, NEW fast \in BOOLEAN, NEW after, after = AfterExit(s, a, fast),
         NEW r, r = Reaped(after[1])
  PROVE  /\ r \in SlotSet /\ r.pid = 0 /\ r.stop_reply = 0 /\ (s.used => r.used) /\ (s.manual_stop => r.manual_stop)
         /\ after[2] \in {"stopped", "failed", "crashed"} /\ (r.failed => after[2] = "failed")
<1>1. PICK crashes \in Nat : crashes = IF fast THEN s.restarts + 1 ELSE 1
  BY DEF SlotSet
<1>2. \/ after = <<[s EXCEPT !.stopping = FALSE], "stopped">>
      \/ after = <<s, "stopped">>
      \/ after = <<[s EXCEPT !.restarts = crashes, !.failed = TRUE, !.backoff = FALSE], "failed">>
      \/ after = <<[s EXCEPT !.restarts = crashes, !.backoff = TRUE], "crashed">>
  BY <1>1 DEF AfterExit
<1>3. /\ after[1] \in SlotSet /\ after[1].used = s.used /\ after[1].manual_stop = s.manual_stop
      /\ after[2] \in {"stopped", "failed", "crashed"} /\ (after[1].failed => after[2] = "failed")
  <2>1. CASE after = <<[s EXCEPT !.stopping = FALSE], "stopped">>
    <3>1. after[1] = [s EXCEPT !.stopping = FALSE] /\ after[2] = "stopped"
      BY <2>1
    <3> QED BY <3>1 DEF SlotSet
  <2>2. CASE after = <<s, "stopped">>
    <3>1. after[1] = s /\ after[2] = "stopped"
      BY <2>2
    <3> QED BY <3>1 DEF SlotSet
  <2>3. CASE after = <<[s EXCEPT !.restarts = crashes, !.failed = TRUE, !.backoff = FALSE], "failed">>
    <3>1. after[1] = [s EXCEPT !.restarts = crashes, !.failed = TRUE, !.backoff = FALSE] /\ after[2] = "failed"
      BY <2>3
    <3> QED BY <1>1, <3>1 DEF SlotSet
  <2>4. CASE after = <<[s EXCEPT !.restarts = crashes, !.backoff = TRUE], "crashed">>
    <3>1. after[1] = [s EXCEPT !.restarts = crashes, !.backoff = TRUE] /\ after[2] = "crashed"
      BY <2>4
    <3> QED BY <1>1, <3>1 DEF SlotSet
  <2> QED BY <1>2, <2>1, <2>2, <2>3, <2>4
<1>4. /\ r \in SlotSet /\ r.pid = 0 /\ r.stop_reply = 0 /\ r.used = after[1].used /\ r.manual_stop = after[1].manual_stop
      /\ r.failed = after[1].failed
  BY <1>3 DEF SlotSet, Reaped
<1> QED BY <1>3, <1>4

LEMMA ReapServiceStep == ASSUME ServicesInv, NEW a \in Apps, Reap(a) PROVE ServicesInv'
<1>1. services[a] \in SlotSet /\ services \in [Apps -> SlotSet] /\ state \in [Apps -> StateWords] /\ pidfile \in [Apps -> Nat] /\ owed \subseteq Nat \ {0}
  BY DEF ServicesInv, ServiceTypes
<1>2. /\ up /\ up' /\ services[a].pid # 0 /\ services[a].pid \notin alive[a]
      /\ pidfile' = [pidfile EXCEPT ![a] = 0] /\ owed' = owed \ {services[a].stop_reply}
      /\ told' = IF services[a].stop_reply \in owed THEN told \cup {a} ELSE told
      /\ UNCHANGED <<alive, asks, runs>>
  BY DEF Reap, Running
<1>3. PICK fast \in BOOLEAN :
        /\ services' = [services EXCEPT ![a] = [AfterExit(services[a], a, fast)[1] EXCEPT !.pid = 0, !.stop_reply = 0]]
        /\ state' = [state EXCEPT ![a] = AfterExit(services[a], a, fast)[2]]
  BY Zenon DEF Reap
<1>a. fast \in BOOLEAN
  BY <1>3
<1>4. PICK after : after = AfterExit(services[a], a, fast)
  OBVIOUS
<1>5. PICK r : r = Reaped(after[1])
  OBVIOUS
<1>6. services' = [services EXCEPT ![a] = r] /\ state' = [state EXCEPT ![a] = after[2]]
  BY <1>3, <1>4, <1>5, Zenon DEF Reaped
<1>7. SlotTrue(up, services[a], pidfile[a], state[a], alive[a])
  BY DEF ServicesInv, SlotsTrue
<1>8. services[a].used /\ ~services[a].failed /\ alive[a] = {} /\ (services[a].stop_reply # 0 => services[a].manual_stop)
  BY <1>2, <1>7, IdleSlot DEF SlotTrue
<1>9. /\ r \in SlotSet /\ r.pid = 0 /\ r.stop_reply = 0 /\ (services[a].used => r.used) /\ (services[a].manual_stop => r.manual_stop)
      /\ after[2] \in {"stopped", "failed", "crashed"} /\ (r.failed => after[2] = "failed")
  BY <1>1, <1>4, <1>5, <1>8, <1>a, ReapedSlot
<1>10. /\ services'[a] = r /\ state'[a] = after[2] /\ pidfile'[a] = 0
       /\ \A b \in Apps : b # a => services'[b] = services[b] /\ state'[b] = state[b] /\ pidfile'[b] = pidfile[b]
  BY <1>1, <1>2, <1>6
<1>11. ServiceTypes'
  <2>1. services' \in [Apps -> SlotSet]
    BY <1>1, <1>6, <1>9
  <2>2. state' \in [Apps -> StateWords] /\ pidfile' \in [Apps -> Nat]
    BY <1>1, <1>2, <1>6, <1>9 DEF StateWords
  <2>3. owed' \subseteq Nat \ {0} /\ told' \subseteq Apps
    BY <1>1, <1>2 DEF ServicesInv, ServiceTypes
  <2> QED BY <1>2, <2>1, <2>2, <2>3 DEF ServicesInv, ServiceTypes
<1>12. SlotsTrue'
  <2>1. SlotTrue(up, services[a], pidfile[a], state[a], alive[a])'
    BY <1>2, <1>8, <1>9, <1>10 DEF SlotTrue
  <2>2. ASSUME NEW b \in Apps, b # a PROVE SlotTrue(up, services[b], pidfile[b], state[b], alive[b])'
    BY <1>2, <1>10, <2>2 DEF ServicesInv, SlotsTrue, SlotTrue
  <2> QED BY <2>1, <2>2 DEF SlotsTrue
<1>13. ToldTrue'
  <2> SUFFICES ASSUME NEW b \in told' PROVE services'[b].used /\ services'[b].manual_stop /\ services'[b].pid = 0
    BY <1>2 DEF ToldTrue
  <2>1. CASE b = a
    <3>1. services[a].stop_reply \in owed
      BY <1>2, <2>1 DEF ServicesInv, ToldTrue
    <3> QED BY <1>1, <1>8, <1>9, <1>10, <2>1, <3>1
  <2>2. CASE b # a
    <3>1. b \in told
      BY <1>2, <2>2
    <3> QED BY <1>10, <2>2, <3>1 DEF ServicesInv, ServiceTypes, ToldTrue
  <2> QED BY <2>1, <2>2
<1> QED BY <1>11, <1>12, <1>13 DEF ServicesInv

\* The packages, the enable list and the socket change no slot.
LEMMA OutsideServiceStep ==
  ASSUME ServicesInv, UNCHANGED <<up, services, pidfile, state, alive, asks, runs, told>>, owed' \subseteq owed
  PROVE  ServicesInv'
  BY DEF ServicesInv, ServiceTypes, SlotsTrue, SlotTrue, ToldTrue

LEMMA DieServiceStep == ASSUME ServicesInv, Die PROVE ServicesInv'
<1>1. up /\ ~up' /\ owed' = {} /\ told' = {} /\ services' = [a \in Apps |-> Idle] /\ UNCHANGED <<pidfile, state, alive, asks, runs>>
  BY DEF Die, files
<1>2. ServiceTypes' /\ ToldTrue'
  BY <1>1, IdleSlot DEF ServicesInv, ServiceTypes, ToldTrue
<1>3. ASSUME NEW a \in Apps PROVE SlotTrue(up, services[a], pidfile[a], state[a], alive[a])'
  BY <1>1, IdleSlot DEF ServicesInv, SlotsTrue, SlotTrue
<1> QED BY <1>2, <1>3 DEF ServicesInv, SlotsTrue

LEMMA RespawnServiceStep == ASSUME ServicesInv, Respawn PROVE ServicesInv'
<1> DEFINE slot(a) == [Idle EXCEPT !.used = TRUE, !.pid = pidfile[a], !.started = TRUE]
<1>1. /\ ~up /\ up' /\ UNCHANGED <<alive, asks, owed, runs, told>>
      /\ services' = [a \in Apps |-> IF pidfile[a] \in alive[a] THEN slot(a) ELSE Idle]
      /\ pidfile' = [a \in Apps |-> IF pidfile[a] \in alive[a] THEN pidfile[a] ELSE 0]
      /\ state' = [a \in Apps |-> IF pidfile[a] \in alive[a] THEN "running" ELSE IF pidfile[a] # 0 THEN "stopped" ELSE state[a]]
  <2>a. PICK adopted : adopted = {a \in Apps : pidfile[a] \in alive[a]}
    OBVIOUS
  <2>1. \A a \in Apps : a \in adopted <=> pidfile[a] \in alive[a]
    BY <2>a
  <2>2. /\ services' = [a \in Apps |-> IF a \in adopted THEN slot(a) ELSE Idle]
        /\ pidfile' = [a \in Apps |-> IF a \in adopted THEN pidfile[a] ELSE 0]
        /\ state' = [a \in Apps |-> IF a \in adopted THEN "running" ELSE IF pidfile[a] # 0 THEN "stopped" ELSE state[a]]
    BY <2>a, Zenon DEF Respawn
  <2>3. ~up /\ up' /\ UNCHANGED <<alive, asks, owed, runs, told>>
    BY Zenon DEF Respawn
  <2> HIDE DEF slot
  <2> QED BY <2>1, <2>2, <2>3
<1>2. pidfile \in [Apps -> Nat] /\ state \in [Apps -> StateWords] /\ alive \in [Apps -> SUBSET (Nat \ {0})]
  BY DEF ServicesInv, ServiceTypes
<1>3. ASSUME NEW a \in Apps PROVE /\ slot(a) \in SlotSet /\ slot(a).used /\ slot(a).pid = pidfile[a] /\ ~slot(a).stopping /\ slot(a).stop_reply = 0
                                  /\ ~slot(a).failed
  BY <1>2 DEF Idle, SlotSet
<1> HIDE DEF slot
<1>4. told = {}
  BY <1>1 DEF ServicesInv, ToldTrue
<1>5. ServiceTypes'
  <2>1. services' \in [Apps -> SlotSet]
    BY <1>1, <1>3, IdleSlot
  <2>2. pidfile' \in [Apps -> Nat] /\ state' \in [Apps -> StateWords]
    BY <1>1, <1>2 DEF StateWords
  <2> QED BY <1>1, <2>1, <2>2 DEF ServicesInv, ServiceTypes
<1>6. ASSUME NEW a \in Apps PROVE SlotTrue(up, services[a], pidfile[a], state[a], alive[a])'
  <2>1. SlotTrue(FALSE, services[a], pidfile[a], state[a], alive[a])
    BY <1>1 DEF ServicesInv, SlotsTrue, SlotTrue
  <2>2. CASE pidfile[a] \in alive[a]
    <3>1. services'[a] = slot(a) /\ pidfile'[a] = pidfile[a] /\ state'[a] = "running" /\ pidfile[a] # 0
      BY <1>1, <1>2, <2>2
    <3> QED BY <1>1, <1>3, <2>1, <3>1 DEF SlotTrue
  <2>3. CASE pidfile[a] \notin alive[a]
    <3>1. services'[a] = Idle /\ pidfile'[a] = 0 /\ alive[a] = {} /\ state'[a] \notin {"running", "stopping"}
      BY <1>1, <2>1, <2>3 DEF SlotTrue
    <3> QED BY <1>1, <3>1, IdleSlot DEF SlotTrue
  <2> QED BY <2>2, <2>3
<1> QED BY <1>1, <1>4, <1>5, <1>6 DEF ServicesInv, SlotsTrue, ToldTrue

\* The slot after packages gone were swept, and what the sweep may start.
LEMMA SweptSlot ==
  ASSUME ServicesInv, up, NEW a \in Apps, NEW s, s = Swept[a]
  PROVE  /\ s \in SlotSet
         /\ s = services[a] \/ (s = Idle /\ services[a].pid = 0)
         /\ ~s.used => s = Idle /\ services[a].pid = 0
         /\ s.pid = 0 => services[a].pid = 0 /\ s.stop_reply = 0
<1>1. services[a] \in SlotSet /\ SlotTrue(up, services[a], pidfile[a], state[a], alive[a])
  BY DEF ServicesInv, ServiceTypes, SlotsTrue
<1>2. s = services[a] \/ (s = Idle /\ services[a].pid = 0)
  BY DEF Swept, Running
<1>3. CASE s = services[a]
  BY <1>1, <1>3, IdleSlot DEF SlotTrue
<1>4. CASE s = Idle /\ services[a].pid = 0
  BY <1>4, IdleSlot
<1> QED BY <1>2, <1>3, <1>4

Ready(s) == [s EXCEPT !.used = TRUE, !.backoff = FALSE]

LEMMA ReadySlot ==
  ASSUME NEW s \in SlotSet
  PROVE  /\ Ready(s) \in SlotSet /\ Ready(s).used /\ Ready(s).pid = s.pid /\ Ready(s).stop_reply = s.stop_reply
         /\ (Ready(s).failed => s.failed)
  BY DEF SlotSet, Ready

LEMMA ReadiedTable ==
  ASSUME NEW A, NEW prepared, prepared = Readied(A)
  PROVE  /\ \A a \in Apps : prepared[a] = IF a \in A THEN Ready(Swept[a]) ELSE Swept[a]
         /\ (\A a \in Apps : prepared[a] \in SlotSet) => prepared \in [Apps -> SlotSet]
<1>1. prepared = [a \in Apps |-> IF a \in A THEN Ready(Swept[a]) ELSE Swept[a]]
  BY Zenon DEF Readied, Ready
<1> QED BY <1>1

LEMMA SweepServiceStep == ASSUME ServicesInv, Sweep PROVE ServicesInv'
<1>1. PICK K, W, F : SweepWith(K, W, F)
  BY DEF Sweep
<1>2. up /\ up' /\ UNCHANGED <<asks, owed>> /\ told' = {a \in told : Swept[a].used}
  BY <1>1, Zenon DEF SweepWith
<1>3. PICK new \in SUBSET Listed : Spawn(Again(W) \cup new, F, Readied(Again(W) \cup new), Killed(K))
  BY <1>1, Zenon DEF SweepWith, kSubset
<1>4. PICK A : A = Again(W) \cup new
  OBVIOUS
<1>5. PICK prepared : prepared = Readied(A)
  OBVIOUS
<1>6. PICK before : before = Killed(K)
  OBVIOUS
<1>7. Spawn(A, F, prepared, before)
  BY <1>3, <1>4, <1>5, <1>6, Zenon
<1>8. before \in [Apps -> SUBSET (Nat \ {0})] /\ \A a \in Apps : before[a] \subseteq alive[a]
  BY <1>6 DEF Killed, ServicesInv, ServiceTypes
<1>9. ASSUME NEW a \in Apps PROVE prepared[a] = IF a \in A THEN Ready(Swept[a]) ELSE Swept[a]
  BY <1>5, <1>9, ReadiedTable
<1>10. ASSUME NEW a \in Apps, a \in A PROVE Swept[a].pid = 0 /\ ~Swept[a].failed /\ (Swept[a].used => ~Swept[a].manual_stop)
  <2>1. CASE a \in Again(W)
    BY <2>1, Zenon DEF Again, MayAutostart
  <2>2. CASE a \in new
    <3>1. ~Swept[a].used
      BY <1>3, <2>2 DEF Listed
    <3> QED BY <1>2, <3>1, SweptSlot, IdleSlot
  <2> QED BY <1>4, <1>10, <2>1, <2>2
<1>12. ASSUME NEW a \in Apps
       PROVE  /\ prepared[a] \in SlotSet
              /\ a \in A => services[a].pid = 0 /\ prepared[a].used /\ ~prepared[a].failed /\ prepared[a].pid = 0 /\ prepared[a].stop_reply = 0
              /\ a \notin A => prepared[a] = services[a] \/ (prepared[a] = Idle /\ services[a].pid = 0)
  <2> PICK s : s = Swept[a]
    OBVIOUS
  <2>1. /\ s \in SlotSet
        /\ s = services[a] \/ (s = Idle /\ services[a].pid = 0)
        /\ s.pid = 0 => services[a].pid = 0 /\ s.stop_reply = 0
    BY <1>2, SweptSlot
  <2>2. prepared[a] = IF a \in A THEN Ready(s) ELSE s
    BY <1>9
  <2>3. a \in A => s.pid = 0 /\ ~s.failed
    BY <1>10
  <2> QED BY ReadySlot, <2>1, <2>2, <2>3
<1>13. prepared \in [Apps -> SlotSet]
  BY <1>5, <1>12, ReadiedTable
<1>14. SlotsTrue'
  <2>1. /\ \A a \in Apps : a \in A => services[a].pid = 0 /\ prepared[a].used /\ ~prepared[a].failed /\ prepared[a].pid = 0
                                        /\ prepared[a].stop_reply = 0
        /\ \A a \in Apps : a \notin A => prepared[a] = services[a] \/ (prepared[a] = Idle /\ services[a].pid = 0)
    BY <1>12
  <2> QED BY <1>2, <1>7, <1>8, <1>13, <2>1, SpawnKeeps
<1>15. ServiceTypes'
  <2>1. /\ services' \in [Apps -> SlotSet] /\ pidfile' \in [Apps -> Nat] /\ state' \in [Apps -> StateWords]
        /\ alive' \in [Apps -> SUBSET (Nat \ {0})] /\ runs' \in [Apps -> Nat]
    BY <1>7, <1>8, <1>13, SpawnTypes DEF ServicesInv
  <2> QED BY <1>2, <2>1 DEF ServicesInv, ServiceTypes
<1>16. ToldTrue'
  <2> SUFFICES ASSUME NEW b \in told' PROVE services'[b].used /\ services'[b].manual_stop /\ services'[b].pid = 0
    BY <1>2 DEF ToldTrue
  <2>1. b \in told /\ b \in Apps /\ Swept[b].used /\ services[b].manual_stop /\ services[b].used /\ services[b].pid = 0
    BY <1>2 DEF ServicesInv, ServiceTypes, ToldTrue
  <2>2. Swept[b] = services[b]
    BY <1>2, <2>1, SweptSlot, IdleSlot
  <2>3. b \notin A
    BY <1>10, <2>1, <2>2
  <2>4. prepared[b] = services[b]
    BY <1>9, <2>1, <2>2, <2>3
  <2>5. services'[b] = prepared[b]
    BY <1>7, <2>1, <2>3, SpawnEach
  <2> QED BY <2>1, <2>4, <2>5
<1> QED BY <1>14, <1>15, <1>16 DEF ServicesInv

LEMMA ServicesStart == ServicesInit => ServicesInv
<1> SUFFICES ASSUME ServicesInit PROVE ServicesInv
  OBVIOUS
<1>1. /\ up /\ services = [a \in Apps |-> Idle] /\ pidfile = [a \in Apps |-> 0] /\ state = [a \in Apps |-> "none"]
      /\ alive = [a \in Apps |-> {}] /\ asks = 0 /\ owed = {} /\ told = {} /\ runs = [a \in Apps |-> 0]
  BY DEF ServicesInit
<1>2. ServiceTypes /\ ToldTrue
  BY <1>1, IdleSlot DEF ServiceTypes, StateWords, ToldTrue
<1>3. ASSUME NEW a \in Apps PROVE SlotTrue(up, services[a], pidfile[a], state[a], alive[a])
  BY <1>1, IdleSlot DEF SlotTrue
<1> QED BY <1>2, <1>3 DEF ServicesInv, SlotsTrue

LEMMA ServicesKept == ServicesInv /\ [ServicesNext]_servicesVars => ServicesInv'
<1> SUFFICES ASSUME ServicesInv, [ServicesNext]_servicesVars PROVE ServicesInv'
  OBVIOUS
<1>1. ASSUME NEW a \in Apps, Start(a) PROVE ServicesInv'
  BY <1>1, StartServiceStep
<1>2. ASSUME NEW a \in Apps, Stop(a) PROVE ServicesInv'
  BY <1>2, StopServiceStep
<1>3. ASSUME NEW a \in Apps, Exit(a) PROVE ServicesInv'
  BY <1>3, ExitServiceStep
<1>4. ASSUME NEW a \in Apps, Reap(a) PROVE ServicesInv'
  BY <1>4, ReapServiceStep
<1>5. ASSUME NEW a \in Apps, Edit(a) PROVE ServicesInv'
  BY <1>5, OutsideServiceStep DEF Edit, files
<1>6. CASE Sweep
  BY <1>6, SweepServiceStep
<1>7. CASE Disconnect
  BY <1>7, OutsideServiceStep DEF Disconnect, files
<1>8. CASE Connect
  BY <1>8, OutsideServiceStep DEF Connect, files
<1>9. CASE Die
  BY <1>9, DieServiceStep
<1>10. CASE Respawn
  BY <1>10, RespawnServiceStep
<1>11. CASE UNCHANGED servicesVars
  BY <1>11, OutsideServiceStep DEF servicesVars, files
<1> QED BY <1>1, <1>2, <1>3, <1>4, <1>5, <1>6, <1>7, <1>8, <1>9, <1>10, <1>11 DEF ServicesNext

LEMMA ServicesMeanIt == ServicesInv => EveryProcessWatched /\ StoppedMeansStopped /\ SurfaceTrue
<1> SUFFICES ASSUME ServicesInv PROVE EveryProcessWatched /\ StoppedMeansStopped /\ SurfaceTrue
  OBVIOUS
<1>1. EveryProcessWatched
  BY DEF ServicesInv, SlotsTrue, SlotTrue, EveryProcessWatched
<1>2. StoppedMeansStopped
  <2> SUFFICES ASSUME NEW a \in told PROVE alive[a] = {}
    BY DEF StoppedMeansStopped
  <2>1. a \in Apps /\ up /\ services[a].pid = 0
    BY DEF ServicesInv, ServiceTypes, ToldTrue
  <2> QED BY <2>1, NothingRuns
<1>3. SurfaceTrue
  BY DEF ServicesInv, SlotsTrue, SlotTrue, SurfaceTrue, Running
<1> QED BY <1>1, <1>2, <1>3

\* rund knows every process of every app, an app that was called stopped has
\* none until somebody starts it, the files of an app say what rund thinks of
\* it, and every accepted command has one true answer, in every state.
THEOREM RundKeepsItsWord ==
  ASSUME RundJobsAssumption PROVE ServicesSpec /\ JobsSpec => []ProcessesAsTold
<1>1. ServicesSpec => []ServicesInv
  BY ServicesStart, ServicesKept, PTL DEF ServicesSpec
<1>2. JobsSpec => []JobsExact
  BY RundJobsAssumption, JobsAnsweredOnce
<1>3. ServicesInv /\ JobsExact => ProcessesAsTold
  BY ServicesMeanIt DEF ProcessesAsTold
<1> QED BY <1>1, <1>2, <1>3, PTL
=============================================================================
