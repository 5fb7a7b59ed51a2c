---------------------------- MODULE RundServices ----------------------------
(***************************************************************************)
(* rund as the supervisor of apps: app.start and app.stop, the reaper, the *)
(* sweep that restarts and autostarts, and what a respawned rund makes of  *)
(* the pid files it finds.  The enable list and the installed packages are *)
(* files that app(1) and the page change as they like.                     *)
(*                                                                         *)
(* A process is known by the app and the number of its run, as if no pid   *)
(* were ever reused, and is its whole group.  A deadline that may have     *)
(* passed is a choice.  rund dies only between two turns of its loop, and  *)
(* forks may fail.                                                         *)
(***************************************************************************)
EXTENDS Naturals, FiniteSets, FiniteSetsExt

CONSTANTS
  Apps,
  Commands,      \* apps whose manifest kind is command
  MAX_SERVICES, CRASH_MAX,
  MaxRun,        \* bound: processes of one app
  MaxAsk,        \* bound: app.stop requests
  MaxRespawn     \* bound: deaths of rund

\* What the constants are taken to be.
RundServicesAssumption ==
  /\ IsFiniteSet(Apps) /\ Commands \subseteq Apps
  /\ MAX_SERVICES \in Nat /\ CRASH_MAX \in Nat
  /\ MaxRun \in Nat /\ MaxAsk \in Nat /\ MaxRespawn \in Nat

VARIABLES
  up, connected,     \* rund runs; its socket to rpcd stands
  services,          \* services[], by app
  pidfile, state,    \* /run/vinx/apps/<id>/{pid,state}
  alive,             \* the runs of each app that are processes
  enabled, installed,
  asks, respawns,    \* history: app.stop requests made; deaths of rund
  owed,              \* history: accepted app.stop requests of this connection, unanswered
  runs,              \* history: runs of each app so far
  told               \* history: apps a caller was told are stopped, by this rund

files == <<pidfile, state>>
users == <<enabled, installed>>
servicesVars  == <<up, connected, services, files, alive, users, asks, respawns, owed, runs, told>>

Idle == [used |-> FALSE, pid |-> 0, started |-> FALSE, restarts |-> 0, backoff |-> FALSE,
         failed |-> FALSE, stopping |-> FALSE, manual_stop |-> FALSE, stop_reply |-> 0]

Managed == {a \in Apps : services[a].used}
Running(a) == services[a].pid # 0

\* svc_slot: the app's own slot, or a free one.
HasSlot(a) == services[a].used \/ Cardinality(Managed) < MAX_SERVICES

\* svc_spawn of the apps in A, of which those in F do not get off the ground:
\* fork fails, or a terminal window does.  prepared and living are the table
\* and the processes before.
Spawn(A, F, prepared, living) ==
  LET started == A \ F IN
  /\ \A a \in started : runs[a] < MaxRun
  /\ runs' = [a \in Apps |-> IF a \in started THEN runs[a] + 1 ELSE runs[a]]
  /\ alive' = [a \in Apps |-> IF a \in started THEN living[a] \cup {runs'[a]} ELSE living[a]]
  /\ services' = [a \in Apps |->
       IF a \in started
       THEN [prepared[a] EXCEPT !.pid = runs'[a], !.started = TRUE,
                                !.stopping = FALSE, !.stop_reply = 0]
       ELSE prepared[a]]
  /\ pidfile' = [a \in Apps |-> IF a \in started THEN runs'[a] ELSE pidfile[a]]
  /\ \E failing \in [A \cap F -> {"starting", "stopped"}] :
       state' = [a \in Apps |-> CASE a \in started -> "running" [] a \in A \cap F -> failing[a]
                                  [] OTHER -> state[a]]

----------------------------------------------------------------------------
(* Requests.                                                               *)

\* handle_app_start.  Unknown apps, a full table and a running app are
\* answered without a change.
Start(a) ==
  /\ up /\ connected /\ a \in installed
  /\ HasSlot(a) /\ ~Running(a)
  /\ \E F \in SUBSET {a} :
       Spawn({a}, F, [services EXCEPT ![a] =
         [@ EXCEPT !.used = TRUE, !.failed = FALSE, !.restarts = 0,
                   !.backoff = FALSE, !.manual_stop = FALSE]], alive)
  /\ told' = told \ {a}
  /\ UNCHANGED <<up, connected, users, asks, respawns, owed>>

\* handle_app_stop: an app that runs gets TERM and the answer waits for its
\* exit.  An app without a slot is called stopped, and nothing is noted.
Stop(a) ==
  /\ up /\ connected /\ asks < MaxAsk
  /\ asks' = asks + 1
  /\ IF services[a].used
     THEN services' = [services EXCEPT ![a] =
            [@ EXCEPT !.manual_stop = TRUE, !.backoff = FALSE,
                      !.stopping = services[a].stopping \/ Running(a),
                      !.stop_reply = IF Running(a) THEN asks' ELSE services[a].stop_reply]]
     ELSE UNCHANGED services
  /\ IF Running(a)
     THEN /\ state' = [state EXCEPT ![a] = "stopping"]
          /\ owed' = owed \cup {asks'}
          /\ UNCHANGED told
     ELSE /\ told' = IF services[a].used THEN told \cup {a} ELSE told
          /\ UNCHANGED <<state, owed>>
  /\ UNCHANGED <<up, connected, alive, pidfile, users, respawns, runs>>

----------------------------------------------------------------------------
(* The loop: reaper and sweep.                                             *)

\* A process ends, whoever waits for it.
Exit(a) ==
  /\ \E p \in alive[a] : alive' = [alive EXCEPT ![a] = @ \ {p}]
  /\ UNCHANGED <<up, connected, services, files, users, asks, respawns, owed, runs, told>>

\* Where an exit leaves the slot: stopped by hand, a finished command, a
\* crash with another try to come, or a crash too many.
AfterExit(s, a, fast) ==
  LET crashes == IF fast THEN s.restarts + 1 ELSE 1 IN
  IF s.stopping \/ s.manual_stop THEN <<[s EXCEPT !.stopping = FALSE], "stopped">>
  ELSE IF a \in Commands THEN <<s, "stopped">>
  ELSE IF crashes > CRASH_MAX
  THEN <<[s EXCEPT !.restarts = crashes, !.failed = TRUE, !.backoff = FALSE], "failed">>
  ELSE <<[s EXCEPT !.restarts = crashes, !.backoff = TRUE], "crashed">>

\* reap_services and svc_exited, for one slot.  The answer an app.stop is
\* owed goes out, if only to a socket that is no longer the asker's.
Reap(a) ==
  /\ up /\ Running(a) /\ services[a].pid \notin alive[a]
  /\ \E fast \in BOOLEAN :
       LET after == AfterExit(services[a], a, fast) IN
       /\ services' = [services EXCEPT ![a] = [after[1] EXCEPT !.pid = 0, !.stop_reply = 0]]
       /\ state' = [state EXCEPT ![a] = after[2]]
  /\ pidfile' = [pidfile EXCEPT ![a] = 0]
  /\ owed' = owed \ {services[a].stop_reply}
  /\ told' = IF services[a].stop_reply \in owed THEN told \cup {a} ELSE told
  /\ UNCHANGED <<up, connected, alive, users, asks, respawns, runs>>

\* Mutant: the slot of a package gone is freed whatever it runs.
SweptRunning == [a \in Apps |-> IF a \notin installed THEN Idle ELSE services[a]]

\* The table after the sweep has freed the slots of packages gone.
Swept == [a \in Apps |-> IF ~Running(a) /\ a \notin installed THEN Idle ELSE services[a]]

\* Mutant: an app that waits out a backoff is passed over.
MayAutostartFresh(a, s) ==
  /\ a \in enabled \cap installed
  /\ s.pid = 0 /\ ~s.failed /\ ~s.manual_stop /\ ~s.backoff
  /\ ~(s.started /\ a \in Commands)

\* What the sweep starts of its own accord, once its backoff is over.
MayAutostart(a, s) ==
  /\ a \in enabled \cap installed
  /\ s.pid = 0 /\ ~s.failed /\ ~s.manual_stop
  /\ ~(s.started /\ a \in Commands)

\* SIGKILL to the groups of the apps in K.
Killed(K) == [a \in Apps |-> IF a \in K THEN {} ELSE alive[a]]

\* The apps with a slot that the sweep starts again, the backoffs in W not
\* being over yet; the listed apps that want a slot; and the table once the
\* apps in A are about to be started.
Again(W) == {a \in Apps : Swept[a].used /\ MayAutostart(a, Swept[a]) /\ ~(Swept[a].backoff /\ a \in W)}
Listed == {a \in enabled \cap installed : ~Swept[a].used}
Readied(A) == [a \in Apps |-> IF a \in A THEN [Swept[a] EXCEPT !.used = TRUE, !.backoff = FALSE]
                              ELSE Swept[a]]

\* sweep_services: KILL to the stops in K, slots of removed packages freed,
\* then down the enable list, whose order decides who gets the free slots.
\* Spawns in F fail.
SweepWith(K, W, F) ==
  LET free == MAX_SERVICES - Cardinality({a \in Apps : Swept[a].used}) IN
  /\ up
  /\ \E new \in kSubset(Min({free, Cardinality(Listed)}), Listed) :
       Spawn(Again(W) \cup new, F, Readied(Again(W) \cup new), Killed(K))
  /\ told' = {a \in told : Swept[a].used}
  /\ UNCHANGED <<up, connected, users, asks, respawns, owed>>

Stopping == {a \in Apps : Running(a) /\ services[a].stopping}

Sweep ==
  \E K \in SUBSET Stopping, W \in SUBSET {a \in Apps : services[a].backoff},
     F \in SUBSET {a \in enabled \cap installed : ~Running(a)} : SweepWith(K, W, F)

----------------------------------------------------------------------------
(* The socket, rund itself, and the files others write.                    *)

\* The socket goes, and with it whoever waited for an answer.
Disconnect ==
  /\ up /\ connected
  /\ connected' = FALSE /\ owed' = {}
  /\ UNCHANGED <<up, services, files, alive, users, asks, respawns, runs, told>>

Connect ==
  /\ up /\ ~connected
  /\ connected' = TRUE
  /\ UNCHANGED <<up, services, files, alive, users, asks, respawns, owed, runs, told>>

\* rund dies.  Its apps do not.
Die ==
  /\ up /\ respawns < MaxRespawn
  /\ respawns' = respawns + 1
  /\ up' = FALSE /\ connected' = FALSE /\ owed' = {} /\ told' = {}
  /\ services' = [a \in Apps |-> Idle]
  /\ UNCHANGED <<files, alive, users, asks, runs>>

\* init respawns rund, and recover_services adopts what the pid files say is
\* alive and corrects what they say of the dead.
Respawn ==
  LET adopted == {a \in Apps : pidfile[a] \in alive[a]} IN
  /\ ~up
  /\ up' = TRUE
  /\ services' = [a \in Apps |->
       IF a \in adopted THEN [Idle EXCEPT !.used = TRUE, !.pid = pidfile[a], !.started = TRUE] ELSE Idle]
  /\ pidfile' = [a \in Apps |-> IF a \in adopted THEN pidfile[a] ELSE 0]
  /\ state' = [a \in Apps |-> IF a \in adopted THEN "running"
                               ELSE IF pidfile[a] # 0 THEN "stopped" ELSE state[a]]
  /\ UNCHANGED <<connected, alive, users, asks, respawns, owed, runs, told>>

\* The enable list and the packages change.
Edit(a) ==
  /\ \/ enabled' = (enabled \cup {a}) /\ UNCHANGED installed
     \/ enabled' = (enabled \ {a}) /\ UNCHANGED installed
     \/ installed' = (installed \cup {a}) /\ UNCHANGED enabled
     \/ installed' = (installed \ {a}) /\ UNCHANGED enabled
  /\ UNCHANGED <<up, connected, services, files, alive, asks, respawns, owed, runs, told>>

----------------------------------------------------------------------------
ServicesInit ==
  /\ up = TRUE /\ connected = FALSE
  /\ services = [a \in Apps |-> Idle]
  /\ pidfile = [a \in Apps |-> 0] /\ state = [a \in Apps |-> "none"]
  /\ alive = [a \in Apps |-> {}]
  /\ enabled \in SUBSET Apps /\ installed \in SUBSET Apps
  /\ asks = 0 /\ respawns = 0 /\ owed = {} /\ told = {}
  /\ runs = [a \in Apps |-> 0]

ServicesNext ==
  \/ \E a \in Apps : Start(a) \/ Stop(a) \/ Exit(a) \/ Reap(a) \/ Edit(a)
  \/ Sweep \/ Disconnect \/ Connect \/ Die \/ Respawn

ServicesSpec == ServicesInit /\ [][ServicesNext]_servicesVars

\* init respawns, the loop turns, and time passes: deadlines pass, and forks
\* succeed while the bound on them lasts.
Spent == {a \in Apps : runs[a] = MaxRun}
ServicesFairSpec ==
  /\ ServicesSpec
  /\ WF_servicesVars(Respawn) /\ WF_servicesVars(SweepWith(Stopping, {}, Spent))
  /\ \A a \in Apps : WF_servicesVars(Reap(a))

----------------------------------------------------------------------------
Slots == [used : BOOLEAN, pid : 0 .. MaxRun, started : BOOLEAN, restarts : 0 .. CRASH_MAX + 1,
          backoff : BOOLEAN, failed : BOOLEAN, stopping : BOOLEAN, manual_stop : BOOLEAN,
          stop_reply : 0 .. MaxAsk]

\* Every variable has its type, the table keeps its size, and an app that is
\* parked is not waiting to be restarted.
ServicesTypeOK ==
  /\ up \in BOOLEAN /\ connected \in BOOLEAN
  /\ services \in [Apps -> Slots] /\ Cardinality(Managed) <= MAX_SERVICES
  /\ \A a \in Apps : services[a].failed => ~services[a].backoff
  /\ pidfile \in [Apps -> 0 .. MaxRun]
  /\ state \in [Apps -> {"none", "starting", "running", "stopping", "stopped", "crashed", "failed"}]
  /\ alive \in [Apps -> SUBSET (1 .. MaxRun)]
  /\ enabled \subseteq Apps /\ installed \subseteq Apps
  /\ asks \in 0 .. MaxAsk /\ respawns \in 0 .. MaxRespawn
  /\ owed \subseteq 1 .. MaxAsk /\ told \subseteq Apps
  /\ runs \in [Apps -> 0 .. MaxRun]

\* rund knows every process of an app, and so there is never a second one:
\* through crashes, removed packages and deaths of rund, which leave the pid
\* file to tell the next one (svc_spawn, sweep_services, recover_services).
EveryProcessWatched ==
  \A a \in Apps : \A p \in alive[a] :
    IF up THEN services[a].pid = p ELSE pidfile[a] = p

\* "Stop means stopped, not asked": once a caller was told so, the app has no
\* process until somebody starts it by hand, its package goes, or rund dies
\* (handle_app_stop, svc_exited, the sweep's manual_stop).
StoppedMeansStopped == \A a \in told : alive[a] = {}

\* The files of an app tell what rund thinks, a failed start aside, which may
\* leave "starting" (svc_file).
SurfaceTrue ==
  up => \A a \in Apps :
    /\ pidfile[a] = services[a].pid
    /\ Running(a) => state[a] = IF services[a].stopping THEN "stopping" ELSE "running"
    /\ ~Running(a) => state[a] \notin {"running", "stopping"}
    /\ services[a].failed => state[a] = "failed"

\* An answer that is due belongs to a stop under way, so an exit will send it.
AnswerHasItsExit ==
  \A a \in Apps : services[a].stop_reply # 0 => Running(a) /\ services[a].stopping

\* "Every accepted request is answered exactly once" (rund.c:23).
OwedIsRemembered == \A r \in owed : \E a \in Apps : services[a].stop_reply = r

\* A stop ends, however deaf the app, and with it the wait for its answer.
StopEnds == \A a \in Apps : Running(a) /\ services[a].stopping ~> ~(Running(a) /\ services[a].stopping)

\* An app that is enabled and installed comes up by itself, again and again,
\* unless it was stopped, is parked, is a command that ran, or finds no slot.
Wanted(a) ==
  /\ up /\ a \in enabled \cap installed /\ HasSlot(a) /\ runs[a] < MaxRun
  /\ ~Running(a) /\ ~services[a].failed /\ ~services[a].manual_stop
  /\ ~(a \in Commands /\ services[a].started)
EnabledComesUp == \A a \in Apps : []<>~Wanted(a)
=============================================================================
