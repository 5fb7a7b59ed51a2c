------------------------------ MODULE MCDaemon ------------------------------
(* The daemons of the guest beside the wire, one part at a time: the byte  *)
(* queue of rpcd's stream lane, rund's services, and its jobs and shells:   *)
(* two jobs at once ("pair"), two that find one slot ("crowd"), and shells. *)
EXTENDS OutQueue, RundJobs

VARIABLE part

\* One slot, and jobs that say more; the connection stands.
Crowd == INSTANCE RundJobs WITH MAX_JOBS <- 1, MaxSay <- 2, MaxLoss <- 0

ASSUME DaemonAssumption == RundServicesAssumption /\ RundJobsAssumption

\* One beginning of the part that does not run.
DaemonInit ==
  /\ part \in {"lane", "rund", "pair", "crowd", "shells"}
  /\ Init /\ ServicesInit /\ JobsInit
  /\ part = "rund" \/ (enabled = {} /\ installed = {})

\* The requests of a part.
Only(calls) == \A c \in Calls \ calls : asked'[c] = 0

DaemonNext ==
  /\ UNCHANGED part
  /\ \/ part = "lane" /\ Next /\ UNCHANGED <<servicesVars, jobsVars>>
     \/ part = "rund" /\ ServicesNext /\ UNCHANGED <<vars, jobsVars>>
     \/ part = "pair" /\ JobsNext /\ Only(Calls \ Shells) /\ UNCHANGED <<vars, servicesVars>>
     \/ part = "crowd" /\ Crowd!JobsNext /\ Only(Calls \ Shells) /\ UNCHANGED <<vars, servicesVars>>
     \/ part = "shells" /\ Crowd!JobsNext /\ Only(Shells) /\ UNCHANGED <<vars, servicesVars>>

\* init respawns rund, whose loop turns and whose timers fire; the lane's peer
\* reads on and poll reports a writable descriptor.  No process need end.
DaemonSpec ==
  /\ DaemonInit /\ [][DaemonNext]_<<part, vars, servicesVars, jobsVars>>
  /\ WF_vars(part = "lane" /\ Flush) /\ WF_vars(part = "lane" /\ PeerReads)
  /\ WF_servicesVars(part = "rund" /\ Respawn)
  /\ WF_servicesVars(part = "rund" /\ SweepWith(Stopping, {}, Spent))
  /\ \A a \in Apps : WF_servicesVars(part = "rund" /\ Reap(a))
  /\ WF_jobsVars(part \in {"pair", "crowd"} /\ (Leave \/ FreeJobs))
  /\ \A c \in Calls \ Shells : WF_jobsVars(part \in {"pair", "crowd"} /\ (Setsid(c) \/ TimeOut(c) \/ Read(c)))

\* Calls are interchangeable: what holds for one of them holds for each.
AnyJob == CHOOSE c \in Calls \ Shells : TRUE
\* Enabled apps come up and every job comes to an end: see RundServices and RundJobs.
RundKeepsUp == EnabledComesUp /\ JobEnds(AnyJob)
\* See RundJobs.
CancelEnds == CancelTakes(AnyJob)
=============================================================================
