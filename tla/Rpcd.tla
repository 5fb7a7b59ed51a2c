-------------------------------- MODULE Rpcd --------------------------------
(***************************************************************************)
(* rpcd as a switchboard: the pending table that maps the ids of calls in  *)
(* flight back to their askers, the socket clients that come and go in a   *)
(* small array of slots, the page's session, and the methods running apps  *)
(* registered.  A connection, or a session of the page, is a party: slots  *)
(* are reused, parties are not.                                            *)
(*                                                                         *)
(* Socket queues are left out: a party reads what it was sent before it    *)
(* does anything else, or it is gone.  An id is not used again once its    *)
(* call is over (librpc's g.<pid>.<n>, the page's p.<n>); while it is in   *)
(* flight anybody may send it again.                                       *)
(***************************************************************************)
EXTENDS Integers, FiniteSets, FiniteSetsExt

CONSTANTS
  CallIds,             \* ids of calls
  Methods,             \* ext.<app>.<name> methods apps may register
  MAX_CLIENTS, MAX_PENDING, PER_CLIENT_PENDING,
  PAGE_PENDING,        \* WIRE_PENDING as rpcd counts it
  EXT_PER_CLIENT,
  MaxConn,             \* bound: connections accepted
  MaxSession           \* bound: sessions of the page

ASSUME RpcdAssumption ==
  /\ MAX_CLIENTS \in Nat /\ MAX_PENDING \in Nat /\ PER_CLIENT_PENDING \in Nat
  /\ PAGE_PENDING \in Nat /\ EXT_PER_CLIENT \in Nat
  /\ MaxConn \in Nat /\ MaxSession \in Nat
  /\ IsFiniteSet(CallIds) /\ IsFiniteSet(Methods)
  /\ Methods \cap {"rpcd", "rund", "page"} = {}

VARIABLES
  conn,        \* clients[s].fd: the connection in slot s, 0 = free
  conns,       \* connections accepted so far
  session,     \* the page's session, 0 = none (S.active)
  sessions,    \* sessions so far
  pend,        \* pending[]: for each id its entry, or NoEntry
  calls,       \* clients[s].pending
  rund,        \* slots whose client declared proc.run (is_rund)
  ext,         \* clients[s].ext
  used,        \* history: ids somebody has asked under
  owes,        \* history: for each party and id, its requests less its answers
  working,     \* history: <<party, id>> given to an executor that has neither
               \* answered nor been sent an rpc.cancel
  overlong     \* history: <<session of the page, id>> whose answer the wire could
               \* not carry

routerVars == <<conn, conns, session, sessions, pend, calls, rund, ext, used, owes, working, overlong>>

Slots   == 0 .. MAX_CLIENTS - 1
Page    == -1
Gone    == -2
NoEntry == [from |-> Gone, to |-> Gone, by |-> 0, at |-> 0]
Parties == 1 .. MaxConn \cup {-n : n \in 1 .. MaxSession}
Clients == {s \in Slots : conn[s] # 0}
Ends    == Clients \cup IF session = 0 THEN {} ELSE {Page}

\* The party now behind an end of an entry.
Who(end) == IF end = Page THEN -session ELSE IF end = Gone THEN 0 ELSE conn[end]

InFlight(i)    == pend[i] # NoEntry
EntriesFrom(e) == {i \in CallIds : InFlight(i) /\ pend[i].from = e}
Less(a, n)     == IF a > n THEN a - n ELSE 0

----------------------------------------------------------------------------
(* The pending table.                                                      *)

\* pend_del for a set of ids at once.
Delete(ids) ==
  /\ pend' = [i \in CallIds |-> IF i \in ids THEN NoEntry ELSE pend[i]]
  /\ calls' = [s \in Slots |-> Less(calls[s], Cardinality(EntriesFrom(s) \cap ids))]

\* One answer, or error, for each of these ids to whoever asked; a party
\* that is leaving is owed nothing more.
AnswerTo(ids, leaving) ==
  owes' = [w \in Parties |-> [i \in CallIds |->
    IF w = leaving THEN 0
    ELSE IF i \in ids /\ Who(pend[i].from) = w THEN owes[w][i] - 1 ELSE owes[w][i]]]

\* An rpc.cancel for each of these ids to whoever is executing it.
Told(ids, leaving) ==
  working' = {d \in working : d[1] # leaving /\ ~(d[2] \in ids /\ Who(pend[d[2]].to) = d[1])}

Nobody == 0

----------------------------------------------------------------------------
(* Connections.                                                            *)

\* accept: the lowest free slot, wiped.
Accept ==
  /\ conns < MaxConn
  /\ Clients # Slots
  /\ LET s == Min(Slots \ Clients) IN
       /\ conn' = [conn EXCEPT ![s] = conns + 1]
       /\ calls' = [calls EXCEPT ![s] = 0]
       /\ rund' = rund \ {s}
       /\ ext' = [ext EXCEPT ![s] = {}]
  /\ conns' = conns + 1
  /\ UNCHANGED <<session, sessions, pend, used, owes, working, overlong>>

\* Mutant: the entries a client asked for keep naming its slot.
DropClientKeepingAsker(s) ==
  LET orphans == {i \in CallIds : InFlight(i) /\ pend[i].to = s /\ pend[i].from # s} IN
  /\ s \in Clients
  /\ conn' = [conn EXCEPT ![s] = 0]
  /\ Delete(orphans) /\ AnswerTo(orphans, conn[s])
  /\ Told({i \in EntriesFrom(s) : pend[i].to # s}, conn[s])
  /\ rund' = rund \ {s}
  /\ ext' = [ext EXCEPT ![s] = {}]
  /\ UNCHANGED <<conns, session, sessions, used, overlong>>

\* drop_client: the calls it made lose their asker, the calls it executed
\* are answered for it.
DropClient(s) ==
  LET orphans == {i \in CallIds : InFlight(i) /\ pend[i].to = s /\ pend[i].from # s} IN
  /\ s \in Clients
  /\ conn' = [conn EXCEPT ![s] = 0]
  /\ pend' = [i \in CallIds |-> IF i \in EntriesFrom(s) THEN [pend[i] EXCEPT !.from = Gone]
                                ELSE IF i \in orphans THEN NoEntry ELSE pend[i]]
  /\ calls' = [t \in Slots |-> IF t = s THEN 0
                               ELSE Less(calls[t], Cardinality(EntriesFrom(t) \cap orphans))]
  /\ AnswerTo(orphans, conn[s])
  /\ Told({i \in EntriesFrom(s) : pend[i].to # s}, conn[s])
  /\ rund' = rund \ {s}
  /\ ext' = [ext EXCEPT ![s] = {}]
  /\ UNCHANGED <<conns, session, sessions, used, overlong>>

\* route_serve: first come, first served.
Serve(s, m) ==
  /\ s \in Clients
  /\ \A t \in Clients : m \notin ext[t]
  /\ Cardinality(ext[s]) < EXT_PER_CLIENT
  /\ ext' = [ext EXCEPT ![s] = @ \cup {m}]
  /\ UNCHANGED <<conn, conns, session, sessions, pend, calls, rund, used, owes, working, overlong>>

ServeProc(s) ==
  /\ s \in Clients \ rund
  /\ rund' = rund \cup {s}
  /\ UNCHANGED <<conn, conns, session, sessions, pend, calls, ext, used, owes, working, overlong>>

----------------------------------------------------------------------------
(* The page's session.                                                     *)

\* cancel_all: executors are told, local askers get UNAVAILABLE.
SessionGone ==
  LET all == {i \in CallIds : InFlight(i)} IN
  /\ Delete(all)
  /\ AnswerTo({i \in all : pend[i].from # Page}, -session)
  /\ Told({i \in all : pend[i].to # Page}, -session)

PageGone ==
  /\ session # 0
  /\ SessionGone
  /\ session' = 0
  /\ UNCHANGED <<conn, conns, sessions, rund, ext, used, overlong>>

\* handle_hello with a new token; session_down does nothing without one.
PageSession ==
  /\ sessions < MaxSession
  /\ IF session # 0 THEN SessionGone ELSE UNCHANGED <<pend, calls, owes, working>>
  /\ sessions' = sessions + 1
  /\ session' = sessions + 1
  /\ UNCHANGED <<conn, conns, rund, ext, used, overlong>>

----------------------------------------------------------------------------
(* Requests.                                                               *)

Overloaded(from) ==
  \/ Cardinality({i \in CallIds : InFlight(i)}) >= MAX_PENDING
  \/ from # Page /\ calls[from] >= PER_CLIENT_PENDING
  \/ from = Page /\ Cardinality(EntriesFrom(Page)) >= PAGE_PENDING

\* Where a method goes: find_rund, ext_find, or up the wire; the page's own
\* requests never go back to the page.
Serving(target) ==
  CASE target = "rund"     -> Clients \cap rund
    [] target \in Methods  -> {s \in Clients : target \in ext[s]}
    [] target = "page"     -> {}
    [] OTHER               -> {}

Executor(from, target) ==
  IF target = "page" THEN IF from # Page /\ session # 0 THEN {Page} ELSE {}
  ELSE IF Serving(target) = {} THEN {} ELSE {Min(Serving(target))}

Enter(from, i, to) ==
  /\ pend' = [pend EXCEPT ![i] = [from |-> from, to |-> to, by |-> Who(from), at |-> Who(to)]]
  /\ calls' = IF from = Page THEN calls ELSE [calls EXCEPT ![from] = @ + 1]
  /\ working' = working \cup {<<Who(to), i>>}
  /\ owes' = [owes EXCEPT ![Who(from)][i] = @ + 1]

\* route_request.  rpc.* and stream.* are rpcd's own; they and the refused
\* ones are answered at once.
Request(from, i, target) ==
  /\ from \in Ends
  /\ InFlight(i) \/ i \notin used
  /\ used' = used \cup {i}
  /\ IF target = "rpcd" \/ InFlight(i) \/ Overloaded(from) \/ Executor(from, target) = {}
     THEN UNCHANGED <<pend, calls, owes, working>>
     ELSE \E to \in Executor(from, target) : Enter(from, i, to)
  /\ UNCHANGED <<conn, conns, session, sessions, rund, ext, overlong>>

\* route_cancel: only the asker may cancel, and the entry stays.
Cancel(from, i) ==
  /\ from \in Ends
  /\ InFlight(i) /\ pend[i].from = from
  /\ Told({i}, Nobody)
  /\ UNCHANGED <<conn, conns, session, sessions, pend, calls, rund, ext, used, owes, overlong>>

\* route_response: only the executor's answer counts.  wire_send_body throws
\* away an answer too long for a frame to the page, which is then owed it.
RouteResponse(via, i) ==
  /\ via \in Ends
  /\ IF InFlight(i) /\ pend[i].to = via
     THEN /\ Delete({i})
          /\ \/ AnswerTo({i}, Nobody) /\ UNCHANGED overlong
             \/ pend[i].from = Page /\ overlong' = overlong \cup {<<-session, i>>} /\ UNCHANGED owes
     ELSE UNCHANGED <<pend, calls, owes, overlong>>
  /\ working' = working \ {<<Who(via), i>>}
  /\ UNCHANGED <<conn, conns, session, sessions, rund, ext, used>>

\* sweep: the deadline plus grace of an entry has passed.
Expire(i) ==
  /\ InFlight(i)
  /\ AnswerTo({i}, Nobody) /\ Delete({i})
  /\ Told({i}, Nobody)
  /\ UNCHANGED <<conn, conns, session, sessions, rund, ext, used, overlong>>

----------------------------------------------------------------------------
RouterInit ==
  /\ conn = [s \in Slots |-> 0] /\ conns = 0
  /\ session = 0 /\ sessions = 0
  /\ pend = [i \in CallIds |-> NoEntry]
  /\ calls = [s \in Slots |-> 0]
  /\ rund = {}
  /\ ext = [s \in Slots |-> {}]
  /\ owes = [w \in Parties |-> [i \in CallIds |-> 0]]
  /\ used = {} /\ working = {} /\ overlong = {}

Targets == Methods \cup {"rpcd", "rund", "page"}

RouterNext ==
  \/ Accept \/ PageGone \/ PageSession
  \/ \E s \in Slots : DropClient(s) \/ ServeProc(s)
  \/ \E s \in Slots, m \in Methods : Serve(s, m)
  \/ \E e \in Slots \cup {Page}, i \in CallIds :
       \/ Cancel(e, i) \/ RouteResponse(e, i)
       \/ \E t \in Targets : Request(e, i, t)
  \/ \E i \in CallIds : Expire(i)

RouterSpec == RouterInit /\ [][RouterNext]_routerVars

\* The main loop sweeps at least twice a second.
RouterFairSpec == RouterSpec /\ \A i \in CallIds : WF_routerVars(Expire(i))

----------------------------------------------------------------------------
Entries == [from : Slots \cup {Page, Gone}, to : Slots \cup {Page},
            by : Parties, at : Parties] \cup {NoEntry}

\* Every variable has its type, and the caps on calls in flight hold.
RouterTypeOK ==
  /\ conn \in [Slots -> 0 .. MaxConn] /\ conns \in 0 .. MaxConn
  /\ session \in 0 .. MaxSession /\ sessions \in 0 .. MaxSession
  /\ pend \in [CallIds -> Entries]
  /\ calls \in [Slots -> Nat]
  /\ rund \subseteq Clients
  /\ ext \in [Slots -> SUBSET Methods]
  /\ used \subseteq CallIds /\ owes \in [Parties -> [CallIds -> Int]]
  /\ working \subseteq Parties \X CallIds /\ overlong \subseteq Parties \X CallIds
  /\ Cardinality({i \in CallIds : InFlight(i)}) <= MAX_PENDING
  /\ Cardinality(EntriesFrom(Page)) <= PAGE_PENDING

LiveParties == {Who(e) : e \in Ends}

\* Every request of a party still there is answered exactly once or still in
\* flight in that party's name: no answer is lost, doubled or handed to a
\* client that inherited a slot (drop_client's -2, route_response) -- but for one
\* to the page that is longer than a frame, which it never gets.
Awaits(w, i) == InFlight(i) /\ Who(pend[i].from) = w
OneAnswerEach ==
  \A w \in LiveParties, i \in CallIds :
    owes[w][i] = IF Awaits(w, i) \/ <<w, i>> \in overlong THEN 1 ELSE 0

\* The per-client count is the number of entries naming the client, so a
\* client can neither be locked out by calls long over nor exceed its share
\* (pend_add, pend_del, drop_client).
LedgerExact ==
  \A s \in Clients : calls[s] = Cardinality(EntriesFrom(s)) /\ calls[s] <= PER_CLIENT_PENDING

\* An entry somebody waits for names the very parties that asked and that
\* were asked, whatever slots were freed and reused meanwhile.
EntriesNameParties ==
  \A i \in CallIds : InFlight(i) /\ pend[i].from # Gone =>
    Who(pend[i].from) = pend[i].by /\ Who(pend[i].to) = pend[i].at

\* Nobody works for nothing unknowingly: an executor still at a call that is
\* no longer in the table, or whose asker left, was sent an rpc.cancel.
AbandonedWorkIsCancelled ==
  \A w \in LiveParties, i \in CallIds :
    <<w, i>> \in working => InFlight(i) /\ pend[i].at = w /\ pend[i].from # Gone

\* A method has one server: the call path is unambiguous (route_serve).
OneServer == \A s, t \in Clients : s # t => ext[s] \cap ext[t] = {}

\* What the router promises: one answer for each call it takes, if the wire can
\* carry it, while the table names its parties, the counts kept of it agree with
\* it, a method has one server, and whoever works for nobody was told.
RouterExact == OneAnswerEach /\ LedgerExact /\ EntriesNameParties /\ OneServer /\ AbandonedWorkIsCancelled

\* Every call ends, if only by the sweep.
EveryCallEnds == \A i \in CallIds : InFlight(i) ~> ~InFlight(i)
=============================================================================
