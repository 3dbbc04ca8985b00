--------------------------- MODULE LogicalRouter ---------------------------
(***************************************************************************)
(* Routing to one logical actor: logicalactor/router.go and                *)
(* router_actor.go on top of Directory.  Every node has a client that      *)
(* resolves the owner and sends a request to the owner's router actor, a   *)
(* router actor that acquires the ownership and activates the actor, and   *)
(* at most one activation, which renews the lease and deletes it when it   *)
(* is destroyed.  Nodes crash and restart as new instances, views of the   *)
(* membership lag behind or are wrong, leases lapse, Redis fails.          *)
(***************************************************************************)
EXTENDS Directory

CONSTANTS
  Caller,        \* nodes whose actors call the logical actor
  MaxRequests,   \* bound: requests of a caller
  MaxFaults,     \* bound: crashes, wrong views, lapses and Redis failures
  MaxStops       \* bound: activations that stop

ASSUME RouterAssumption ==
  /\ Caller \subseteq Node /\ MaxRequests \in Nat /\ MaxFaults \in Nat /\ MaxStops \in Nat

maxOwnerResolveAttempts == 3
maxRouteForwards == 3

\* A request in the hands of a router: whose it is, and how often it was forwarded.
JobType == [from : Node, id : 0..MaxRequests, count : 0..maxRouteForwards]
ASSUME JobAssumption == None \notin JobType

VARIABLES
  inst,          \* per node: its current instance (StartedAt)
  up,            \* nodes that run
  view,          \* per node and member: the instance discovery reports, 0 none
  client,        \* per node: its client
  request,       \* per node: its client's request
  router,        \* per node: the request its router works on
  active,        \* per node: the activation of the actor
  renewing,      \* nodes whose activation has its renewal ticker running
  lost,          \* nodes whose lease lapsed or fell to a client's stale view
  faults, stops  \* counters of the bounds

nodeVars == <<inst, up, view>>
clientVars == <<client, request>>
actorVars == <<active, renewing>>
boundVars == <<lost, faults, stops>>
vars == <<directoryVars, nodeVars, clientVars, router, actorVars, boundVars>>

Client(n) == <<"client", n>>
Router(n) == <<"router", n>>
Actor(n) == <<"actor", n>>
Self(n) == [node |-> n, inst |-> inst[n]]
NoRequest == [at |-> None, id |-> 0, count |-> 0]
Quiet(c) == [pc |-> "idle", attempt |-> 0, left |-> c.left]
Job(n) == [from |-> n, id |-> request[n].id, count |-> request[n].count]

Init ==
  /\ DirectoryInit
  /\ inst = [n \in Node |-> 1] /\ up = Node
  /\ view = [n \in Node |-> [m \in Node |-> 1]]
  /\ client = [n \in Node |-> [pc |-> "idle", attempt |-> 0, left |-> MaxRequests]]
  /\ request = [n \in Node |-> NoRequest]
  /\ router = [n \in Node |-> None]
  /\ active = [n \in Node |-> "none"] /\ renewing = {}
  /\ lost = {} /\ faults = 0 /\ stops = 0

Start(t, op, arg) == call' = [call EXCEPT ![t] = Call(op, arg)]
Finish(t) == call' = [call EXCEPT ![t] = Idle]
Fault == faults < MaxFaults /\ faults' = faults + 1
storeUnchanged == UNCHANGED <<owner, epoch, cache, events>>

-----------------------------------------------------------------------------
(* A client: Tell, Ask or Forward of the Router.                           *)

IsNodeAlive(n, o) == view[n][o.node] = o.inst

\* resolveOwner begins an attempt.
Resolve(n) ==
  /\ n \in up \cap Caller /\ client[n].pc = "idle" /\ client[n].left > 0
  /\ client' = [client EXCEPT ![n] = [pc |-> "get", attempt |-> 1, left |-> @.left - 1]]
  /\ Start(Client(n), "get", None)
  /\ storeUnchanged
  /\ UNCHANGED <<nodeVars, request, router, actorVars, boundVars>>

\* Mutant of NextAttempt: the attempts are not counted.
NextAttemptEndless(n) ==
  /\ client' = [client EXCEPT ![n].pc = "get"]
  /\ Start(Client(n), "get", None)

\* The next attempt, or the last error is returned.
NextAttempt(n) ==
  IF client[n].attempt < maxOwnerResolveAttempts
  THEN /\ client' = [client EXCEPT ![n].pc = "get", ![n].attempt = @ + 1]
       /\ Start(Client(n), "get", None)
  ELSE client' = [client EXCEPT ![n] = Quiet(@)] /\ Finish(Client(n))

\* prepareRoute: the request goes to the router actor of the owner, unless
\* the owner is dead; then its entry is deleted.
UseOwner(n, o) ==
  IF IsNodeAlive(n, o)
  THEN /\ client' = [client EXCEPT ![n].pc = "sent", ![n].attempt = 0]
       /\ request' = [request EXCEPT ![n] = [at |-> o.node, id |-> client[n].left, count |-> 0]]
       /\ Finish(Client(n))
  ELSE /\ client' = [client EXCEPT ![n].pc = "delete"]
       /\ Start(Client(n), "delete", o)
       /\ UNCHANGED request

\* The round robin of a placement strategy may stand at any member of the view.
Candidates(n) == {[node |-> m, inst |-> view[n][m]] : m \in {k \in Node : view[n][k] # 0}}

\* placementFor: pick a node and acquire the ownership in its name.
PlacementFor(n) ==
  \/ \E candidate \in Candidates(n) :
       /\ Start(Client(n), "acquire", candidate)
       /\ client' = [client EXCEPT ![n].pc = "place"]
  \/ Candidates(n) = {} /\ NextAttempt(n)

\* resolveOwner: GetOwner, AcquireOwner or DeleteOwner has returned.
ResolveOwner(n) ==
  LET c == call[Client(n)] IN
  /\ client[n].pc \in {"get", "place", "delete"} /\ Returned(Client(n))
  /\ \/ c.step = "error" /\ NextAttempt(n) /\ UNCHANGED request
     \/ c.step = "done" /\ client[n].pc = "delete" /\ NextAttempt(n) /\ UNCHANGED request
     \/ c.step = "done" /\ client[n].pc = "get" /\ c.got = None /\ PlacementFor(n) /\ UNCHANGED request
     \/ c.step = "done" /\ client[n].pc # "delete" /\ c.got # None /\ UseOwner(n, c.got)
  /\ storeUnchanged
  /\ UNCHANGED <<nodeVars, router, actorVars, boundVars>>

\* The answer to a job, nil or an error, ends the wait of its client.
Waiting(job) == client[job.from].pc = "sent" /\ client[job.from].left = job.id
Answer(job) == client' = IF Waiting(job) THEN [client EXCEPT ![job.from] = Quiet(@)] ELSE client

\* A request is lost with a connection (external); an Ask times out.
LoseRequest(n) ==
  /\ request[n].at \notin {None, n}
  /\ request' = [request EXCEPT ![n] = NoRequest]
  /\ Answer(Job(n))
  /\ UNCHANGED <<directoryVars, nodeVars, router, actorVars, boundVars>>

\* The client goes on while a router works on its request: it was a Tell, or
\* the Ask timed out.
GoesOn(n) ==
  /\ client[n].pc = "sent" /\ request[n].at = None
  /\ client' = [client EXCEPT ![n] = Quiet(@)]
  /\ UNCHANGED <<directoryVars, nodeVars, request, router, actorVars, boundVars>>

-----------------------------------------------------------------------------
(* The router actor of a node: routeMessage.                               *)

\* The forward limit is reached, or the actor is registered here: it handles
\* the request, or it is closing and refuses it.
RouteLocal(m, n) ==
  /\ m \in up /\ router[m] = None /\ request[n].at = m
  /\ request[n].count >= maxRouteForwards \/ active[m] # "none"
  /\ request' = [request EXCEPT ![n] = NoRequest]
  /\ Answer(Job(n))
  /\ UNCHANGED <<directoryVars, nodeVars, router, actorVars, boundVars>>

\* The actor is not here: acquire the ownership before activating it.
RouteAcquire(m, n) ==
  /\ m \in up /\ router[m] = None /\ request[n].at = m
  /\ request[n].count < maxRouteForwards /\ active[m] = "none"
  /\ router' = [router EXCEPT ![m] = Job(n)]
  /\ request' = [request EXCEPT ![n] = NoRequest]
  /\ Start(Router(m), "acquire", Self(m))
  /\ storeUnchanged
  /\ UNCHANGED <<nodeVars, client, actorVars, boundVars>>

\* AcquireOwner failed: the error is the answer.
RouteFails(m) ==
  /\ router[m] # None /\ call[Router(m)].step = "error"
  /\ Answer(router[m])
  /\ router' = [router EXCEPT ![m] = None]
  /\ Finish(Router(m))
  /\ storeUnchanged
  /\ UNCHANGED <<nodeVars, request, actorVars, boundVars>>

\* Another node is the owner: forwardToOwner.  A client has one request on its
\* way: of an old one that is forwarded and a newer one, the old one is lost.
ForwardToOwner(m) ==
  LET c == call[Router(m)] IN
  /\ router[m] # None /\ c.op = "acquire" /\ c.step = "done" /\ ~c.ok
  /\ LET n == router[m].from IN
       IF request[n].at = None
       THEN request' = [request EXCEPT ![n] = [at |-> c.got.node, id |-> router[m].id,
                                               count |-> router[m].count + 1]]
       ELSE UNCHANGED request
  /\ router' = [router EXCEPT ![m] = None]
  /\ Finish(Router(m))
  /\ storeUnchanged
  /\ UNCHANGED <<nodeVars, client, actorVars, boundVars>>

\* The ownership is here: activateActor spawns the actor, whose Init starts
\* the renewal, and it gets the request.
ActivateActor(m) ==
  LET c == call[Router(m)] IN
  /\ router[m] # None /\ c.op = "acquire" /\ c.step = "done" /\ c.ok
  /\ active' = [active EXCEPT ![m] = "running"] /\ renewing' = renewing \cup {m}
  /\ Answer(router[m])
  /\ router' = [router EXCEPT ![m] = None]
  /\ Finish(Router(m))
  /\ storeUnchanged
  /\ UNCHANGED <<nodeVars, request, boundVars>>

\* activateActor fails (no factory, the system stops): the ownership is
\* given back before the error is the answer.
ActivateFails(m) ==
  LET c == call[Router(m)] IN
  /\ router[m] # None /\ c.op = "acquire" /\ c.step = "done" /\ c.ok
  /\ Fault
  /\ Start(Router(m), "delete", Self(m))
  /\ storeUnchanged
  /\ UNCHANGED <<nodeVars, clientVars, router, actorVars, lost, stops>>

CleanedUp(m) ==
  /\ router[m] # None /\ call[Router(m)].op = "delete" /\ call[Router(m)].step = "done"
  /\ Answer(router[m])
  /\ router' = [router EXCEPT ![m] = None]
  /\ Finish(Router(m))
  /\ storeUnchanged
  /\ UNCHANGED <<nodeVars, request, actorVars, boundVars>>

-----------------------------------------------------------------------------
(* The activation: ownedActor.                                             *)

\* renewOwnerScript: node and instance must both match.
Renewable(m) == owner = Self(m)

\* The ticker finds that the lease is gone: RenewOwner returns false, and the
\* renewal ends.  The actor goes on.  (A successful renewal changes nothing
\* here; a failed one is tried again.)
RenewOwner(m) ==
  /\ active[m] = "running" /\ m \in renewing
  /\ ~Renewable(m)
  /\ renewing' = renewing \ {m}
  /\ UNCHANGED <<directoryVars, nodeVars, clientVars, router, active, boundVars>>

\* The actor stops: Destroy begins with DeleteOwner.
ActorStops(m) ==
  /\ active[m] = "running" /\ stops < MaxStops
  /\ stops' = stops + 1
  /\ active' = [active EXCEPT ![m] = "destroying"] /\ renewing' = renewing \ {m}
  /\ Start(Actor(m), "delete", Self(m))
  /\ storeUnchanged
  /\ UNCHANGED <<nodeVars, clientVars, router, lost, faults>>

\* Destroy of the business actor is over and the process is removed.
Destroyed(m) ==
  /\ active[m] = "destroying" /\ Returned(Actor(m))
  /\ active' = [active EXCEPT ![m] = "none"]
  /\ Finish(Actor(m))
  /\ storeUnchanged
  /\ UNCHANGED <<nodeVars, clientVars, router, renewing, boundVars>>

-----------------------------------------------------------------------------
(* Scripts that change the owner, and the ghost that explains its loss.    *)

\* A router that acquires holds the lease again.  A client that places by a
\* stale view writes an old instance of the node over the current one.
Acquire(t) ==
  LET o == call[t].arg
      overwrites == t[1] = "client" /\ owner = Self(o.node) /\ o # owner IN
  /\ AcquireOwnerFromRedis(t)
  /\ lost' = CASE t[1] = "router" -> lost \ {Home(t)}
              [] overwrites -> lost \cup {o.node}
              [] OTHER -> lost
  /\ UNCHANGED <<nodeVars, clientVars, router, actorVars, faults, stops>>

\* A client deletes the entry of an instance that is running: its verdict was
\* wrong, the view it rests on is behind.
Delete(t) ==
  LET o == call[t].arg IN
  /\ DeleteOwnerFromRedis(t)
  /\ lost' = IF t[1] = "client" /\ o.node \in up /\ o = Self(o.node) THEN lost \cup {o.node} ELSE lost
  /\ UNCHANGED <<nodeVars, clientVars, router, actorVars, faults, stops>>

\* A lease runs out: by itself when its holder is gone or stopped renewing it,
\* otherwise by a fault (a pause, an unreachable Redis).
Abandoned(o) == o.node \notin up \/ o # Self(o.node) \/ (active[o.node] = "running" /\ o.node \notin renewing)

Lapse ==
  /\ LeaseExpires
  /\ IF Abandoned(owner) THEN UNCHANGED faults ELSE Fault
  /\ lost' = lost \cup {owner.node}
  /\ UNCHANGED <<nodeVars, clientVars, router, actorVars, stops>>

Operation(t) == OperationStep(t) /\ UNCHANGED <<nodeVars, clientVars, router, actorVars, boundVars>>
Cached(n) == CacheStep(n) /\ UNCHANGED <<nodeVars, clientVars, router, actorVars, boundVars>>

-----------------------------------------------------------------------------
(* The environment.                                                        *)

RedisFails(t) ==
  /\ ScriptFails(t) /\ Fault
  /\ UNCHANGED <<nodeVars, clientVars, router, actorVars, lost, stops>>

\* A node crashes: all it holds in memory is gone, and the requests with it.
Crash(m) ==
  LET jobs == {Job(n) : n \in {k \in Node : request[k].at = m}} \cup ({router[m]} \ {None})
      orphans == {j.from : j \in {k \in jobs : Waiting(k)}} IN
  /\ m \in up /\ Fault
  /\ up' = up \ {m}
  /\ request' = [n \in Node |-> IF n = m \/ request[n].at = m THEN NoRequest ELSE request[n]]
  /\ client' = [n \in Node |-> IF n = m \/ n \in orphans
                               THEN Quiet(client[n]) ELSE client[n]]
  /\ router' = [router EXCEPT ![m] = None]
  /\ active' = [active EXCEPT ![m] = "none"] /\ renewing' = renewing \ {m}
  /\ cache' = [cache EXCEPT ![m] = None] /\ events' = [events EXCEPT ![m] = 0]
  /\ call' = [t \in Task |-> IF Home(t) = m THEN Idle ELSE call[t]]
  /\ lost' = lost \ {m}
  /\ UNCHANGED <<owner, epoch, inst, view, stops>>

Restart(m) ==
  /\ m \notin up /\ inst[m] < MaxInst
  /\ up' = up \cup {m}
  /\ inst' = [inst EXCEPT ![m] = @ + 1]
  /\ UNCHANGED <<directoryVars, view, clientVars, router, actorVars, boundVars>>

\* Discovery: the view of n catches up with m.
Discover(n, m) ==
  LET now == IF m \in up THEN inst[m] ELSE 0 IN
  /\ view[n][m] # now
  /\ view' = [view EXCEPT ![n][m] = now]
  /\ UNCHANGED <<directoryVars, inst, up, clientVars, router, actorVars, boundVars>>

\* Discovery drops a member that runs: a failed health check, or a watcher
\* that clears the entries of its successor.
Forget(n, m) ==
  /\ view[n][m] # 0 /\ m \in up /\ Fault
  /\ view' = [view EXCEPT ![n][m] = 0]
  /\ UNCHANGED <<directoryVars, inst, up, clientVars, router, actorVars, lost, stops>>

-----------------------------------------------------------------------------
ClientStep(n) == Resolve(n) \/ ResolveOwner(n)
RouterStep(m) ==
  \/ \E n \in Node : RouteLocal(m, n) \/ RouteAcquire(m, n)
  \/ RouteFails(m) \/ ForwardToOwner(m) \/ ActivateActor(m) \/ ActivateFails(m) \/ CleanedUp(m)
ActorStep(m) == RenewOwner(m) \/ ActorStops(m) \/ Destroyed(m)

Next ==
  \/ \E n \in Node : ClientStep(n) \/ LoseRequest(n) \/ GoesOn(n) \/ RouterStep(n) \/ ActorStep(n)
  \/ \E t \in Task : Acquire(t) \/ Delete(t) \/ Operation(t) \/ RedisFails(t)
  \/ Lapse
  \/ \E n \in Node : Cached(n) \/ Crash(n) \/ Restart(n)
  \* Only clients read the views.
  \/ \E n \in Caller, m \in Node : Discover(n, m) \/ Forget(n, m)

Spec == Init /\ [][Next]_vars

\* Goroutines and actors are scheduled, Redis answers, and a request that no
\* running router has is lost in the end.
Fairness ==
  /\ \A n \in Node : WF_vars(ResolveOwner(n)) /\ WF_vars(RouterStep(n)) /\ WF_vars(LoseRequest(n))
  /\ \A t \in Task : WF_vars(Acquire(t) \/ Delete(t) \/ Operation(t))

FairSpec == Spec /\ Fairness

-----------------------------------------------------------------------------
\* Two nodes run the actor at once only when one of them lost its lease, by a
\* lapse or by a client that acted on a stale view (it deleted a live owner as
\* dead, or placed the actor on an old instance): an activation that did not is
\* the owner in Redis.  Acquiring, deleting dead instances, restarts and the
\* deletion by Destroy never take the lease of a live owner.
SingleActivation ==
  \A n \in Node : active[n] = "running" /\ n \notin lost => owner = Self(n)

\* Every request comes to an end: it is handled, refused or lost, and neither
\* the resolution (maxOwnerResolveAttempts) nor forwarding goes on for ever.
RequestsEnd == \A n \in Node : client[n].pc # "idle" ~> client[n].pc = "idle"

TypeOK ==
  /\ DirectoryTypeOK
  /\ inst \in [Node -> 1..MaxInst] /\ up \subseteq Node
  /\ view \in [Node -> [Node -> 0..MaxInst]]
  /\ client \in [Node -> [pc : {"idle", "get", "place", "delete", "sent"},
                          attempt : 0..maxOwnerResolveAttempts, left : 0..MaxRequests]]
  /\ request \in [Node -> [at : Node \cup {None}, id : 0..MaxRequests, count : 0..maxRouteForwards]]
  /\ router \in [Node -> JobType \cup {None}]
  /\ active \in [Node -> {"none", "running", "destroying"}]
  /\ renewing \subseteq Node /\ lost \subseteq Node
  /\ faults \in 0..MaxFaults /\ stops \in 0..MaxStops
=============================================================================
