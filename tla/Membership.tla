----------------------------- MODULE Membership -----------------------------
(***************************************************************************)
(* Cluster membership over Consul (cluster/member/consul).  Nodes join and *)
(* leave with registration.go, whose keeper keeps the TTL check passing;   *)
(* an observer's watcher.go follows the catalog with one goroutine and     *)
(* each service with another, and Members reads what they cached.  Consul  *)
(* is external: the agent's registrations, their checks and long polls     *)
(* that return at a change or after WaitTime with the content of the       *)
(* moment.                                                                 *)
(***************************************************************************)
EXTENDS Naturals, Sequences, SequencesExt

CONSTANTS
  Service,      \* service names (kinds of nodes)
  Instance,     \* nodes
  ServiceOf,    \* node -> its service
  MaxChanges,   \* bound on Join, Leave and crashes
  MaxErrors,    \* bound on failing calls of Consul
  MaxWatchers   \* bound on the service watchers started

Watcher == 1..MaxWatchers
NoWatcher == 0

VARIABLES
  registered,   \* Consul: nodes with a registration
  passing,      \* Consul: nodes whose TTL check passes
  keepers,      \* nodes with a keeper (registration.keepers)
  leaving,      \* nodes in leave between the keeper's end and ServiceDeregister
  changes, errors,
  catalog,      \* the watcher's list from its last poll, if not yet reconciled
  workers,      \* watchCatalog's workers: service -> watcher
  watchers,     \* the service watchers, each with service, step and fetched nodes
  caches        \* service -> cached nodes ({} where there is no entry)

ownerVars == <<registered, passing, keepers, leaving, changes>>
memberVars == <<registered, passing, keepers, leaving, changes, errors,
                catalog, workers, watchers, caches>>
NotPolled == [polled |-> FALSE, list |-> {}]

MemberTypeOK ==
  /\ passing \subseteq registered /\ registered \subseteq Instance
  /\ keepers \subseteq Instance /\ leaving \subseteq Instance \ keepers
  /\ catalog \in [polled : BOOLEAN, list : SUBSET Service]
  /\ workers \in [Service -> Watcher \cup {NoWatcher}]
  /\ \A i \in DOMAIN watchers :
       watchers[i] \in [service : Service, cancelled : BOOLEAN, fetched : SUBSET Instance,
                        step : {"check", "poll", "set", "delete", "ended"}]
  /\ caches \in [Service -> SUBSET Instance]

MemberInit ==
  /\ registered = {} /\ passing = {} /\ keepers = {} /\ leaving = {}
  /\ changes = 0 /\ errors = 0
  /\ catalog = NotPolled /\ workers = [s \in Service |-> NoWatcher] /\ watchers = <<>>
  /\ caches = [s \in Service |-> {}]

-----------------------------------------------------------------------------
(* registration.go, for each node; a node calls Join and Leave in turn.    *)

\* join: register (a new check is critical), then start a keeper unless one
\* runs.  Where ServiceRegister fails nothing happens.
Join(n) ==
  /\ changes < MaxChanges /\ changes' = changes + 1
  /\ n \notin leaving
  /\ registered' = registered \cup {n}
  /\ passing' = passing \ {n}
  /\ keepers' = keepers \cup {n}
  /\ UNCHANGED <<leaving, errors, catalog, workers, watchers, caches>>

\* runKeeper and keepAlive, whose first update comes at once.
KeepAlive(n) ==
  /\ n \in keepers \cap (registered \ passing)
  /\ passing' = passing \cup {n}
  /\ UNCHANGED <<registered, keepers, leaving, changes, errors, catalog, workers, watchers, caches>>

\* UpdateTTL fails for longer than the TTL, or even until Consul removes the
\* registration: keepAlive logs the errors and never registers again.
KeepAliveFails(n) ==
  /\ errors < MaxErrors /\ errors' = errors + 1
  /\ n \in keepers \cap registered
  /\ passing' = passing \ {n}
  /\ registered' \in {registered, registered \ {n}}
  /\ UNCHANGED <<keepers, leaving, changes, catalog, workers, watchers, caches>>

Leave(n) ==
  /\ changes < MaxChanges /\ changes' = changes + 1
  /\ n \in keepers
  /\ keepers' = keepers \ {n} /\ leaving' = leaving \cup {n}
  /\ UNCHANGED <<registered, passing, errors, catalog, workers, watchers, caches>>

Deregister(n) ==
  /\ n \in leaving /\ leaving' = leaving \ {n}
  /\ registered' = registered \ {n} /\ passing' = passing \ {n}
  /\ UNCHANGED <<keepers, changes, errors, catalog, workers, watchers, caches>>

\* leave returns the error; the keeper is gone, and a second Leave does nothing.
DeregisterFails(n) ==
  /\ errors < MaxErrors /\ errors' = errors + 1
  /\ n \in leaving /\ leaving' = leaving \ {n}
  /\ UNCHANGED <<registered, passing, keepers, changes, catalog, workers, watchers, caches>>

Crash(n) ==
  /\ changes < MaxChanges /\ changes' = changes + 1
  /\ n \in keepers /\ keepers' = keepers \ {n}
  /\ UNCHANGED <<registered, passing, leaving, errors, catalog, workers, watchers, caches>>

\* Consul: a check nobody updates turns critical, and the registration is
\* removed after DeregisterCriticalServiceAfter.
Lapse(n) ==
  /\ n \in registered \ (keepers \cup leaving)
  /\ IF n \in passing THEN passing' = passing \ {n} /\ UNCHANGED registered
     ELSE registered' = registered \ {n} /\ UNCHANGED passing
  /\ UNCHANGED <<keepers, leaving, changes, errors, catalog, workers, watchers, caches>>

-----------------------------------------------------------------------------
(* watcher.go of the observer.                                             *)

\* services: a poll returns the services that have a registration.
CatalogPolls ==
  /\ ~catalog.polled
  /\ catalog' = [polled |-> TRUE, list |-> {ServiceOf[n] : n \in registered}]
  /\ UNCHANGED <<ownerVars, errors, workers, watchers, caches>>

Starting == {s \in catalog.list : workers[s] = NoWatcher}
Stopping == {s \in Service \ catalog.list : workers[s] # NoWatcher}
NewServices == SetToSeq(Starting)
NewWatcher(s) == [service |-> s, cancelled |-> FALSE, step |-> "check", fetched |-> {}]

\* reconcileServices: start a watcher for every new service, cancel those of
\* the services that are gone.
ReconcileServices ==
  /\ catalog.polled /\ catalog' = NotPolled
  /\ Len(watchers) + Len(NewServices) <= MaxWatchers
  /\ watchers' = [i \in DOMAIN watchers |->
                    IF \E s \in Stopping : workers[s] = i
                    THEN [watchers[i] EXCEPT !.cancelled = TRUE] ELSE watchers[i]]
                \o [k \in DOMAIN NewServices |-> NewWatcher(NewServices[k])]
  /\ workers' = [s \in Service |->
                   IF s \in Starting THEN Len(watchers) + SelectInSeq(NewServices, LAMBDA t : t = s) ELSE
                   IF s \in Stopping THEN NoWatcher ELSE workers[s]]
  /\ UNCHANGED <<ownerVars, errors, caches>>

At(i, step) == i \in DOMAIN watchers /\ watchers[i].step = step
Goto(i, step) == watchers' = [watchers EXCEPT ![i].step = step]

\* The context is looked at before each poll, and a poll is not interrupted.
CheckContext(i) ==
  /\ At(i, "check")
  /\ Goto(i, IF watchers[i].cancelled THEN "delete" ELSE "poll")
  /\ UNCHANGED <<ownerVars, errors, catalog, workers, caches>>

\* fetchService: the passing nodes of the service when the poll returns.
FetchService(i) ==
  /\ At(i, "poll")
  /\ watchers' = [watchers EXCEPT ![i].step = "set",
                    ![i].fetched = {n \in passing : ServiceOf[n] = watchers[i].service}]
  /\ UNCHANGED <<ownerVars, errors, catalog, workers, caches>>

\* Mutant of FetchFails: a failed poll ends the watcher.
FetchFailsEnds(i) ==
  /\ errors < MaxErrors /\ errors' = errors + 1
  /\ At(i, "poll") /\ Goto(i, "delete")
  /\ UNCHANGED <<ownerVars, catalog, workers, caches>>

\* After an error the watcher sleeps and polls again, unless it is cancelled.
FetchFails(i) ==
  /\ errors < MaxErrors /\ errors' = errors + 1
  /\ At(i, "poll") /\ Goto(i, "check")
  /\ UNCHANGED <<ownerVars, catalog, workers, caches>>

SetCache(i) ==
  /\ At(i, "set") /\ Goto(i, "check")
  /\ caches' = [caches EXCEPT ![watchers[i].service] = watchers[i].fetched]
  /\ UNCHANGED <<ownerVars, errors, catalog, workers>>

\* The deferred Delete, which takes the entry whoever set it.
DeleteCache(i) ==
  /\ At(i, "delete") /\ Goto(i, "ended")
  /\ caches' = [caches EXCEPT ![watchers[i].service] = {}]
  /\ UNCHANGED <<ownerVars, errors, catalog, workers>>

WatcherStep(i) == CheckContext(i) \/ FetchService(i) \/ SetCache(i) \/ DeleteCache(i)

MemberNext ==
  \/ \E n \in Instance :
       \/ Join(n) \/ KeepAlive(n) \/ Leave(n) \/ Deregister(n) \/ DeregisterFails(n)
       \/ KeepAliveFails(n) \/ Crash(n) \/ Lapse(n)
  \/ CatalogPolls \/ ReconcileServices
  \/ \E i \in Watcher : WatcherStep(i) \/ FetchFails(i)

\* Keepers tick, TTLs expire, and a poll returns after WaitTime at the latest.
MemberFairness ==
  /\ \A n \in Instance :
       WF_memberVars(KeepAlive(n)) /\ WF_memberVars(Lapse(n)) /\ WF_memberVars(Deregister(n))
  /\ WF_memberVars(CatalogPolls \/ ReconcileServices)
  /\ \A i \in Watcher : WF_memberVars(WatcherStep(i))

MemberSpec == MemberInit /\ [][MemberNext]_memberVars /\ MemberFairness

-----------------------------------------------------------------------------
\* Members: what the cluster sees of a service.
Members(s) == caches[s]

\* Once nodes stop joining, leaving and crashing, every observer comes to see
\* exactly the nodes with a keeper whose registration Consul has not removed,
\* and keeps seeing them: neither a failed ServiceDeregister, nor a check that
\* lapsed for a while, nor a finished watcher that deletes its successor's
\* entry does lasting damage.
MembersConverge ==
  <>[](\A s \in Service : Members(s) = {n \in keepers \cap registered : ServiceOf[n] = s})

=============================================================================
