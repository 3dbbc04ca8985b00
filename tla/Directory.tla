----------------------------- MODULE Directory -----------------------------
(***************************************************************************)
(* The owner directory of logical actors: logicalactor/directory.  Redis   *)
(* holds, for one actor id, the owner (with a lease) and an epoch that     *)
(* every change of owner increments; scripts are atomic.  Each node keeps  *)
(* a cache of the owner that the events of other nodes invalidate.  A      *)
(* caller's operation is three steps: a look at the cache (GetOwner only), *)
(* the script, and what is done with its reply.                            *)
(***************************************************************************)
EXTENDS Naturals

CONSTANTS
  Node,        \* nodes
  MaxInst,     \* bound: instances of a node, one per start
  None         \* no owner, no cached entry

ASSUME DirectoryAssumption == MaxInst \in Nat \ {0}

VARIABLES
  owner,       \* Redis: the value of the owner key
  epoch,       \* Redis: the value of the epoch key
  cache,       \* per node: RedisOwnerDirectory.cache
  events,      \* per node: the newest event published and not received, 0 none
  call         \* per caller: its operation on the directory

directoryVars == <<owner, epoch, cache, events, call>>

Owner == [node : Node, inst : 1..MaxInst]
ASSUME OwnerAssumption == None \notin Owner

Role == {"client", "router", "actor"}
Task == Role \X Node          \* the callers: goroutines of a node
Home(t) == t[2]

CallAt(op, arg, step, got, e, ok) ==
  [op |-> op, arg |-> arg, step |-> step, got |-> got, epoch |-> e, ok |-> ok]
Idle == CallAt("none", None, "idle", None, 0, FALSE)
Call(op, arg) == CallAt(op, arg, IF op = "get" THEN "look" ELSE "script", None, 0, FALSE)

DirectoryInit ==
  /\ owner = None /\ epoch = 0
  /\ cache = [n \in Node |-> None]
  /\ events = [n \in Node |-> 0]
  /\ call = [t \in Task |-> Idle]

-----------------------------------------------------------------------------
(* The cache.                                                              *)

\* trySetCached: an entry is not replaced by one that is as old or older.
TrySetCached(n, o, e) ==
  cache' = IF cache[n] # None /\ cache[n].epoch >= e THEN cache
           ELSE [cache EXCEPT ![n] = [owner |-> o, epoch |-> e]]

\* tryDelCached: an entry newer than the event stays.
TryDelCached(n, e) ==
  cache' = IF cache[n] # None /\ cache[n].epoch > e THEN cache
           ELSE [cache EXCEPT ![n] = None]

\* notifyOwnerUpdate: every subscriber, the publisher included, gets the event.
\* Of the events that wait for a node the newest is kept: an older one removes
\* nothing that the newest would not.
NotifyOwnerUpdate(e) == events' = [n \in Node |-> IF events[n] < e THEN e ELSE events[n]]

\* consumeOwnerEvents and handleOwnerEvent.  Pub/Sub delivers at most once:
\* nothing says that an event is ever received.
HandleOwnerEvent(n) ==
  /\ events[n] # 0
  /\ events' = [events EXCEPT ![n] = 0]
  /\ TryDelCached(n, events[n])
  /\ UNCHANGED <<owner, epoch, call>>

\* The cache entry reaches its CacheTTL, or the LRU evicts it.
CacheExpires(n) ==
  /\ cache[n] # None
  /\ cache' = [cache EXCEPT ![n] = None]
  /\ UNCHANGED <<owner, epoch, events, call>>

-----------------------------------------------------------------------------
(* The operations.                                                         *)

At(t, op, step) == call[t].op = op /\ call[t].step = step
Reply(t, o, e, ok) ==
  call' = [call EXCEPT ![t] = CallAt(call[t].op, call[t].arg, "finish", o, e, ok)]
Return(t, o, ok) == call' = [call EXCEPT ![t] = CallAt(call[t].op, None, "done", o, 0, ok)]

\* GetOwner: a cached owner is the answer.
GetCached(t) ==
  /\ At(t, "get", "look")
  /\ LET c == cache[Home(t)] IN
       IF c = None THEN call' = [call EXCEPT ![t] = CallAt("get", None, "script", None, 0, FALSE)]
       ELSE Return(t, c.owner, TRUE)
  /\ UNCHANGED <<owner, epoch, cache, events>>

GetOwnerFromRedis(t) ==
  /\ At(t, "get", "script")
  /\ IF owner = None THEN Return(t, None, TRUE)
     ELSE Reply(t, owner, epoch, TRUE)
  /\ UNCHANGED <<owner, epoch, cache, events>>

GetOwner(t) ==
  /\ At(t, "get", "finish")
  /\ TrySetCached(Home(t), call[t].got, call[t].epoch)
  /\ Return(t, call[t].got, TRUE)
  /\ UNCHANGED <<owner, epoch, events>>

\* acquireOwnerScript: only the owner of another node is in the way.
Acquirable(candidate) == owner = None \/ owner.node = candidate.node

\* Mutant of AcquireOwnerFromRedis: the epoch stays when a node replaces its own entry.
AcquireKeepsEpoch(t) ==
  LET candidate == call[t].arg
      next == IF owner = None THEN epoch + 1 ELSE epoch IN
  /\ At(t, "acquire", "script")
  /\ IF Acquirable(candidate)
     THEN /\ owner' = candidate /\ epoch' = next
          /\ Reply(t, candidate, next, TRUE)
     ELSE Reply(t, owner, epoch, FALSE) /\ UNCHANGED <<owner, epoch>>
  /\ UNCHANGED <<cache, events>>

AcquireOwnerFromRedis(t) ==
  LET candidate == call[t].arg IN
  /\ At(t, "acquire", "script")
  /\ IF Acquirable(candidate)
     THEN /\ owner' = candidate /\ epoch' = epoch + 1
          /\ Reply(t, candidate, epoch + 1, TRUE)
     ELSE Reply(t, owner, epoch, FALSE) /\ UNCHANGED <<owner, epoch>>
  /\ UNCHANGED <<cache, events>>

AcquireOwner(t) ==
  LET c == call[t] IN
  /\ At(t, "acquire", "finish")
  /\ TrySetCached(Home(t), c.got, c.epoch)
  /\ IF c.ok THEN NotifyOwnerUpdate(c.epoch) ELSE UNCHANGED events
  /\ Return(t, c.got, c.ok)
  /\ UNCHANGED <<owner, epoch>>

\* Mutant of Deletable: the instance is not compared.
DeletableNode(expected) == owner # None /\ owner.node = expected.node

\* deleteOwnerScript: node and instance must both match.
Deletable(expected) == owner = expected

DeleteOwnerFromRedis(t) ==
  LET deletes == Deletable(call[t].arg) IN
  /\ At(t, "delete", "script")
  /\ owner' = IF deletes THEN None ELSE owner
  /\ epoch' = IF deletes THEN epoch + 1 ELSE epoch
  /\ Reply(t, None, epoch', deletes)
  /\ UNCHANGED <<cache, events>>

DeleteOwner(t) ==
  LET c == call[t] IN
  /\ At(t, "delete", "finish")
  /\ IF c.ok THEN TryDelCached(Home(t), c.epoch) /\ NotifyOwnerUpdate(c.epoch)
             ELSE UNCHANGED <<cache, events>>
  /\ Return(t, None, TRUE)
  /\ UNCHANGED <<owner, epoch>>

\* Redis cannot be reached, or its reply is lost or not understood: the
\* caller gets an error, whether or not the script ran.
ScriptFails(t) ==
  /\ call[t].step \in {"script", "finish"}
  /\ call' = [call EXCEPT ![t] = CallAt(call[t].op, None, "error", None, 0, FALSE)]
  /\ UNCHANGED <<owner, epoch, cache, events>>

\* The lease of the owner runs out (external: Redis removes the key).
LeaseExpires ==
  /\ owner # None
  /\ owner' = None
  /\ UNCHANGED <<epoch, cache, events, call>>

Returned(t) == call[t].step \in {"done", "error"}

\* Steps of an operation that change neither the owner nor the epoch.
OperationStep(t) ==
  GetCached(t) \/ GetOwnerFromRedis(t) \/ GetOwner(t) \/ AcquireOwner(t) \/ DeleteOwner(t)
CacheStep(n) == HandleOwnerEvent(n) \/ CacheExpires(n)

-----------------------------------------------------------------------------
DirectoryTypeOK ==
  /\ owner \in Owner \cup {None} /\ epoch \in Nat
  /\ cache \in [Node -> [owner : Owner, epoch : Nat] \cup {None}]
  /\ events \in [Node -> Nat]
  /\ call \in [Task -> [op : {"none", "get", "acquire", "delete"}, arg : Owner \cup {None},
                        step : {"idle", "look", "script", "finish", "done", "error"},
                        got : Owner \cup {None}, epoch : Nat, ok : BOOLEAN]]

\* What is known of the owner, in a cache or in a reply not yet used, is never
\* ahead of Redis, and what carries the current epoch names the current owner
\* or one whose lease has run out: epochs order the owners (acquireOwnerScript,
\* trySetCached, tryDelCached), whatever the order of replies and events.
CacheFenced ==
  LET Fenced(o, e) == e <= epoch /\ (e = epoch => owner \in {o, None}) IN
  /\ \A n \in Node : cache[n] # None => Fenced(cache[n].owner, cache[n].epoch)
  /\ \A t \in Task : call[t].step = "finish" /\ call[t].got # None => Fenced(call[t].got, call[t].epoch)
  /\ \A n \in Node : events[n] <= epoch
=============================================================================
