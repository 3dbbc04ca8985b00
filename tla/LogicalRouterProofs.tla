------------------------ MODULE LogicalRouterProofs ------------------------
(***************************************************************************)
(* Theorems about module LogicalRouter with its Directory, for any nodes,  *)
(* instances, callers, requests and faults.                                *)
(*                                                                         *)
(* CacheFenced relates epochs in caches and replies to Redis; a step of    *)
(* the inductive argument also needs that no call in its last step has an  *)
(* epoch ahead of Redis (Calls).  SingleActivation needs what a router and *)
(* an activation of one node may do at the same time (Work) and that the   *)
(* lease is already held when the activation begins (Holds).               *)
(***************************************************************************)
EXTENDS LogicalRouter, TLAPS

\* What a call carries from one of its steps to the next: a candidate or an
\* expected owner to its script, an owner to the caller of GetOwner and
\* AcquireOwner, and no epoch ahead of Redis.
Calls ==
  \A t \in Task :
    /\ call[t].step = "script" /\ call[t].op # "get" => call[t].arg # None
    /\ call[t].step = "finish" =>
         call[t].epoch <= epoch /\ (call[t].op # "delete" => call[t].got # None)
    /\ call[t].step = "done" /\ call[t].op = "acquire" => call[t].got # None

\* A router works on a request only while its node has no activation, an
\* activation deletes its lease only in Destroy, both in the name of the
\* current instance; and a node that is down does neither.
WorkAt(m) ==
  /\ router[m] # None => m \in up /\ active[m] = "none" /\ router[m].count < maxRouteForwards
  /\ active[m] # "none" => m \in up
  /\ call[Router(m)].step # "idle" => router[m] # None
  /\ call[Router(m)].step = "script" => call[Router(m)].arg = Self(m)
  /\ call[Router(m)].op # "get"
  /\ call[Actor(m)].step # "idle" => active[m] = "destroying"
  /\ call[Actor(m)].step = "script" => call[Actor(m)].arg = Self(m)
  /\ call[Actor(m)].op \in {"none", "delete"}
Work == \A m \in Node : WorkAt(m)

\* A router whose AcquireOwner succeeded holds the lease until it activates the
\* actor, and the activation then, unless the lease was lost.
Granted(m) ==
  /\ call[Router(m)].op = "acquire" /\ call[Router(m)].step \in {"finish", "done"}
  /\ call[Router(m)].ok
Holds(m) == (Granted(m) \/ active[m] = "running") /\ m \notin lost => owner = Self(m)

IInv == TypeOK /\ Calls /\ Work /\ CacheFenced /\ \A m \in Node : Holds(m)
-----------------------------------------------------------------------------
\* The types of the directory, of the rest, and of a call.
CallRecord ==
  [op : {"none", "get", "acquire", "delete"}, arg : Owner \cup {None},
   step : {"idle", "look", "script", "finish", "done", "error"},
   got : Owner \cup {None}, epoch : Nat, ok : BOOLEAN]
RouterTypeOK ==
  /\ client \in [Node -> [pc : {"idle", "get", "place", "delete", "sent"},
                          attempt : 0..maxOwnerResolveAttempts, left : 0..MaxRequests]]
  /\ request \in [Node -> [at : Node \cup {None}, id : 0..MaxRequests, count : 0..maxRouteForwards]]
  /\ router \in [Node -> JobType \cup {None}]
ActorTypeOK ==
  /\ inst \in [Node -> 1..MaxInst] /\ up \subseteq Node
  /\ view \in [Node -> [Node -> 0..MaxInst]]
  /\ active \in [Node -> {"none", "running", "destroying"}]
  /\ renewing \subseteq Node /\ lost \subseteq Node
  /\ faults \in 0..MaxFaults /\ stops \in 0..MaxStops

\* The type invariant by parts, and what the directory's part says.
LEMMA Types ==
  /\ TypeOK <=> DirectoryTypeOK /\ ActorTypeOK /\ RouterTypeOK
  /\ DirectoryTypeOK =>
       /\ owner \in Owner \cup {None} /\ epoch \in Nat
       /\ cache \in [Node -> [owner : Owner, epoch : Nat] \cup {None}]
       /\ events \in [Node -> Nat]
       /\ call \in [Task -> CallRecord]
<1>1. TypeOK <=> DirectoryTypeOK /\ ActorTypeOK /\ RouterTypeOK
  BY DEF TypeOK, ActorTypeOK, RouterTypeOK
<1> QED
  BY <1>1 DEF DirectoryTypeOK, CallRecord

\* The callers of the directory.
LEMMA Tasks ==
  /\ \A n \in Node :
       /\ Client(n) \in Task /\ Router(n) \in Task /\ Actor(n) \in Task
       /\ Home(Client(n)) = n /\ Home(Router(n)) = n /\ Home(Actor(n)) = n
       /\ Client(n)[1] = "client" /\ Router(n)[1] = "router" /\ Actor(n)[1] = "actor"
  /\ \A t \in Task :
       /\ Home(t) \in Node /\ t[1] \in Role
       /\ t[1] = "client" <=> t = Client(Home(t))
       /\ t[1] = "router" <=> t = Router(Home(t))
       /\ t[1] = "actor" <=> t = Actor(Home(t))
BY DEF Task, Role, Home, Client, Router, Actor

\* Two of them are never taken for one another.
LEMMA Apart ==
  ASSUME NEW m \in Node, NEW n \in Node
  PROVE  /\ Client(m) # Router(n) /\ Client(m) # Actor(n) /\ Router(m) # Actor(n)
         /\ m # n => Client(m) # Client(n) /\ Router(m) # Router(n) /\ Actor(m) # Actor(n)
BY Tasks

\* The instance that runs on a node is an owner, and an owner is not None.
LEMMA SelfIsOwner ==
  ASSUME ActorTypeOK, NEW n \in Node
  PROVE  Self(n) \in Owner /\ Self(n) # None /\ Self(n).node = n
<1>1. inst[n] \in 1..MaxInst
  BY DEF ActorTypeOK
<1>2. Self(n) \in Owner /\ Self(n).node = n
  BY <1>1 DEF Self, Owner
<1> QED
  BY <1>2, OwnerAssumption

\* The calls that are started, and no call.
LEMMA CallTypes ==
  ASSUME NEW o \in Owner \cup {None}
  PROVE  /\ Idle \in CallRecord /\ Idle.step = "idle"
         /\ \A op \in {"get", "acquire", "delete"} :
              /\ Call(op, o) \in CallRecord /\ Call(op, o).op = op /\ Call(op, o).arg = o
              /\ Call(op, o).step = IF op = "get" THEN "look" ELSE "script"
BY DEF Idle, Call, CallAt, CallRecord

-----------------------------------------------------------------------------
(* What a step of the directory does.                                      *)

\* The part of the invariant that is about the directory alone.
DirectoryInv == DirectoryTypeOK /\ Calls /\ CacheFenced

\* Only t's call changes, and becomes r.
Becomes(t, r) ==
  /\ call' \in [Task -> CallRecord] /\ call'[t] = r
  /\ \A u \in Task : u # t => call'[u] = call[u]

\* An assignment to one task's call.
LEMMA Becoming ==
  ASSUME DirectoryTypeOK, NEW t \in Task, NEW r \in CallRecord, call' = [call EXCEPT ![t] = r]
  PROVE  Becomes(t, r)
BY Types DEF Becomes

\* A script's reply.
LEMMA Replying ==
  ASSUME DirectoryTypeOK, NEW t \in Task, NEW o \in Owner \cup {None}, NEW e \in Nat,
         NEW ok \in BOOLEAN, Reply(t, o, e, ok)
  PROVE  Becomes(t, CallAt(call[t].op, call[t].arg, "finish", o, e, ok))
<1>1. call[t] \in CallRecord
  BY Types
<1>2. CallAt(call[t].op, call[t].arg, "finish", o, e, ok) \in CallRecord
  BY <1>1 DEF CallRecord, CallAt
<1> QED
  BY <1>2, Becoming DEF Reply

\* The return of a directory call.
LEMMA Returning ==
  ASSUME DirectoryTypeOK, NEW t \in Task, NEW o \in Owner \cup {None},
         NEW ok \in BOOLEAN, Return(t, o, ok)
  PROVE  Becomes(t, CallAt(call[t].op, None, "done", o, 0, ok))
<1>1. call[t] \in CallRecord
  BY Types
<1>2. CallAt(call[t].op, None, "done", o, 0, ok) \in CallRecord
  BY <1>1 DEF CallRecord, CallAt
<1> QED
  BY <1>2, Becoming DEF Return

\* A call begins or is put away.
LEMMA CallerStep ==
  ASSUME DirectoryInv, NEW t \in Task, NEW r \in CallRecord,
         call' = [call EXCEPT ![t] = r], storeUnchanged,
         r.step \in {"idle", "look", "script"}, r.step = "script" => r.arg # None
  PROVE  DirectoryInv'
<1>1. Becomes(t, r)
  BY Becoming DEF DirectoryInv
<1>2. UNCHANGED <<owner, epoch, cache, events>>
  BY DEF storeUnchanged
<1>3. DirectoryTypeOK'
  BY <1>1, <1>2 DEF DirectoryInv, DirectoryTypeOK, Becomes, CallRecord
<1>4. Calls'
  BY <1>1, <1>2 DEF DirectoryInv, Calls, Becomes
<1>5. CacheFenced'
  BY <1>1, <1>2 DEF DirectoryInv, CacheFenced, Becomes
<1> QED
  BY <1>3, <1>4, <1>5 DEF DirectoryInv

\* acquireOwnerScript.
LEMMA AcquireScript ==
  ASSUME DirectoryInv, NEW t \in Task, AcquireOwnerFromRedis(t)
  PROVE  /\ call[t].op = "acquire" /\ call[t].step = "script" /\ call[t].arg \in Owner
         /\ UNCHANGED <<cache, events>>
         /\ \/ /\ Acquirable(call[t].arg) /\ owner' = call[t].arg /\ epoch' = epoch + 1
               /\ Becomes(t, CallAt("acquire", call[t].arg, "finish", call[t].arg, epoch + 1, TRUE))
            \/ /\ ~Acquirable(call[t].arg) /\ owner # None /\ UNCHANGED <<owner, epoch>>
               /\ Becomes(t, CallAt("acquire", call[t].arg, "finish", owner, epoch, FALSE))
<1>1. /\ call[t].op = "acquire" /\ call[t].step = "script" /\ UNCHANGED <<cache, events>>
      /\ call[t] \in CallRecord /\ epoch \in Nat /\ owner \in Owner \cup {None}
  BY Types DEF DirectoryInv, AcquireOwnerFromRedis, At
<1>2. call[t].arg \in Owner
  BY <1>1 DEF DirectoryInv, Calls, CallRecord
<1>3. CASE Acquirable(call[t].arg)
  <2>1. owner' = call[t].arg /\ epoch' = epoch + 1 /\ Reply(t, call[t].arg, epoch + 1, TRUE)
    BY <1>3 DEF AcquireOwnerFromRedis
  <2>2. epoch + 1 \in Nat
    BY <1>1
  <2> QED
    BY <1>1, <1>2, <1>3, <2>1, <2>2, Replying DEF DirectoryInv
<1>4. CASE ~Acquirable(call[t].arg)
  <2>1. UNCHANGED <<owner, epoch>> /\ Reply(t, owner, epoch, FALSE)
    BY <1>4 DEF AcquireOwnerFromRedis
  <2>2. owner # None
    BY <1>4 DEF Acquirable
  <2> QED
    BY <1>1, <1>2, <1>4, <2>1, <2>2, Replying DEF DirectoryInv
<1> QED
  BY <1>3, <1>4

\* deleteOwnerScript.
LEMMA DeleteScript ==
  ASSUME DirectoryInv, NEW t \in Task, DeleteOwnerFromRedis(t)
  PROVE  /\ call[t].op = "delete" /\ call[t].step = "script" /\ call[t].arg \in Owner
         /\ UNCHANGED <<cache, events>>
         /\ \/ owner = call[t].arg /\ owner' = None /\ epoch' = epoch + 1
            \/ owner # call[t].arg /\ UNCHANGED <<owner, epoch>>
         /\ \E ok \in BOOLEAN :
              Becomes(t, CallAt("delete", call[t].arg, "finish", None, epoch', ok))
<1>1. /\ call[t].op = "delete" /\ call[t].step = "script" /\ UNCHANGED <<cache, events>>
      /\ call[t] \in CallRecord /\ epoch \in Nat
  BY Types DEF DirectoryInv, DeleteOwnerFromRedis, At
<1>2. call[t].arg \in Owner
  BY <1>1 DEF DirectoryInv, Calls, CallRecord
<1>3. \/ owner = call[t].arg /\ owner' = None /\ epoch' = epoch + 1
      \/ owner # call[t].arg /\ UNCHANGED <<owner, epoch>>
  BY DEF DeleteOwnerFromRedis, Deletable
<1>4. epoch' \in Nat
  BY <1>1, <1>3
<1>5. PICK ok \in BOOLEAN : Reply(t, None, epoch', ok)
  BY DEF DeleteOwnerFromRedis, Deletable
<1>6. Becomes(t, CallAt("delete", call[t].arg, "finish", None, epoch', ok))
  BY <1>1, <1>4, <1>5, Replying DEF DirectoryInv
<1> QED
  BY <1>1, <1>2, <1>3, <1>6

\* The scripts keep the invariant of the directory: what was known before is
\* older than the epoch of a new owner.
LEMMA ScriptKeeps ==
  ASSUME DirectoryInv, NEW t \in Task, AcquireOwnerFromRedis(t) \/ DeleteOwnerFromRedis(t)
  PROVE  DirectoryInv'
<1>1. /\ owner \in Owner \cup {None} /\ epoch \in Nat
      /\ cache \in [Node -> [owner : Owner, epoch : Nat] \cup {None}]
      /\ events \in [Node -> Nat]
      /\ call \in [Task -> CallRecord]
  BY Types DEF DirectoryInv
<1>2. /\ UNCHANGED <<cache, events>>
      /\ \/ owner' \in Owner \cup {None} /\ epoch' = epoch + 1
         \/ UNCHANGED <<owner, epoch>>
  BY AcquireScript, DeleteScript
<1>3. PICK r \in CallRecord :
        /\ Becomes(t, r) /\ r.step = "finish" /\ r.epoch = epoch'
        /\ r.op # "delete" => r.got # None
        /\ r.got # None => r.got = owner'
  <2>1. CASE AcquireOwnerFromRedis(t)
    <3>1. call[t].arg \in Owner /\ call[t].arg # None
      BY <2>1, AcquireScript, OwnerAssumption
    <3>2. PICK ok \in BOOLEAN : Becomes(t, CallAt("acquire", call[t].arg, "finish", owner', epoch', ok))
                                /\ owner' # None /\ owner' \in Owner
      BY <1>1, <2>1, <3>1, AcquireScript
    <3>3. epoch' \in Nat
      BY <1>1, <1>2
    <3>4. CallAt("acquire", call[t].arg, "finish", owner', epoch', ok) \in CallRecord
      BY <3>1, <3>2, <3>3 DEF CallAt, CallRecord
    <3> QED
      BY <3>2, <3>4 DEF CallAt
  <2>2. CASE DeleteOwnerFromRedis(t)
    <3>1. call[t].arg \in Owner
      BY <2>2, DeleteScript
    <3>2. PICK ok \in BOOLEAN : Becomes(t, CallAt("delete", call[t].arg, "finish", None, epoch', ok))
      BY <2>2, DeleteScript
    <3>3. epoch' \in Nat
      BY <1>1, <1>2
    <3>4. CallAt("delete", call[t].arg, "finish", None, epoch', ok) \in CallRecord
      BY <3>1, <3>3 DEF CallAt, CallRecord
    <3> QED
      BY <3>2, <3>4 DEF CallAt
  <2> QED
    BY <2>1, <2>2
<1>4. epoch' \in Nat /\ epoch <= epoch' /\ (epoch' = epoch => owner' = owner)
  BY <1>1, <1>2
<1>5. DirectoryTypeOK'
  BY <1>1, <1>2, <1>3, <1>4 DEF DirectoryTypeOK, Becomes, CallRecord
<1>6. \A e \in Nat : e <= epoch => e <= epoch' /\ (e = epoch' => e = epoch /\ owner' = owner)
  BY <1>1, <1>4
<1>7. Calls'
  <2>1. ASSUME NEW u \in Task
        PROVE  /\ call'[u].step = "script" /\ call'[u].op # "get" => call'[u].arg # None
               /\ call'[u].step = "finish" =>
                    call'[u].epoch <= epoch' /\ (call'[u].op # "delete" => call'[u].got # None)
               /\ call'[u].step = "done" /\ call'[u].op = "acquire" => call'[u].got # None
    <3>1. CASE u = t
      BY <1>3, <1>4, <3>1 DEF Becomes
    <3>2. CASE u # t
      <4>1. call'[u] = call[u] /\ call[u] \in CallRecord
        BY <1>1, <1>3, <3>2 DEF Becomes
      <4>2. call[u].epoch \in Nat
        BY <4>1 DEF CallRecord
      <4> QED
        BY <1>6, <4>1, <4>2 DEF DirectoryInv, Calls
    <3> QED
      BY <3>1, <3>2
  <2> QED
    BY <2>1 DEF Calls
<1>8. CacheFenced'
  <2>1. ASSUME NEW n \in Node, cache'[n] # None
        PROVE  /\ cache'[n].epoch <= epoch'
               /\ cache'[n].epoch = epoch' => owner' \in {cache'[n].owner, None}
    <3>1. cache'[n] = cache[n] /\ cache[n].epoch \in Nat
      BY <1>1, <1>2, <2>1
    <3> QED
      BY <1>6, <2>1, <3>1 DEF DirectoryInv, CacheFenced
  <2>2. ASSUME NEW u \in Task, call'[u].step = "finish", call'[u].got # None
        PROVE  /\ call'[u].epoch <= epoch'
               /\ call'[u].epoch = epoch' => owner' \in {call'[u].got, None}
    <3>1. CASE u = t
      BY <1>3, <1>4, <2>2, <3>1 DEF Becomes
    <3>2. CASE u # t
      <4>1. call'[u] = call[u] /\ call[u] \in CallRecord
        BY <1>1, <1>3, <3>2 DEF Becomes
      <4>2. call[u].epoch \in Nat
        BY <4>1 DEF CallRecord
      <4> QED
        BY <1>6, <2>2, <4>1, <4>2 DEF DirectoryInv, CacheFenced
    <3> QED
      BY <3>1, <3>2
  <2>3. \A n \in Node : events'[n] <= epoch'
    BY <1>1, <1>2, <1>6 DEF DirectoryInv, CacheFenced
  <2> QED
    BY <2>1, <2>2, <2>3 DEF CacheFenced
<1> QED
  BY <1>5, <1>7, <1>8 DEF DirectoryInv

\* A step that changes neither the owner nor the epoch, caches nothing that is
\* not fenced and announces no epoch ahead of Redis.
LEMMA QuietStep ==
  ASSUME DirectoryInv, UNCHANGED <<owner, epoch>>,
         NEW t \in Task, NEW r \in CallRecord, Becomes(t, r) \/ (UNCHANGED call /\ r = call[t]),
         r.step = "script" /\ r.op # "get" => r.arg # None,
         r.step = "finish" =>
           /\ r.epoch <= epoch /\ (r.op # "delete" => r.got # None)
           /\ r.got # None => (r.epoch = epoch => owner \in {r.got, None}),
         r.step = "done" /\ r.op = "acquire" => r.got # None,
         cache' \in [Node -> [owner : Owner, epoch : Nat] \cup {None}],
         \A n \in Node : cache'[n] \in {None, cache[n]}
                         \/ (/\ cache'[n].epoch <= epoch
                             /\ cache'[n].epoch = epoch => owner \in {cache'[n].owner, None}),
         events' \in [Node -> Nat], \A n \in Node : events'[n] <= epoch
  PROVE  DirectoryInv'
<1>1. call \in [Task -> CallRecord] /\ epoch \in Nat
  BY Types DEF DirectoryInv
<1>2. call' \in [Task -> CallRecord] /\ call'[t] = r /\ \A u \in Task : u # t => call'[u] = call[u]
  BY <1>1 DEF Becomes
<1>3. DirectoryTypeOK'
  BY <1>2 DEF DirectoryInv, DirectoryTypeOK, CallRecord
<1>4. Calls'
  BY <1>2 DEF DirectoryInv, Calls
<1>5. CacheFenced'
  <2>1. ASSUME NEW n \in Node, cache'[n] # None
        PROVE  /\ cache'[n].epoch <= epoch'
               /\ cache'[n].epoch = epoch' => owner' \in {cache'[n].owner, None}
    BY <2>1 DEF DirectoryInv, CacheFenced
  <2>2. ASSUME NEW u \in Task, call'[u].step = "finish", call'[u].got # None
        PROVE  /\ call'[u].epoch <= epoch'
               /\ call'[u].epoch = epoch' => owner' \in {call'[u].got, None}
    <3>1. CASE u = t
      BY <1>2, <2>2, <3>1
    <3>2. CASE u # t
      BY <1>2, <2>2, <3>2 DEF DirectoryInv, CacheFenced
    <3> QED
      BY <3>1, <3>2
  <2>3. \A n \in Node : events'[n] <= epoch'
    OBVIOUS
  <2> QED
    BY <2>1, <2>2, <2>3 DEF CacheFenced
<1> QED
  BY <1>3, <1>4, <1>5 DEF DirectoryInv

\* trySetCached with a fenced owner, tryDelCached, and notifyOwnerUpdate with an
\* epoch that Redis has reached.
LEMMA CacheWrites ==
  ASSUME DirectoryInv, NEW n \in Node, NEW o \in Owner, NEW e \in Nat, TrySetCached(n, o, e),
         e <= epoch, e = epoch => owner \in {o, None}
  PROVE  /\ cache' \in [Node -> [owner : Owner, epoch : Nat] \cup {None}]
         /\ \A m \in Node : cache'[m] \in {None, cache[m]}
                            \/ (/\ cache'[m].epoch <= epoch
                                /\ cache'[m].epoch = epoch => owner \in {cache'[m].owner, None})
<1>1. cache \in [Node -> [owner : Owner, epoch : Nat] \cup {None}]
  BY Types DEF DirectoryInv
<1>2. CASE cache' = cache
  BY <1>1, <1>2
<1>3. CASE cache' = [cache EXCEPT ![n] = [owner |-> o, epoch |-> e]]
  BY <1>1, <1>3
<1> QED
  BY <1>2, <1>3 DEF TrySetCached

\* TryDelCached keeps an entry or removes it.
LEMMA CacheDeletes ==
  ASSUME DirectoryInv, NEW n \in Node, NEW e, TryDelCached(n, e)
  PROVE  /\ cache' \in [Node -> [owner : Owner, epoch : Nat] \cup {None}]
         /\ \A m \in Node : cache'[m] \in {None, cache[m]}
<1>1. cache \in [Node -> [owner : Owner, epoch : Nat] \cup {None}]
  BY Types DEF DirectoryInv
<1> QED
  BY <1>1 DEF TryDelCached

\* Events carry epochs that were given out.
LEMMA Announces ==
  ASSUME DirectoryInv, NEW e \in Nat, e <= epoch, NotifyOwnerUpdate(e)
  PROVE  events' \in [Node -> Nat] /\ \A n \in Node : events'[n] <= epoch
<1>1. events \in [Node -> Nat] /\ \A n \in Node : events[n] <= epoch
  BY Types DEF DirectoryInv, CacheFenced
<1> QED
  BY <1>1 DEF NotifyOwnerUpdate

\* The steps of an operation besides its script: only t's call changes, its
\* operation stays, and a successful acquire is one that the script granted.
Advances(t, r) ==
  /\ Becomes(t, r)
  /\ r.op = call[t].op /\ call[t].step \in {"look", "script", "finish"}
  /\ r.step \in {"script", "finish"} => r.op = "get"
  /\ r.step = "finish" => r.got = owner /\ owner # None /\ r.epoch = epoch
  /\ r.step \in {"script", "finish", "done"}
  /\ r.step = "done" /\ r.op = "acquire" =>
       call[t].step = "finish" /\ r.got # None /\ r.ok = call[t].ok

\* A step of an operation inside the directory client: the owner stays, the call advances.
LEMMA OperationFacts ==
  ASSUME DirectoryInv, NEW t \in Task, OperationStep(t)
  PROVE  UNCHANGED <<owner, epoch>> /\ DirectoryInv' /\ \E r \in CallRecord : Advances(t, r)
<1>1. /\ owner \in Owner \cup {None} /\ epoch \in Nat
      /\ cache \in [Node -> [owner : Owner, epoch : Nat] \cup {None}]
      /\ events \in [Node -> Nat] /\ \A n \in Node : events[n] <= epoch
      /\ call \in [Task -> CallRecord] /\ call[t] \in CallRecord
      /\ DirectoryTypeOK /\ Home(t) \in Node
  BY Types, Tasks DEF DirectoryInv, CacheFenced
<1>2. UNCHANGED <<owner, epoch>>
  BY DEF OperationStep, GetCached, GetOwnerFromRedis, GetOwner, AcquireOwner, DeleteOwner
<1>3. SUFFICES \E r \in CallRecord :
        /\ Advances(t, r)
        /\ cache' \in [Node -> [owner : Owner, epoch : Nat] \cup {None}]
        /\ \A n \in Node : cache'[n] \in {None, cache[n]}
                           \/ (/\ cache'[n].epoch <= epoch
                               /\ cache'[n].epoch = epoch => owner \in {cache'[n].owner, None})
        /\ events' \in [Node -> Nat] /\ \A n \in Node : events'[n] <= epoch
  <2>1. PICK r \in CallRecord :
        /\ Advances(t, r)
        /\ cache' \in [Node -> [owner : Owner, epoch : Nat] \cup {None}]
        /\ \A n \in Node : cache'[n] \in {None, cache[n]}
                           \/ (/\ cache'[n].epoch <= epoch
                               /\ cache'[n].epoch = epoch => owner \in {cache'[n].owner, None})
        /\ events' \in [Node -> Nat] /\ \A n \in Node : events'[n] <= epoch
    BY <1>3
  <2>2. /\ Becomes(t, r)
        /\ r.step = "script" /\ r.op # "get" => r.arg # None
        /\ r.step = "finish" =>
             /\ r.epoch <= epoch /\ (r.op # "delete" => r.got # None)
             /\ r.got # None => (r.epoch = epoch => owner \in {r.got, None})
        /\ r.step = "done" /\ r.op = "acquire" => r.got # None
    BY <1>1, <2>1 DEF Advances
  <2>3. DirectoryInv'
    BY <1>2, <2>1, <2>2, QuietStep
  <2> QED
    BY <1>2, <2>1, <2>3
<1>4. CASE GetCached(t)
  <2>1. call[t].op = "get" /\ call[t].step = "look" /\ UNCHANGED <<cache, events>>
    BY <1>4 DEF GetCached, At
  <2>2. CASE cache[Home(t)] = None
    <3>1. CallAt("get", None, "script", None, 0, FALSE) \in CallRecord
      BY DEF CallAt, CallRecord
    <3>2. Becomes(t, CallAt("get", None, "script", None, 0, FALSE))
      BY <1>1, <1>4, <2>2, <3>1, Becoming DEF GetCached
    <3>3. Advances(t, CallAt("get", None, "script", None, 0, FALSE))
      BY <2>1, <3>2 DEF Advances, CallAt
    <3> QED
      BY <1>1, <2>1, <3>1, <3>3
  <2>3. CASE cache[Home(t)] # None
    <3> DEFINE o == cache[Home(t)].owner
    <3>1. o \in Owner /\ Return(t, o, TRUE)
      BY <1>1, <1>4, <2>3 DEF GetCached
    <3>2. Becomes(t, CallAt("get", None, "done", o, 0, TRUE))
      BY <1>1, <2>1, <3>1, Returning
    <3>3. CallAt("get", None, "done", o, 0, TRUE) \in CallRecord
      BY <3>1 DEF CallAt, CallRecord
    <3>4. Advances(t, CallAt("get", None, "done", o, 0, TRUE))
      BY <2>1, <3>2 DEF Advances, CallAt
    <3> QED
      BY <1>1, <2>1, <3>3, <3>4
  <2> QED
    BY <2>2, <2>3
<1>5. CASE GetOwnerFromRedis(t)
  <2>1. call[t].op = "get" /\ call[t].step = "script" /\ UNCHANGED <<cache, events>>
    BY <1>5 DEF GetOwnerFromRedis, At
  <2>2. CASE owner = None
    <3>1. Becomes(t, CallAt("get", None, "done", None, 0, TRUE))
      BY <1>1, <1>5, <2>1, <2>2, Returning DEF GetOwnerFromRedis
    <3>2. CallAt("get", None, "done", None, 0, TRUE) \in CallRecord
      BY DEF CallAt, CallRecord
    <3>3. Advances(t, CallAt("get", None, "done", None, 0, TRUE))
      BY <2>1, <3>1 DEF Advances, CallAt
    <3> QED
      BY <1>1, <2>1, <3>2, <3>3
  <2>3. CASE owner # None
    <3> DEFINE r == CallAt("get", call[t].arg, "finish", owner, epoch, TRUE)
    <3>1. Becomes(t, r)
      BY <1>1, <1>5, <2>1, <2>3, Replying DEF GetOwnerFromRedis
    <3>2. r \in CallRecord
      BY <1>1 DEF CallAt, CallRecord
    <3>3. Advances(t, r)
      BY <2>1, <2>3, <3>1 DEF Advances, CallAt
    <3> QED
      BY <1>1, <2>1, <3>2, <3>3
  <2> QED
    BY <2>2, <2>3
<1>6. ASSUME GetOwner(t) \/ AcquireOwner(t)
      PROVE  /\ call[t].step = "finish" /\ call[t].got \in Owner /\ call[t].got # None
             /\ call[t].epoch \in Nat /\ call[t].epoch <= epoch
             /\ cache' \in [Node -> [owner : Owner, epoch : Nat] \cup {None}]
             /\ \A n \in Node : cache'[n] \in {None, cache[n]}
                                \/ (/\ cache'[n].epoch <= epoch
                                    /\ cache'[n].epoch = epoch => owner \in {cache'[n].owner, None})
  <2>1. call[t].step = "finish" /\ call[t].op # "delete" /\ TrySetCached(Home(t), call[t].got, call[t].epoch)
    BY <1>6 DEF GetOwner, AcquireOwner, At
  <2>2. call[t].got \in Owner /\ call[t].got # None /\ call[t].epoch \in Nat
    BY <1>1, <2>1 DEF DirectoryInv, Calls, CallRecord
  <2>3. call[t].epoch <= epoch /\ (call[t].epoch = epoch => owner \in {call[t].got, None})
    BY <2>1, <2>2 DEF DirectoryInv, CacheFenced
  <2> QED
    BY <1>1, <2>1, <2>2, <2>3, CacheWrites
<1>7. CASE GetOwner(t)
  <2>1. call[t].op = "get" /\ Return(t, call[t].got, TRUE) /\ UNCHANGED events
    BY <1>7 DEF GetOwner, At
  <2> DEFINE r == CallAt("get", None, "done", call[t].got, 0, TRUE)
  <2>2. r \in CallRecord
    BY <1>6, <1>7 DEF CallAt, CallRecord
  <2>3. Becomes(t, r)
    BY <1>1, <1>6, <1>7, <2>1, Returning
  <2>4. Advances(t, r)
    BY <1>6, <1>7, <2>1, <2>3 DEF Advances, CallAt
  <2> QED
    BY <1>1, <1>6, <1>7, <2>1, <2>2, <2>4
<1>8. CASE AcquireOwner(t)
  <2>1. call[t].op = "acquire" /\ Return(t, call[t].got, call[t].ok) /\ call[t].ok \in BOOLEAN
    BY <1>1, <1>8 DEF AcquireOwner, At, CallRecord
  <2>2. events' \in [Node -> Nat] /\ \A n \in Node : events'[n] <= epoch
    <3>1. UNCHANGED events \/ NotifyOwnerUpdate(call[t].epoch)
      BY <1>8 DEF AcquireOwner
    <3> QED
      BY <1>1, <1>6, <1>8, <3>1, Announces
  <2> DEFINE r == CallAt("acquire", None, "done", call[t].got, 0, call[t].ok)
  <2>3. r \in CallRecord
    BY <1>6, <1>8, <2>1 DEF CallAt, CallRecord
  <2>4. Becomes(t, r)
    BY <1>1, <1>6, <1>8, <2>1, Returning
  <2>5. Advances(t, r)
    BY <1>6, <1>8, <2>1, <2>4 DEF Advances, CallAt
  <2> QED
    BY <1>6, <1>8, <2>2, <2>3, <2>5
<1>9. CASE DeleteOwner(t)
  <2>1. call[t].op = "delete" /\ call[t].step = "finish" /\ Return(t, None, TRUE)
    BY <1>9 DEF DeleteOwner, At
  <2>2. call[t].epoch \in Nat /\ call[t].epoch <= epoch
    BY <1>1, <2>1 DEF DirectoryInv, Calls, CallRecord
  <2>3. \/ UNCHANGED <<cache, events>>
        \/ TryDelCached(Home(t), call[t].epoch) /\ NotifyOwnerUpdate(call[t].epoch)
    BY <1>9 DEF DeleteOwner
  <2>4. /\ cache' \in [Node -> [owner : Owner, epoch : Nat] \cup {None}]
        /\ \A n \in Node : cache'[n] \in {None, cache[n]}
        /\ events' \in [Node -> Nat] /\ \A n \in Node : events'[n] <= epoch
    BY <1>1, <2>2, <2>3, CacheDeletes, Announces
  <2> DEFINE r == CallAt("delete", None, "done", None, 0, TRUE)
  <2>5. r \in CallRecord
    BY DEF CallAt, CallRecord
  <2>6. Becomes(t, r)
    BY <1>1, <2>1, Returning
  <2>7. Advances(t, r)
    BY <2>1, <2>6 DEF Advances, CallAt
  <2> QED
    BY <2>4, <2>5, <2>7
<1> QED
  BY <1>4, <1>5, <1>7, <1>8, <1>9 DEF OperationStep

\* A call of an operation on an owner begins; a look-up begins; a call ends.
LEMMA Begins ==
  ASSUME DirectoryInv, NEW t \in Task, NEW op \in {"acquire", "delete"}, NEW o \in Owner,
         Start(t, op, o), storeUnchanged
  PROVE  DirectoryInv' /\ Becomes(t, Call(op, o))
<1>1. /\ o # None /\ Call(op, o) \in CallRecord /\ Call(op, o).step = "script" /\ Call(op, o).arg = o
  BY OwnerAssumption, CallTypes
<1>2. call' = [call EXCEPT ![t] = Call(op, o)]
  BY DEF Start
<1> QED
  BY <1>1, <1>2, CallerStep, Becoming DEF DirectoryInv

\* A caller starts a Get.
LEMMA Looks ==
  ASSUME DirectoryInv, NEW t \in Task, Start(t, "get", None), storeUnchanged
  PROVE  DirectoryInv' /\ Becomes(t, Call("get", None))
<1>1. Call("get", None) \in CallRecord /\ Call("get", None).step = "look"
  BY CallTypes
<1>2. call' = [call EXCEPT ![t] = Call("get", None)]
  BY DEF Start
<1> QED
  BY <1>1, <1>2, CallerStep, Becoming DEF DirectoryInv

\* A caller takes the result of its call.
LEMMA Finishes ==
  ASSUME DirectoryInv, NEW t \in Task, Finish(t), storeUnchanged
  PROVE  DirectoryInv' /\ Becomes(t, Idle)
<1>1. Idle \in CallRecord /\ Idle.step = "idle"
  BY CallTypes
<1>2. call' = [call EXCEPT ![t] = Idle]
  BY DEF Finish
<1> QED
  BY <1>1, <1>2, CallerStep, Becoming DEF DirectoryInv

\* What a client is told of the owner, and the nodes it may place an actor on.
LEMMA ClientKnows ==
  ASSUME DirectoryTypeOK, ActorTypeOK, NEW n \in Node
  PROVE  /\ call[Client(n)].got \in Owner \cup {None}
         /\ Candidates(n) \subseteq Owner
<1>1. call[Client(n)] \in CallRecord
  BY Types, Tasks
<1>2. call[Client(n)].got \in Owner \cup {None}
  BY <1>1 DEF CallRecord
<1>3. ASSUME NEW m \in Node, view[n][m] # 0 PROVE [node |-> m, inst |-> view[n][m]] \in Owner
  <2>1. view[n][m] \in 0..MaxInst
    BY DEF ActorTypeOK
  <2>2. view[n][m] \in 1..MaxInst
    BY <1>3, <2>1, DirectoryAssumption
  <2> QED
    BY <2>2 DEF Owner
<1> QED
  BY <1>2, <1>3 DEF Candidates

\* The three calls of resolveOwner, and its end.
LEMMA ResolveCalls ==
  ASSUME DirectoryInv, ActorTypeOK, NEW n \in Node, Resolve(n) \/ ResolveOwner(n)
  PROVE  DirectoryInv' /\ \A u \in Task : u # Client(n) => call'[u] = call[u]
<1>1. Client(n) \in Task /\ storeUnchanged /\ call[Client(n)].got \in Owner \cup {None}
  BY Tasks, ClientKnows DEF Resolve, ResolveOwner, DirectoryInv
<1>2. CASE Start(Client(n), "get", None)
  BY <1>1, <1>2, Looks DEF Becomes
<1>3. CASE Finish(Client(n))
  BY <1>1, <1>3, Finishes DEF Becomes
<1>4. ASSUME NEW o \in Owner, NEW op \in {"acquire", "delete"}, Start(Client(n), op, o)
      PROVE  DirectoryInv' /\ \A u \in Task : u # Client(n) => call'[u] = call[u]
  BY <1>1, <1>4, Begins DEF Becomes
<1>5. CASE Resolve(n)
  BY <1>2, <1>5 DEF Resolve
<1>6. CASE NextAttempt(n)
  BY <1>2, <1>3, <1>6 DEF NextAttempt
<1>7. CASE PlacementFor(n)
  <2>1. ASSUME NEW o \in Candidates(n), Start(Client(n), "acquire", o)
        PROVE  DirectoryInv' /\ \A u \in Task : u # Client(n) => call'[u] = call[u]
    BY <1>4, <2>1, ClientKnows DEF DirectoryInv
  <2> QED
    BY <1>6, <1>7, <2>1 DEF PlacementFor
<1>8. CASE call[Client(n)].got # None /\ UseOwner(n, call[Client(n)].got)
  <2>1. call[Client(n)].got \in Owner
    BY <1>1, <1>8
  <2> QED
    BY <1>3, <1>4, <1>8, <2>1 DEF UseOwner
<1>9. CASE ResolveOwner(n)
  BY <1>6, <1>7, <1>8, <1>9 DEF ResolveOwner
<1> QED
  BY <1>5, <1>9

\* A crash wipes the calls, the cache and the events of its node.
LEMMA CrashForgets ==
  ASSUME DirectoryInv, NEW m \in Node, Crash(m)
  PROVE  /\ DirectoryInv' /\ call' \in [Task -> CallRecord] /\ UNCHANGED <<owner, epoch>>
         /\ \A u \in Task : call'[u] = IF Home(u) = m THEN Idle ELSE call[u]
<1>1. /\ owner \in Owner \cup {None} /\ epoch \in Nat
      /\ cache \in [Node -> [owner : Owner, epoch : Nat] \cup {None}]
      /\ events \in [Node -> Nat] /\ call \in [Task -> CallRecord]
  BY Types DEF DirectoryInv
<1>2. Idle \in CallRecord /\ Idle.step = "idle"
  BY CallTypes
<1>3. /\ UNCHANGED <<owner, epoch>> /\ cache' = [cache EXCEPT ![m] = None]
      /\ events' = [events EXCEPT ![m] = 0]
      /\ call' = [t \in Task |-> IF Home(t) = m THEN Idle ELSE call[t]]
  BY DEF Crash
<1>4. /\ call' \in [Task -> CallRecord]
      /\ \A u \in Task : call'[u] = IF Home(u) = m THEN Idle ELSE call[u]
  BY <1>1, <1>2, <1>3
<1>5. /\ cache' \in [Node -> [owner : Owner, epoch : Nat] \cup {None}] /\ events' \in [Node -> Nat]
      /\ \A n \in Node : cache'[n] \in {None, cache[n]}
      /\ \A n \in Node : events'[n] \in {0, events[n]}
  BY <1>1, <1>3
<1>6. DirectoryTypeOK'
  BY <1>1, <1>3, <1>4, <1>5 DEF DirectoryTypeOK, CallRecord
<1>7. Calls'
  BY <1>2, <1>3, <1>4 DEF DirectoryInv, Calls
<1>8. CacheFenced'
  <2>1. ASSUME NEW n \in Node, cache'[n] # None
        PROVE  /\ cache'[n].epoch <= epoch'
               /\ cache'[n].epoch = epoch' => owner' \in {cache'[n].owner, None}
    BY <1>3, <1>5, <2>1 DEF DirectoryInv, CacheFenced
  <2>2. ASSUME NEW u \in Task, call'[u].step = "finish", call'[u].got # None
        PROVE  /\ call'[u].epoch <= epoch'
               /\ call'[u].epoch = epoch' => owner' \in {call'[u].got, None}
    <3>1. call'[u] = call[u]
      BY <1>2, <1>4, <2>2
    <3> QED
      BY <1>3, <2>2, <3>1 DEF DirectoryInv, CacheFenced
  <2>3. \A n \in Node : events'[n] <= epoch'
    BY <1>1, <1>3, <1>5 DEF DirectoryInv, CacheFenced
  <2> QED
    BY <2>1, <2>2, <2>3 DEF CacheFenced
<1> QED
  BY <1>3, <1>4, <1>6, <1>7, <1>8 DEF DirectoryInv

\* The error of a script ends a call, and only that.
LEMMA Failing ==
  ASSUME DirectoryInv, NEW t \in Task, ScriptFails(t)
  PROVE  /\ DirectoryInv' /\ UNCHANGED <<owner, epoch>>
         /\ call[t].step # "idle"
         /\ Becomes(t, CallAt(call[t].op, None, "error", None, 0, FALSE))
<1> DEFINE r == CallAt(call[t].op, None, "error", None, 0, FALSE)
<1>1. /\ call[t] \in CallRecord /\ call[t].step # "idle"
      /\ call' = [call EXCEPT ![t] = r] /\ UNCHANGED <<owner, epoch, cache, events>>
  BY Types DEF DirectoryInv, ScriptFails
<1>2. r \in CallRecord /\ r.step = "error"
  BY <1>1 DEF CallAt, CallRecord
<1> HIDE DEF r
<1>3. Becomes(t, r)
  BY <1>1, <1>2, Becoming DEF DirectoryInv
<1>4. /\ cache' \in [Node -> [owner : Owner, epoch : Nat] \cup {None}]
      /\ events' \in [Node -> Nat] /\ \A n \in Node : events'[n] <= epoch
  BY <1>1, Types DEF DirectoryInv, CacheFenced
<1>5. DirectoryInv'
  BY <1>1, <1>2, <1>3, <1>4, QuietStep
<1> QED
  BY <1>1, <1>3, <1>5 DEF r

\* Events arrive, cache entries and leases expire.
LEMMA Expiring ==
  ASSUME DirectoryInv, (\E n \in Node : CacheStep(n)) \/ LeaseExpires
  PROVE  DirectoryInv' /\ UNCHANGED <<epoch, call>> /\ owner' \in {owner, None}
<1>1. /\ owner \in Owner \cup {None} /\ epoch \in Nat
      /\ cache \in [Node -> [owner : Owner, epoch : Nat] \cup {None}]
      /\ events \in [Node -> Nat] /\ call \in [Task -> CallRecord]
  BY Types DEF DirectoryInv
<1>2. /\ UNCHANGED <<epoch, call>> /\ owner' \in {owner, None}
      /\ cache' \in [Node -> [owner : Owner, epoch : Nat] \cup {None}] /\ events' \in [Node -> Nat]
      /\ \A n \in Node : cache'[n] \in {None, cache[n]}
      /\ \A n \in Node : events'[n] \in {0, events[n]}
  <2>1. ASSUME NEW n \in Node, HandleOwnerEvent(n) PROVE <1>2!:
    <3>1. TryDelCached(n, events[n]) /\ events' = [events EXCEPT ![n] = 0] /\ UNCHANGED <<owner, epoch, call>>
      BY <2>1 DEF HandleOwnerEvent
    <3> QED
      BY <1>1, <3>1, CacheDeletes
  <2>2. ASSUME NEW n \in Node, CacheExpires(n) PROVE <1>2!:
    BY <1>1, <2>2 DEF CacheExpires
  <2>3. CASE LeaseExpires
    BY <1>1, <2>3 DEF LeaseExpires
  <2> QED
    BY <2>1, <2>2, <2>3 DEF CacheStep
<1>3. DirectoryTypeOK' /\ Calls'
  BY <1>1, <1>2 DEF DirectoryInv, DirectoryTypeOK, Calls, CallRecord
<1>4. CacheFenced'
  <2>1. ASSUME NEW n \in Node, cache'[n] # None
        PROVE  /\ cache'[n].epoch <= epoch'
               /\ cache'[n].epoch = epoch' => owner' \in {cache'[n].owner, None}
    BY <1>2, <2>1 DEF DirectoryInv, CacheFenced
  <2>2. ASSUME NEW u \in Task, call'[u].step = "finish", call'[u].got # None
        PROVE  /\ call'[u].epoch <= epoch'
               /\ call'[u].epoch = epoch' => owner' \in {call'[u].got, None}
    BY <1>2, <2>2 DEF DirectoryInv, CacheFenced
  <2>3. \A n \in Node : events'[n] <= epoch'
    BY <1>1, <1>2 DEF DirectoryInv, CacheFenced
  <2> QED
    BY <2>1, <2>2, <2>3 DEF CacheFenced
<1> QED
  BY <1>2, <1>3, <1>4 DEF DirectoryInv

-----------------------------------------------------------------------------
(* One step of the system.                                                 *)

\* Every step keeps the invariant of the directory.
LEMMA StepDirectory ==
  ASSUME IInv, [Next]_vars
  PROVE  DirectoryInv'
<1>0. DirectoryInv
  BY Types DEF IInv, DirectoryInv
<1> USE <1>0
<1>1. ASSUME NEW n \in Node, Resolve(n) PROVE DirectoryInv'
  BY <1>1, ResolveCalls, Types DEF IInv
<1>2. ASSUME NEW n \in Node, ResolveOwner(n) PROVE DirectoryInv'
  BY <1>2, ResolveCalls, Types DEF IInv
<1>3. ASSUME NEW n \in Node, LoseRequest(n) PROVE DirectoryInv'
  BY <1>3 DEF LoseRequest, directoryVars, vars, DirectoryInv, DirectoryTypeOK, Calls, CacheFenced
<1>4. ASSUME NEW n \in Node, GoesOn(n) PROVE DirectoryInv'
  BY <1>4 DEF GoesOn, directoryVars, vars, DirectoryInv, DirectoryTypeOK, Calls, CacheFenced
<1>5. ASSUME NEW m \in Node, NEW n \in Node, RouteLocal(m, n) PROVE DirectoryInv'
  BY <1>5 DEF RouteLocal, directoryVars, vars, DirectoryInv, DirectoryTypeOK, Calls, CacheFenced
<1>6. ASSUME NEW m \in Node, NEW n \in Node, RouteAcquire(m, n) PROVE DirectoryInv'
  <2>1. Self(m) \in Owner /\ Router(m) \in Task
    BY Types, Tasks, SelfIsOwner DEF IInv
  <2> QED
    BY <1>6, <2>1, Begins DEF RouteAcquire
<1>7. ASSUME NEW m \in Node, RouteFails(m) PROVE DirectoryInv'
  BY <1>7, Tasks, Finishes DEF RouteFails
<1>8. ASSUME NEW m \in Node, ForwardToOwner(m) PROVE DirectoryInv'
  BY <1>8, Tasks, Finishes DEF ForwardToOwner
<1>9. ASSUME NEW m \in Node, ActivateActor(m) PROVE DirectoryInv'
  BY <1>9, Tasks, Finishes DEF ActivateActor
<1>10. ASSUME NEW m \in Node, ActivateFails(m) PROVE DirectoryInv'
  <2>1. Self(m) \in Owner /\ Router(m) \in Task
    BY Types, Tasks, SelfIsOwner DEF IInv
  <2> QED
    BY <1>10, <2>1, Begins DEF ActivateFails
<1>11. ASSUME NEW m \in Node, CleanedUp(m) PROVE DirectoryInv'
  BY <1>11, Tasks, Finishes DEF CleanedUp
<1>12. ASSUME NEW m \in Node, RenewOwner(m) PROVE DirectoryInv'
  BY <1>12 DEF RenewOwner, directoryVars, vars, DirectoryInv, DirectoryTypeOK, Calls, CacheFenced
<1>13. ASSUME NEW m \in Node, ActorStops(m) PROVE DirectoryInv'
  <2>1. Self(m) \in Owner /\ Actor(m) \in Task
    BY Types, Tasks, SelfIsOwner DEF IInv
  <2> QED
    BY <1>13, <2>1, Begins DEF ActorStops
<1>14. ASSUME NEW m \in Node, Destroyed(m) PROVE DirectoryInv'
  BY <1>14, Tasks, Finishes DEF Destroyed
<1>15. ASSUME NEW t \in Task, Acquire(t) PROVE DirectoryInv'
  BY <1>15, ScriptKeeps DEF Acquire
<1>16. ASSUME NEW t \in Task, Delete(t) PROVE DirectoryInv'
  BY <1>16, ScriptKeeps DEF Delete
<1>17. ASSUME NEW t \in Task, Operation(t) PROVE DirectoryInv'
  BY <1>17, OperationFacts DEF Operation
<1>18. ASSUME NEW t \in Task, RedisFails(t) PROVE DirectoryInv'
  BY <1>18, Failing DEF RedisFails
<1>19. CASE Lapse
  BY <1>19, Expiring DEF Lapse
<1>20. ASSUME NEW n \in Node, Cached(n) PROVE DirectoryInv'
  BY <1>20, Expiring DEF Cached
<1>21. ASSUME NEW m \in Node, Crash(m) PROVE DirectoryInv'
  BY <1>21, CrashForgets
<1>22. ASSUME NEW m \in Node, Restart(m) PROVE DirectoryInv'
  BY <1>22 DEF Restart, directoryVars, vars, DirectoryInv, DirectoryTypeOK, Calls, CacheFenced
<1>23. ASSUME NEW n \in Node, NEW m \in Node, Discover(n, m) PROVE DirectoryInv'
  BY <1>23 DEF Discover, directoryVars, vars, DirectoryInv, DirectoryTypeOK, Calls, CacheFenced
<1>24. ASSUME NEW n \in Node, NEW m \in Node, Forget(n, m) PROVE DirectoryInv'
  BY <1>24 DEF Forget, directoryVars, vars, DirectoryInv, DirectoryTypeOK, Calls, CacheFenced
<1>25. CASE UNCHANGED vars
  BY <1>25 DEF vars, directoryVars, vars, DirectoryInv, DirectoryTypeOK, Calls, CacheFenced
<1> QED
  BY <1>1, <1>2, <1>3, <1>4, <1>5, <1>6, <1>7, <1>8, <1>9, <1>10, <1>11, <1>12,
     <1>13, <1>14, <1>15, <1>16, <1>17, <1>18, <1>19, <1>20, <1>21, <1>22, <1>23, <1>24, <1>25, RouterAssumption
     DEF Next, ClientStep, RouterStep, ActorStep

\* Every step keeps the types of nodes and activations.
LEMMA StepActorTypes ==
  ASSUME IInv, [Next]_vars
  PROVE  ActorTypeOK'
<1>0. ActorTypeOK
  BY Types DEF IInv
<1> USE <1>0
<1> USE DirectoryAssumption, RouterAssumption DEF ActorTypeOK, nodeVars, actorVars, boundVars
<1>1. ASSUME NEW n \in Node, Resolve(n) PROVE ActorTypeOK'
  BY <1>1 DEF Resolve
<1>2. ASSUME NEW n \in Node, ResolveOwner(n) PROVE ActorTypeOK'
  BY <1>2 DEF ResolveOwner
<1>3. ASSUME NEW n \in Node, LoseRequest(n) PROVE ActorTypeOK'
  BY <1>3 DEF LoseRequest
<1>4. ASSUME NEW n \in Node, GoesOn(n) PROVE ActorTypeOK'
  BY <1>4 DEF GoesOn
<1>5. ASSUME NEW m \in Node, NEW n \in Node, RouteLocal(m, n) PROVE ActorTypeOK'
  BY <1>5 DEF RouteLocal
<1>6. ASSUME NEW m \in Node, NEW n \in Node, RouteAcquire(m, n) PROVE ActorTypeOK'
  BY <1>6 DEF RouteAcquire
<1>7. ASSUME NEW m \in Node, RouteFails(m) PROVE ActorTypeOK'
  BY <1>7 DEF RouteFails
<1>8. ASSUME NEW m \in Node, ForwardToOwner(m) PROVE ActorTypeOK'
  BY <1>8 DEF ForwardToOwner
<1>9. ASSUME NEW m \in Node, ActivateActor(m) PROVE ActorTypeOK'
  BY <1>9 DEF ActivateActor
<1>10. ASSUME NEW m \in Node, ActivateFails(m) PROVE ActorTypeOK'
  BY <1>10 DEF ActivateFails, Fault
<1>11. ASSUME NEW m \in Node, CleanedUp(m) PROVE ActorTypeOK'
  BY <1>11 DEF CleanedUp
<1>12. ASSUME NEW m \in Node, RenewOwner(m) PROVE ActorTypeOK'
  BY <1>12 DEF RenewOwner
<1>13. ASSUME NEW m \in Node, ActorStops(m) PROVE ActorTypeOK'
  BY <1>13 DEF ActorStops
<1>14. ASSUME NEW m \in Node, Destroyed(m) PROVE ActorTypeOK'
  BY <1>14 DEF Destroyed
<1>15. ASSUME NEW t \in Task, Acquire(t) PROVE ActorTypeOK'
  <2>1. Home(t) \in Node /\ call[t].arg \in Owner /\ call[t].arg.node \in Node
    BY <1>15, Tasks, Types, AcquireScript DEF Acquire, IInv, DirectoryInv, Owner
  <2> QED
    BY <1>15, <2>1 DEF Acquire
<1>16. ASSUME NEW t \in Task, Delete(t) PROVE ActorTypeOK'
  <2>1. call[t].arg \in Owner /\ call[t].arg.node \in Node
    BY <1>16, Types, DeleteScript DEF Delete, IInv, DirectoryInv, Owner
  <2> QED
    BY <1>16, <2>1 DEF Delete
<1>17. ASSUME NEW t \in Task, Operation(t) PROVE ActorTypeOK'
  BY <1>17 DEF Operation
<1>18. ASSUME NEW t \in Task, RedisFails(t) PROVE ActorTypeOK'
  BY <1>18 DEF RedisFails, Fault
<1>19. CASE Lapse
  <2>1. owner \in Owner /\ owner.node \in Node
    BY <1>19, Types DEF Lapse, LeaseExpires, IInv, Owner
  <2> QED
    BY <1>19, <2>1 DEF Lapse, Fault
<1>20. ASSUME NEW n \in Node, Cached(n) PROVE ActorTypeOK'
  BY <1>20 DEF Cached
<1>21. ASSUME NEW m \in Node, Crash(m) PROVE ActorTypeOK'
  BY <1>21 DEF Crash, Fault
<1>22. ASSUME NEW m \in Node, Restart(m) PROVE ActorTypeOK'
  BY <1>22 DEF Restart
<1>23. ASSUME NEW n \in Node, NEW m \in Node, Discover(n, m) PROVE ActorTypeOK'
  BY <1>23 DEF Discover
<1>24. ASSUME NEW n \in Node, NEW m \in Node, Forget(n, m) PROVE ActorTypeOK'
  BY <1>24 DEF Forget, Fault
<1>25. CASE UNCHANGED vars
  BY <1>25 DEF vars
<1> QED
  BY <1>1, <1>2, <1>3, <1>4, <1>5, <1>6, <1>7, <1>8, <1>9, <1>10, <1>11, <1>12,
     <1>13, <1>14, <1>15, <1>16, <1>17, <1>18, <1>19, <1>20, <1>21, <1>22, <1>23, <1>24, <1>25, RouterAssumption
     DEF Next, ClientStep, RouterStep, ActorStep

\* Requests, jobs and clients keep their types when they are handed on.
ClientType ==
  [pc : {"idle", "get", "place", "delete", "sent"}, attempt : 0..maxOwnerResolveAttempts,
   left : 0..MaxRequests]
RequestType == [at : Node \cup {None}, id : 0..MaxRequests, count : 0..maxRouteForwards]

\* Types of what a client, its request and a router's job become.
LEMMA Handing ==
  ASSUME RouterTypeOK
  PROVE  /\ client \in [Node -> ClientType] /\ request \in [Node -> RequestType]
         /\ router \in [Node -> JobType \cup {None}] /\ NoRequest \in RequestType
         /\ \A n \in Node : Job(n) \in JobType /\ Quiet(client[n]) \in ClientType /\ Job(n) # None
         /\ \A job \in JobType : Answer(job) => client' \in [Node -> ClientType]
<1>1. /\ client \in [Node -> ClientType] /\ request \in [Node -> RequestType]
      /\ router \in [Node -> JobType \cup {None}]
  BY DEF RouterTypeOK, ClientType, RequestType
<1>2. NoRequest \in RequestType
  BY RouterAssumption DEF NoRequest, RequestType, maxRouteForwards
<1>3. ASSUME NEW n \in Node PROVE Job(n) \in JobType /\ Job(n) # None /\ Quiet(client[n]) \in ClientType
  <2>1. Job(n) \in JobType
    BY <1>1 DEF RequestType, Job, JobType
  <2>2. Quiet(client[n]) \in ClientType
    BY <1>1 DEF ClientType, Quiet, maxOwnerResolveAttempts
  <2> QED
    BY <2>1, <2>2, JobAssumption
<1>4. ASSUME NEW job \in JobType, Answer(job) PROVE client' \in [Node -> ClientType]
  <2>1. job.from \in Node
    BY DEF JobType
  <2> QED
    BY <1>1, <1>3, <1>4, <2>1 DEF Answer
<1> QED
  BY <1>1, <1>2, <1>3, <1>4

\* Every step keeps the types of clients and routers.
LEMMA StepRouterTypes ==
  ASSUME IInv, [Next]_vars
  PROVE  RouterTypeOK'
<1>0. RouterTypeOK
  BY Types DEF IInv
<1> USE <1>0
<1>1. ASSUME NEW n \in Node, Resolve(n) PROVE RouterTypeOK'
  <2>1. client[n] \in ClientType /\ client[n].left > 0
    BY <1>1, Handing DEF Resolve
  <2>2. [pc |-> "get", attempt |-> 1, left |-> client[n].left - 1] \in ClientType
    BY <2>1, RouterAssumption DEF ClientType, maxOwnerResolveAttempts
  <2>3. client' \in [Node -> ClientType] /\ UNCHANGED <<request, router>>
    BY <1>1, <2>2, Handing DEF Resolve
  <2> QED
    BY <2>3, Handing DEF RouterTypeOK, ClientType, RequestType
<1>2. ASSUME NEW n \in Node, ResolveOwner(n) PROVE RouterTypeOK'
  <2>1. client \in [Node -> ClientType] /\ request \in [Node -> RequestType] /\ UNCHANGED router
    BY <1>2, Handing DEF ResolveOwner
  <2>2. client[n] \in ClientType
    BY <2>1
  <2>3. CASE NextAttempt(n) /\ UNCHANGED request
    <3>1. CASE client[n].attempt < maxOwnerResolveAttempts
      <4>1. client[n].attempt + 1 \in 0..maxOwnerResolveAttempts
        BY <2>2, <3>1 DEF ClientType, maxOwnerResolveAttempts
      <4>2. client' \in [Node -> ClientType]
        BY <2>1, <2>3, <3>1, <4>1 DEF NextAttempt, ClientType
      <4> QED
        BY <2>1, <2>3, <4>2, Handing DEF RouterTypeOK, ClientType, RequestType
    <3>2. CASE ~(client[n].attempt < maxOwnerResolveAttempts)
      <4>1. client' \in [Node -> ClientType]
        BY <2>1, <2>3, <3>2, Handing DEF NextAttempt
      <4> QED
        BY <2>1, <2>3, <4>1, Handing DEF RouterTypeOK, ClientType, RequestType
    <3> QED
      BY <3>1, <3>2
  <2>4. CASE PlacementFor(n) /\ UNCHANGED request
    <3>1. CASE client' = [client EXCEPT ![n].pc = "place"]
      <4>1. client' \in [Node -> ClientType]
        BY <2>1, <3>1 DEF ClientType
      <4> QED
        BY <2>1, <2>4, <4>1, Handing DEF RouterTypeOK, ClientType, RequestType
    <3> QED
      BY <2>3, <2>4, <3>1 DEF PlacementFor
  <2>5. CASE call[Client(n)].got # None /\ UseOwner(n, call[Client(n)].got)
    <3>1. call[Client(n)].got \in Owner /\ call[Client(n)].got.node \in Node
      BY <2>5, Types, ClientKnows DEF IInv, Owner
    <3>2. client' \in [Node -> ClientType]
      <4>1. CASE client' = [client EXCEPT ![n].pc = "sent", ![n].attempt = 0]
        <5>1. 0 \in 0..maxOwnerResolveAttempts
          BY DEF maxOwnerResolveAttempts
        <5> QED
          BY <2>1, <4>1, <5>1 DEF ClientType
      <4>2. CASE client' = [client EXCEPT ![n].pc = "delete"]
        BY <2>1, <4>2 DEF ClientType
      <4> QED
        BY <2>5, <4>1, <4>2 DEF UseOwner
    <3>3. request' \in [Node -> RequestType]
      <4>1. [at |-> call[Client(n)].got.node, id |-> client[n].left, count |-> 0] \in RequestType
        BY <2>2, <3>1 DEF RequestType, ClientType, maxRouteForwards
      <4> QED
        BY <2>1, <2>5, <4>1 DEF UseOwner
    <3> QED
      BY <2>1, <3>2, <3>3, Handing DEF RouterTypeOK, ClientType, RequestType
  <2> QED
    BY <1>2, <2>3, <2>4, <2>5 DEF ResolveOwner
<1>3. ASSUME NEW n \in Node, LoseRequest(n) PROVE RouterTypeOK'
  <2>1. Answer(Job(n)) /\ Job(n) \in JobType
    BY <1>3, Handing DEF LoseRequest
  <2>2. client' \in [Node -> ClientType]
    BY <2>1, Handing
  <2>3. request' \in [Node -> RequestType] /\ UNCHANGED router
    BY <1>3, Handing DEF LoseRequest
  <2> QED
    BY <2>2, <2>3, Handing DEF RouterTypeOK, ClientType, RequestType
<1>4. ASSUME NEW n \in Node, GoesOn(n) PROVE RouterTypeOK'
  <2>1. client' \in [Node -> ClientType] /\ UNCHANGED <<request, router>>
    BY <1>4, Handing DEF GoesOn
  <2> QED
    BY <2>1, Handing DEF RouterTypeOK, ClientType, RequestType
<1>5. ASSUME NEW m \in Node, NEW n \in Node, RouteLocal(m, n) PROVE RouterTypeOK'
  <2>1. Answer(Job(n)) /\ Job(n) \in JobType
    BY <1>5, Handing DEF RouteLocal
  <2>2. client' \in [Node -> ClientType]
    BY <2>1, Handing
  <2>3. request' \in [Node -> RequestType] /\ UNCHANGED router
    BY <1>5, Handing DEF RouteLocal
  <2> QED
    BY <2>2, <2>3, Handing DEF RouterTypeOK, ClientType, RequestType
<1>6. ASSUME NEW m \in Node, NEW n \in Node, RouteAcquire(m, n) PROVE RouterTypeOK'
  <2>1. router' \in [Node -> JobType \cup {None}] /\ request' \in [Node -> RequestType] /\ UNCHANGED client
    BY <1>6, Handing DEF RouteAcquire
  <2> QED
    BY <2>1, Handing DEF RouterTypeOK, ClientType, RequestType
<1>7. ASSUME NEW m \in Node, RouteFails(m) PROVE RouterTypeOK'
  <2>1. router[m] \in JobType /\ Answer(router[m])
    BY <1>7, Handing DEF RouteFails
  <2>2. client' \in [Node -> ClientType]
    BY <2>1, Handing
  <2>3. router' \in [Node -> JobType \cup {None}] /\ UNCHANGED request
    BY <1>7, Handing DEF RouteFails
  <2> QED
    BY <2>2, <2>3, Handing DEF RouterTypeOK, ClientType, RequestType
<1>8. ASSUME NEW m \in Node, ForwardToOwner(m) PROVE RouterTypeOK'
  <2>1. router' \in [Node -> JobType \cup {None}] /\ UNCHANGED client
    BY <1>8, Handing DEF ForwardToOwner
  <2>2. router[m] \in JobType /\ router[m].count < maxRouteForwards
    BY <1>8, Handing DEF ForwardToOwner, IInv, Work, WorkAt
  <2>3. call[Router(m)] \in CallRecord /\ call[Router(m)].got # None
    BY <1>8, Tasks, Types DEF ForwardToOwner, IInv, Calls
  <2>4. call[Router(m)].got \in Owner /\ call[Router(m)].got.node \in Node
    BY <2>3 DEF CallRecord, Owner
  <2>5. [at |-> call[Router(m)].got.node, id |-> router[m].id, count |-> router[m].count + 1] \in RequestType
    BY <2>2, <2>4 DEF JobType, RequestType, maxRouteForwards
  <2>6. request' \in [Node -> RequestType]
    BY <1>8, <2>5, Handing DEF ForwardToOwner
  <2> QED
    BY <2>1, <2>6, Handing DEF RouterTypeOK, ClientType, RequestType
<1>9. ASSUME NEW m \in Node, ActivateActor(m) PROVE RouterTypeOK'
  <2>1. router[m] \in JobType /\ Answer(router[m])
    BY <1>9, Handing DEF ActivateActor
  <2>2. client' \in [Node -> ClientType]
    BY <2>1, Handing
  <2>3. router' \in [Node -> JobType \cup {None}] /\ UNCHANGED request
    BY <1>9, Handing DEF ActivateActor
  <2> QED
    BY <2>2, <2>3, Handing DEF RouterTypeOK, ClientType, RequestType
<1>10. ASSUME NEW m \in Node, ActivateFails(m) PROVE RouterTypeOK'
  BY <1>10 DEF ActivateFails, RouterTypeOK, clientVars, vars
<1>11. ASSUME NEW m \in Node, CleanedUp(m) PROVE RouterTypeOK'
  <2>1. router[m] \in JobType /\ Answer(router[m])
    BY <1>11, Handing DEF CleanedUp
  <2>2. client' \in [Node -> ClientType]
    BY <2>1, Handing
  <2>3. router' \in [Node -> JobType \cup {None}] /\ UNCHANGED request
    BY <1>11, Handing DEF CleanedUp
  <2> QED
    BY <2>2, <2>3, Handing DEF RouterTypeOK, ClientType, RequestType
<1>12. ASSUME NEW m \in Node, RenewOwner(m) PROVE RouterTypeOK'
  BY <1>12 DEF RenewOwner, RouterTypeOK, clientVars, vars
<1>13. ASSUME NEW m \in Node, ActorStops(m) PROVE RouterTypeOK'
  BY <1>13 DEF ActorStops, RouterTypeOK, clientVars, vars
<1>14. ASSUME NEW m \in Node, Destroyed(m) PROVE RouterTypeOK'
  BY <1>14 DEF Destroyed, RouterTypeOK, clientVars, vars
<1>15. ASSUME NEW t \in Task, Acquire(t) PROVE RouterTypeOK'
  BY <1>15 DEF Acquire, RouterTypeOK, clientVars, vars
<1>16. ASSUME NEW t \in Task, Delete(t) PROVE RouterTypeOK'
  BY <1>16 DEF Delete, RouterTypeOK, clientVars, vars
<1>17. ASSUME NEW t \in Task, Operation(t) PROVE RouterTypeOK'
  BY <1>17 DEF Operation, RouterTypeOK, clientVars, vars
<1>18. ASSUME NEW t \in Task, RedisFails(t) PROVE RouterTypeOK'
  BY <1>18 DEF RedisFails, RouterTypeOK, clientVars, vars
<1>19. CASE Lapse
  BY <1>19 DEF Lapse, RouterTypeOK, clientVars, vars
<1>20. ASSUME NEW n \in Node, Cached(n) PROVE RouterTypeOK'
  BY <1>20 DEF Cached, RouterTypeOK, clientVars, vars
<1>21. ASSUME NEW m \in Node, Crash(m) PROVE RouterTypeOK'
  <2>1. client' \in [Node -> ClientType]
    BY <1>21, Handing DEF Crash
  <2>2. request' \in [Node -> RequestType]
    BY <1>21, Handing DEF Crash
  <2>3. router' \in [Node -> JobType \cup {None}]
    BY <1>21, Handing DEF Crash
  <2> QED
    BY <2>1, <2>2, <2>3 DEF RouterTypeOK, ClientType, RequestType
<1>22. ASSUME NEW m \in Node, Restart(m) PROVE RouterTypeOK'
  BY <1>22 DEF Restart, RouterTypeOK, clientVars, vars
<1>23. ASSUME NEW n \in Node, NEW m \in Node, Discover(n, m) PROVE RouterTypeOK'
  BY <1>23 DEF Discover, RouterTypeOK, clientVars, vars
<1>24. ASSUME NEW n \in Node, NEW m \in Node, Forget(n, m) PROVE RouterTypeOK'
  BY <1>24 DEF Forget, RouterTypeOK, clientVars, vars
<1>25. CASE UNCHANGED vars
  BY <1>25 DEF vars, RouterTypeOK, clientVars, vars
<1> QED
  BY <1>1, <1>2, <1>3, <1>4, <1>5, <1>6, <1>7, <1>8, <1>9, <1>10, <1>11, <1>12,
     <1>13, <1>14, <1>15, <1>16, <1>17, <1>18, <1>19, <1>20, <1>21, <1>22, <1>23, <1>24, <1>25, RouterAssumption
     DEF Next, ClientStep, RouterStep, ActorStep

\* A script leaves its reply for the last step of the call.
LEMMA ScriptReplies ==
  ASSUME DirectoryInv, NEW t \in Task, AcquireOwnerFromRedis(t) \/ DeleteOwnerFromRedis(t)
  PROVE  \E r \in CallRecord :
           Becomes(t, r) /\ r.op = call[t].op /\ r.step = "finish" /\ call[t].step # "idle"
<1>1. call \in [Task -> CallRecord] /\ call[t] \in CallRecord
  BY Types DEF DirectoryInv
<1>2. CASE AcquireOwnerFromRedis(t)
  <2>1. PICK r : /\ Becomes(t, r) /\ r.op = "acquire" /\ r.step = "finish"
                 /\ call[t].op = "acquire" /\ call[t].step = "script"
    BY <1>2, AcquireScript DEF CallAt
  <2> QED
    BY <2>1 DEF Becomes
<1>3. CASE DeleteOwnerFromRedis(t)
  <2>1. PICK r : /\ Becomes(t, r) /\ r.op = "delete" /\ r.step = "finish"
                 /\ call[t].op = "delete" /\ call[t].step = "script"
    BY <1>3, DeleteScript DEF CallAt
  <2> QED
    BY <2>1 DEF Becomes
<1> QED
  BY <1>2, <1>3

\* Who has nothing to do with routers and activations.
LEMMA WorkKept ==
  ASSUME IInv, UNCHANGED <<router, active, inst, up>>,
         \A k \in Node : call'[Router(k)] = call[Router(k)] /\ call'[Actor(k)] = call[Actor(k)]
  PROVE  Work'
BY DEF IInv, Work, WorkAt, Self

\* The calls of one router or of one activation change, and with them only what
\* that node does.
LEMMA WorkHere ==
  ASSUME IInv, NEW m \in Node, UNCHANGED <<inst, up>>, WorkAt(m)',
         \A k \in Node : k # m =>
           /\ router'[k] = router[k] /\ active'[k] = active[k]
           /\ call'[Router(k)] = call[Router(k)] /\ call'[Actor(k)] = call[Actor(k)]
  PROVE  Work'
<1>1. ASSUME NEW k \in Node, k # m PROVE WorkAt(k)'
  BY <1>1 DEF IInv, Work, WorkAt, Self
<1> QED
  BY <1>1 DEF Work

\* Every step keeps Work.
LEMMA StepWork ==
  ASSUME IInv, [Next]_vars
  PROVE  Work'
<1>0. DirectoryInv /\ ActorTypeOK /\ RouterTypeOK /\ DirectoryTypeOK
  BY Types DEF IInv, DirectoryInv
<1> USE <1>0
<1>1. ASSUME NEW n \in Node, Resolve(n) PROVE Work'
  <2>1. \A u \in Task : u # Client(n) => call'[u] = call[u]
    BY <1>1, ResolveCalls
  <2>2. \A k \in Node : call'[Router(k)] = call[Router(k)] /\ call'[Actor(k)] = call[Actor(k)]
    BY <2>1, Tasks, Apart
  <2> QED
    BY <1>1, <2>2, WorkKept DEF Resolve, nodeVars, actorVars
<1>2. ASSUME NEW n \in Node, ResolveOwner(n) PROVE Work'
  <2>1. \A u \in Task : u # Client(n) => call'[u] = call[u]
    BY <1>2, ResolveCalls
  <2>2. \A k \in Node : call'[Router(k)] = call[Router(k)] /\ call'[Actor(k)] = call[Actor(k)]
    BY <2>1, Tasks, Apart
  <2> QED
    BY <1>2, <2>2, WorkKept DEF ResolveOwner, nodeVars, actorVars
<1>3. ASSUME NEW n \in Node, LoseRequest(n) PROVE Work'
  BY <1>3, WorkKept DEF LoseRequest, vars, directoryVars, nodeVars, actorVars
<1>4. ASSUME NEW n \in Node, GoesOn(n) PROVE Work'
  BY <1>4, WorkKept DEF GoesOn, vars, directoryVars, nodeVars, actorVars
<1>5. ASSUME NEW m \in Node, NEW n \in Node, RouteLocal(m, n) PROVE Work'
  BY <1>5, WorkKept DEF RouteLocal, vars, directoryVars, nodeVars, actorVars
<1>6. ASSUME NEW m \in Node, NEW n \in Node, RouteAcquire(m, n) PROVE Work'
  <2>1. Becomes(Router(m), Call("acquire", Self(m))) /\ UNCHANGED <<inst, up>>
    BY <1>6, Tasks, SelfIsOwner, Begins DEF RouteAcquire, nodeVars
  <2>2. /\ WorkAt(m) /\ router \in [Node -> JobType \cup {None}]
        /\ active \in [Node -> {"none", "running", "destroying"}]
    BY DEF IInv, Work, RouterTypeOK, ActorTypeOK
  <2>3. /\ call'[Router(m)] = Call("acquire", Self(m)) /\ call'[Actor(m)] = call[Actor(m)]
        /\ \A k \in Node : k # m =>
             call'[Router(k)] = call[Router(k)] /\ call'[Actor(k)] = call[Actor(k)]
    BY <2>1, Tasks, Apart DEF Becomes
  <2>4. WorkAt(m)'
    BY <1>6, <2>1, <2>2, <2>3, Handing DEF RouteAcquire, WorkAt, Self, Idle, Call, CallAt, actorVars, nodeVars, Job
  <2>5. \A k \in Node : k # m => router'[k] = router[k] /\ active'[k] = active[k]
    BY <1>6, <2>2 DEF RouteAcquire, actorVars
  <2> QED
    BY <2>1, <2>3, <2>4, <2>5, WorkHere
<1>7. ASSUME NEW m \in Node, RouteFails(m) PROVE Work'
  <2>1. Becomes(Router(m), Idle) /\ UNCHANGED <<inst, up>>
    BY <1>7, Tasks, SelfIsOwner, Finishes DEF RouteFails, nodeVars
  <2>2. /\ WorkAt(m) /\ router \in [Node -> JobType \cup {None}]
        /\ active \in [Node -> {"none", "running", "destroying"}]
    BY DEF IInv, Work, RouterTypeOK, ActorTypeOK
  <2>3. /\ call'[Router(m)] = Idle /\ call'[Actor(m)] = call[Actor(m)]
        /\ \A k \in Node : k # m =>
             call'[Router(k)] = call[Router(k)] /\ call'[Actor(k)] = call[Actor(k)]
    BY <2>1, Tasks, Apart DEF Becomes
  <2>4. WorkAt(m)'
    BY <1>7, <2>1, <2>2, <2>3 DEF RouteFails, WorkAt, Self, Idle, Call, CallAt, actorVars, nodeVars
  <2>5. \A k \in Node : k # m => router'[k] = router[k] /\ active'[k] = active[k]
    BY <1>7, <2>2 DEF RouteFails, actorVars
  <2> QED
    BY <2>1, <2>3, <2>4, <2>5, WorkHere
<1>8. ASSUME NEW m \in Node, ForwardToOwner(m) PROVE Work'
  <2>1. Becomes(Router(m), Idle) /\ UNCHANGED <<inst, up>>
    BY <1>8, Tasks, SelfIsOwner, Finishes DEF ForwardToOwner, nodeVars
  <2>2. /\ WorkAt(m) /\ router \in [Node -> JobType \cup {None}]
        /\ active \in [Node -> {"none", "running", "destroying"}]
    BY DEF IInv, Work, RouterTypeOK, ActorTypeOK
  <2>3. /\ call'[Router(m)] = Idle /\ call'[Actor(m)] = call[Actor(m)]
        /\ \A k \in Node : k # m =>
             call'[Router(k)] = call[Router(k)] /\ call'[Actor(k)] = call[Actor(k)]
    BY <2>1, Tasks, Apart DEF Becomes
  <2>4. WorkAt(m)'
    BY <1>8, <2>1, <2>2, <2>3 DEF ForwardToOwner, WorkAt, Self, Idle, Call, CallAt, actorVars, nodeVars
  <2>5. \A k \in Node : k # m => router'[k] = router[k] /\ active'[k] = active[k]
    BY <1>8, <2>2 DEF ForwardToOwner, actorVars
  <2> QED
    BY <2>1, <2>3, <2>4, <2>5, WorkHere
<1>9. ASSUME NEW m \in Node, ActivateActor(m) PROVE Work'
  <2>1. Becomes(Router(m), Idle) /\ UNCHANGED <<inst, up>>
    BY <1>9, Tasks, SelfIsOwner, Finishes DEF ActivateActor, nodeVars
  <2>2. /\ WorkAt(m) /\ router \in [Node -> JobType \cup {None}]
        /\ active \in [Node -> {"none", "running", "destroying"}]
    BY DEF IInv, Work, RouterTypeOK, ActorTypeOK
  <2>3. /\ call'[Router(m)] = Idle /\ call'[Actor(m)] = call[Actor(m)]
        /\ \A k \in Node : k # m =>
             call'[Router(k)] = call[Router(k)] /\ call'[Actor(k)] = call[Actor(k)]
    BY <2>1, Tasks, Apart DEF Becomes
  <2>4. WorkAt(m)'
    BY <1>9, <2>1, <2>2, <2>3 DEF ActivateActor, WorkAt, Self, Idle, Call, CallAt, actorVars, nodeVars
  <2>5. \A k \in Node : k # m => router'[k] = router[k] /\ active'[k] = active[k]
    BY <1>9, <2>2 DEF ActivateActor, actorVars
  <2> QED
    BY <2>1, <2>3, <2>4, <2>5, WorkHere
<1>10. ASSUME NEW m \in Node, ActivateFails(m) PROVE Work'
  <2>1. Becomes(Router(m), Call("delete", Self(m))) /\ UNCHANGED <<inst, up>>
    BY <1>10, Tasks, SelfIsOwner, Begins DEF ActivateFails, nodeVars
  <2>2. /\ WorkAt(m) /\ router \in [Node -> JobType \cup {None}]
        /\ active \in [Node -> {"none", "running", "destroying"}]
    BY DEF IInv, Work, RouterTypeOK, ActorTypeOK
  <2>3. /\ call'[Router(m)] = Call("delete", Self(m)) /\ call'[Actor(m)] = call[Actor(m)]
        /\ \A k \in Node : k # m =>
             call'[Router(k)] = call[Router(k)] /\ call'[Actor(k)] = call[Actor(k)]
    BY <2>1, Tasks, Apart DEF Becomes
  <2>4. WorkAt(m)'
    BY <1>10, <2>1, <2>2, <2>3 DEF ActivateFails, WorkAt, Self, Idle, Call, CallAt, actorVars, nodeVars, Returned
  <2>5. \A k \in Node : k # m => router'[k] = router[k] /\ active'[k] = active[k]
    BY <1>10, <2>2 DEF ActivateFails, actorVars
  <2> QED
    BY <2>1, <2>3, <2>4, <2>5, WorkHere
<1>11. ASSUME NEW m \in Node, CleanedUp(m) PROVE Work'
  <2>1. Becomes(Router(m), Idle) /\ UNCHANGED <<inst, up>>
    BY <1>11, Tasks, SelfIsOwner, Finishes DEF CleanedUp, nodeVars
  <2>2. /\ WorkAt(m) /\ router \in [Node -> JobType \cup {None}]
        /\ active \in [Node -> {"none", "running", "destroying"}]
    BY DEF IInv, Work, RouterTypeOK, ActorTypeOK
  <2>3. /\ call'[Router(m)] = Idle /\ call'[Actor(m)] = call[Actor(m)]
        /\ \A k \in Node : k # m =>
             call'[Router(k)] = call[Router(k)] /\ call'[Actor(k)] = call[Actor(k)]
    BY <2>1, Tasks, Apart DEF Becomes
  <2>4. WorkAt(m)'
    BY <1>11, <2>1, <2>2, <2>3 DEF CleanedUp, WorkAt, Self, Idle, Call, CallAt, actorVars, nodeVars
  <2>5. \A k \in Node : k # m => router'[k] = router[k] /\ active'[k] = active[k]
    BY <1>11, <2>2 DEF CleanedUp, actorVars
  <2> QED
    BY <2>1, <2>3, <2>4, <2>5, WorkHere
<1>12. ASSUME NEW m \in Node, RenewOwner(m) PROVE Work'
  BY <1>12, WorkKept DEF RenewOwner, vars, directoryVars, nodeVars, actorVars
<1>13. ASSUME NEW m \in Node, ActorStops(m) PROVE Work'
  <2>1. Becomes(Actor(m), Call("delete", Self(m))) /\ UNCHANGED <<inst, up>>
    BY <1>13, Tasks, SelfIsOwner, Begins DEF ActorStops, nodeVars
  <2>2. /\ WorkAt(m) /\ router \in [Node -> JobType \cup {None}]
        /\ active \in [Node -> {"none", "running", "destroying"}]
    BY DEF IInv, Work, RouterTypeOK, ActorTypeOK
  <2>3. /\ call'[Actor(m)] = Call("delete", Self(m)) /\ call'[Router(m)] = call[Router(m)]
        /\ \A k \in Node : k # m =>
             call'[Router(k)] = call[Router(k)] /\ call'[Actor(k)] = call[Actor(k)]
    BY <2>1, Tasks, Apart DEF Becomes
  <2>4. WorkAt(m)'
    BY <1>13, <2>1, <2>2, <2>3 DEF ActorStops, WorkAt, Self, Idle, Call, CallAt, actorVars, nodeVars
  <2>5. \A k \in Node : k # m => router'[k] = router[k] /\ active'[k] = active[k]
    BY <1>13, <2>2 DEF ActorStops, actorVars
  <2> QED
    BY <2>1, <2>3, <2>4, <2>5, WorkHere
<1>14. ASSUME NEW m \in Node, Destroyed(m) PROVE Work'
  <2>1. Becomes(Actor(m), Idle) /\ UNCHANGED <<inst, up>>
    BY <1>14, Tasks, SelfIsOwner, Finishes DEF Destroyed, nodeVars
  <2>2. /\ WorkAt(m) /\ router \in [Node -> JobType \cup {None}]
        /\ active \in [Node -> {"none", "running", "destroying"}]
    BY DEF IInv, Work, RouterTypeOK, ActorTypeOK
  <2>3. /\ call'[Actor(m)] = Idle /\ call'[Router(m)] = call[Router(m)]
        /\ \A k \in Node : k # m =>
             call'[Router(k)] = call[Router(k)] /\ call'[Actor(k)] = call[Actor(k)]
    BY <2>1, Tasks, Apart DEF Becomes
  <2>4. WorkAt(m)'
    BY <1>14, <2>1, <2>2, <2>3 DEF Destroyed, WorkAt, Self, Idle, Call, CallAt, actorVars, nodeVars
  <2>5. \A k \in Node : k # m => router'[k] = router[k] /\ active'[k] = active[k]
    BY <1>14, <2>2 DEF Destroyed, actorVars
  <2> QED
    BY <2>1, <2>3, <2>4, <2>5, WorkHere
<1>15. ASSUME NEW t \in Task, Acquire(t) PROVE Work'
  <2>1. UNCHANGED <<router, active, inst, up>>
    BY <1>15 DEF Acquire, nodeVars, actorVars
  <2>2. PICK r \in CallRecord : Becomes(t, r) /\ r.op = call[t].op /\ r.step = "finish" /\ call[t].step # "idle"
    BY <1>15, ScriptReplies DEF Acquire
  <2>3. ASSUME NEW k \in Node PROVE WorkAt(k)'
    <3>1. Router(k) \in Task /\ Actor(k) \in Task /\ WorkAt(k)
      BY Tasks DEF IInv, Work
    <3>2. CASE t # Router(k) /\ t # Actor(k)
      BY <2>1, <2>2, <3>1, <3>2 DEF Becomes, WorkAt, Self
    <3>3. CASE t = Router(k)
      <4>1. Actor(k) # t
        BY <3>3, Apart
      <4> QED
        BY <2>1, <2>2, <3>1, <3>3, <4>1 DEF Becomes, WorkAt, Self
    <3>4. CASE t = Actor(k)
      <4>1. Router(k) # t
        BY <3>4, Apart
      <4> QED
        BY <2>1, <2>2, <3>1, <3>4, <4>1 DEF Becomes, WorkAt, Self
    <3> QED
      BY <3>2, <3>3, <3>4
  <2> QED
    BY <2>3 DEF Work
<1>16. ASSUME NEW t \in Task, Delete(t) PROVE Work'
  <2>1. UNCHANGED <<router, active, inst, up>>
    BY <1>16 DEF Delete, nodeVars, actorVars
  <2>2. PICK r \in CallRecord : Becomes(t, r) /\ r.op = call[t].op /\ r.step = "finish" /\ call[t].step # "idle"
    BY <1>16, ScriptReplies DEF Delete
  <2>3. ASSUME NEW k \in Node PROVE WorkAt(k)'
    <3>1. Router(k) \in Task /\ Actor(k) \in Task /\ WorkAt(k)
      BY Tasks DEF IInv, Work
    <3>2. CASE t # Router(k) /\ t # Actor(k)
      BY <2>1, <2>2, <3>1, <3>2 DEF Becomes, WorkAt, Self
    <3>3. CASE t = Router(k)
      <4>1. Actor(k) # t
        BY <3>3, Apart
      <4> QED
        BY <2>1, <2>2, <3>1, <3>3, <4>1 DEF Becomes, WorkAt, Self
    <3>4. CASE t = Actor(k)
      <4>1. Router(k) # t
        BY <3>4, Apart
      <4> QED
        BY <2>1, <2>2, <3>1, <3>4, <4>1 DEF Becomes, WorkAt, Self
    <3> QED
      BY <3>2, <3>3, <3>4
  <2> QED
    BY <2>3 DEF Work
<1>17. ASSUME NEW t \in Task, Operation(t) PROVE Work'
  <2>1. UNCHANGED <<router, active, inst, up>>
    BY <1>17 DEF Operation, nodeVars, actorVars
  <2>2. PICK r \in CallRecord : Advances(t, r)
    BY <1>17, OperationFacts DEF Operation
  <2>3. ASSUME NEW k \in Node PROVE WorkAt(k)'
    <3>1. Router(k) \in Task /\ Actor(k) \in Task /\ WorkAt(k)
      BY Tasks DEF IInv, Work
    <3>2. CASE t # Router(k) /\ t # Actor(k)
      BY <2>1, <2>2, <3>1, <3>2 DEF Advances, Becomes, WorkAt, Self
    <3>3. CASE t = Router(k)
      <4>1. Actor(k) # t
        BY <3>3, Apart
      <4> QED
        BY <2>1, <2>2, <3>1, <3>3, <4>1 DEF Becomes, WorkAt, Self, Advances
    <3>4. CASE t = Actor(k)
      <4>1. Router(k) # t
        BY <3>4, Apart
      <4> QED
        BY <2>1, <2>2, <3>1, <3>4, <4>1 DEF Becomes, WorkAt, Self, Advances
    <3> QED
      BY <3>2, <3>3, <3>4
  <2> QED
    BY <2>3 DEF Work
<1>18. ASSUME NEW t \in Task, RedisFails(t) PROVE Work'
  <2>1. UNCHANGED <<router, active, inst, up>>
    BY <1>18 DEF RedisFails, nodeVars, actorVars
  <2>2. PICK r \in CallRecord : Becomes(t, r) /\ r.op = call[t].op /\ r.step = "error" /\ call[t].step # "idle"
    <3>1. /\ Becomes(t, CallAt(call[t].op, None, "error", None, 0, FALSE))
          /\ call[t].step # "idle" /\ call[t] \in CallRecord
      BY <1>18, Failing, Types DEF RedisFails, DirectoryInv
    <3> QED
      BY <3>1 DEF CallAt, CallRecord
  <2>3. ASSUME NEW k \in Node PROVE WorkAt(k)'
    <3>1. Router(k) \in Task /\ Actor(k) \in Task /\ WorkAt(k)
      BY Tasks DEF IInv, Work
    <3>2. CASE t # Router(k) /\ t # Actor(k)
      BY <2>1, <2>2, <3>1, <3>2 DEF Becomes, WorkAt, Self
    <3>3. CASE t = Router(k)
      <4>1. Actor(k) # t
        BY <3>3, Apart
      <4> QED
        BY <2>1, <2>2, <3>1, <3>3, <4>1 DEF Becomes, WorkAt, Self
    <3>4. CASE t = Actor(k)
      <4>1. Router(k) # t
        BY <3>4, Apart
      <4> QED
        BY <2>1, <2>2, <3>1, <3>4, <4>1 DEF Becomes, WorkAt, Self
    <3> QED
      BY <3>2, <3>3, <3>4
  <2> QED
    BY <2>3 DEF Work
<1>19. CASE Lapse
  BY <1>19, WorkKept, Expiring DEF Lapse, nodeVars, actorVars
<1>20. ASSUME NEW n \in Node, Cached(n) PROVE Work'
  BY <1>20, WorkKept, Expiring DEF Cached, nodeVars, actorVars
<1>21. ASSUME NEW m \in Node, Crash(m) PROVE Work'
  <2>1. /\ UNCHANGED inst /\ up' = up \ {m} /\ router' = [router EXCEPT ![m] = None]
        /\ active' = [active EXCEPT ![m] = "none"]
    BY <1>21 DEF Crash
  <2>2. ASSUME NEW k \in Node PROVE WorkAt(k)'
    <3>1. /\ call'[Router(k)] = IF k = m THEN Idle ELSE call[Router(k)]
          /\ call'[Actor(k)] = IF k = m THEN Idle ELSE call[Actor(k)]
      BY <1>21, Tasks, CrashForgets
    <3>2. WorkAt(k)
      BY DEF IInv, Work
    <3> QED
      BY <2>1, <3>1, <3>2 DEF WorkAt, Self, Idle, CallAt, RouterTypeOK, ActorTypeOK
  <2> QED
    BY <2>2 DEF Work
<1>22. ASSUME NEW m \in Node, Restart(m) PROVE Work'
  <2>1. /\ m \notin up /\ inst' = [inst EXCEPT ![m] = @ + 1] /\ up' = up \cup {m}
        /\ UNCHANGED <<router, active, call>>
    BY <1>22 DEF Restart, directoryVars, actorVars
  <2>2. ASSUME NEW k \in Node PROVE WorkAt(k)'
    <3>1. WorkAt(k) /\ call[Router(k)] \in CallRecord /\ call[Actor(k)] \in CallRecord
      BY Tasks, Types DEF IInv, Work
    <3>2. CASE k = m
      <4>1. call[Router(k)].step = "idle" /\ call[Actor(k)].step = "idle"
        BY <2>1, <3>1, <3>2 DEF WorkAt
      <4> QED
        BY <2>1, <3>1, <3>2, <4>1 DEF WorkAt
    <3>3. CASE k # m
      BY <2>1, <3>1, <3>3 DEF WorkAt, Self, ActorTypeOK
    <3> QED
      BY <3>2, <3>3
  <2> QED
    BY <2>2 DEF Work
<1>23. ASSUME NEW n \in Node, NEW m \in Node, Discover(n, m) PROVE Work'
  BY <1>23, WorkKept DEF Discover, vars, directoryVars, nodeVars, actorVars
<1>24. ASSUME NEW n \in Node, NEW m \in Node, Forget(n, m) PROVE Work'
  BY <1>24, WorkKept DEF Forget, vars, directoryVars, nodeVars, actorVars
<1>25. CASE UNCHANGED vars
  BY <1>25, WorkKept DEF vars, vars, directoryVars, nodeVars, actorVars
<1> QED
  BY <1>1, <1>2, <1>3, <1>4, <1>5, <1>6, <1>7, <1>8, <1>9, <1>10, <1>11, <1>12,
     <1>13, <1>14, <1>15, <1>16, <1>17, <1>18, <1>19, <1>20, <1>21, <1>22, <1>23, <1>24, <1>25, RouterAssumption
     DEF Next, ClientStep, RouterStep, ActorStep

\* Owner and instances stay; nobody is granted the lease or activated anew.
LEMMA HoldsKept ==
  ASSUME IInv, UNCHANGED <<owner, inst>>, NEW k \in Node,
         Granted(k)' => Granted(k), active'[k] = "running" => active[k] = "running" \/ Granted(k),
         k \in lost => k \in lost' \/ (~Granted(k)' /\ active'[k] # "running")
  PROVE  Holds(k)'
BY DEF IInv, Holds, Self

\* Every step keeps Holds.
LEMMA StepHolds ==
  ASSUME IInv, [Next]_vars
  PROVE  \A k \in Node : Holds(k)'
<1>0. DirectoryInv /\ ActorTypeOK /\ RouterTypeOK /\ DirectoryTypeOK
  BY Types DEF IInv, DirectoryInv
<1> USE <1>0
<1>1. ASSUME NEW n \in Node, Resolve(n) PROVE \A k \in Node : Holds(k)'
  <2>1. \A u \in Task : u # Client(n) => call'[u] = call[u]
    BY <1>1, ResolveCalls
  <2>2. ASSUME NEW k \in Node PROVE Holds(k)'
    <3>1. call'[Router(k)] = call[Router(k)]
      BY <2>1, Tasks, Apart
    <3> QED
      BY <1>1, <3>1, HoldsKept DEF Resolve, Granted, nodeVars, actorVars, boundVars, storeUnchanged
  <2> QED
    BY <2>2
<1>2. ASSUME NEW n \in Node, ResolveOwner(n) PROVE \A k \in Node : Holds(k)'
  <2>1. \A u \in Task : u # Client(n) => call'[u] = call[u]
    BY <1>2, ResolveCalls
  <2>2. ASSUME NEW k \in Node PROVE Holds(k)'
    <3>1. call'[Router(k)] = call[Router(k)]
      BY <2>1, Tasks, Apart
    <3> QED
      BY <1>2, <3>1, HoldsKept DEF ResolveOwner, Granted, nodeVars, actorVars, boundVars, storeUnchanged
  <2> QED
    BY <2>2
<1>3. ASSUME NEW n \in Node, LoseRequest(n) PROVE \A k \in Node : Holds(k)'
  BY <1>3 DEF LoseRequest, vars, directoryVars, nodeVars, actorVars, boundVars, IInv, Holds, Granted, Self
<1>4. ASSUME NEW n \in Node, GoesOn(n) PROVE \A k \in Node : Holds(k)'
  BY <1>4 DEF GoesOn, vars, directoryVars, nodeVars, actorVars, boundVars, IInv, Holds, Granted, Self
<1>5. ASSUME NEW m \in Node, NEW n \in Node, RouteLocal(m, n) PROVE \A k \in Node : Holds(k)'
  BY <1>5 DEF RouteLocal, vars, directoryVars, nodeVars, actorVars, boundVars, IInv, Holds, Granted, Self
<1>6. ASSUME NEW m \in Node, NEW n \in Node, RouteAcquire(m, n) PROVE \A k \in Node : Holds(k)'
  <2>1. Becomes(Router(m), Call("acquire", Self(m))) /\ UNCHANGED <<owner, inst, lost>>
    BY <1>6, Tasks, SelfIsOwner, Begins DEF RouteAcquire, nodeVars, boundVars, storeUnchanged
  <2>2. ASSUME NEW k \in Node PROVE Holds(k)'
    <3>1. Granted(k)' => Granted(k)
      BY <2>1, Tasks, Apart DEF Becomes, Granted, Idle, Call, CallAt
    <3>2. active'[k] = "running" => active[k] = "running" \/ Granted(k)
      BY <1>6 DEF RouteAcquire, actorVars, Granted, ActorTypeOK
    <3> QED
      BY <2>1, <3>1, <3>2, HoldsKept
  <2> QED
    BY <2>2
<1>7. ASSUME NEW m \in Node, RouteFails(m) PROVE \A k \in Node : Holds(k)'
  <2>1. Becomes(Router(m), Idle) /\ UNCHANGED <<owner, inst, lost>>
    BY <1>7, Tasks, SelfIsOwner, Finishes DEF RouteFails, nodeVars, boundVars, storeUnchanged
  <2>2. ASSUME NEW k \in Node PROVE Holds(k)'
    <3>1. Granted(k)' => Granted(k)
      BY <2>1, Tasks, Apart DEF Becomes, Granted, Idle, Call, CallAt
    <3>2. active'[k] = "running" => active[k] = "running" \/ Granted(k)
      BY <1>7 DEF RouteFails, actorVars, Granted, ActorTypeOK
    <3> QED
      BY <2>1, <3>1, <3>2, HoldsKept
  <2> QED
    BY <2>2
<1>8. ASSUME NEW m \in Node, ForwardToOwner(m) PROVE \A k \in Node : Holds(k)'
  <2>1. Becomes(Router(m), Idle) /\ UNCHANGED <<owner, inst, lost>>
    BY <1>8, Tasks, SelfIsOwner, Finishes DEF ForwardToOwner, nodeVars, boundVars, storeUnchanged
  <2>2. ASSUME NEW k \in Node PROVE Holds(k)'
    <3>1. Granted(k)' => Granted(k)
      BY <2>1, Tasks, Apart DEF Becomes, Granted, Idle, Call, CallAt
    <3>2. active'[k] = "running" => active[k] = "running" \/ Granted(k)
      BY <1>8 DEF ForwardToOwner, actorVars, Granted, ActorTypeOK
    <3> QED
      BY <2>1, <3>1, <3>2, HoldsKept
  <2> QED
    BY <2>2
<1>9. ASSUME NEW m \in Node, ActivateActor(m) PROVE \A k \in Node : Holds(k)'
  <2>1. Becomes(Router(m), Idle) /\ UNCHANGED <<owner, inst, lost>>
    BY <1>9, Tasks, SelfIsOwner, Finishes DEF ActivateActor, nodeVars, boundVars, storeUnchanged
  <2>2. ASSUME NEW k \in Node PROVE Holds(k)'
    <3>1. Granted(k)' => Granted(k)
      BY <2>1, Tasks, Apart DEF Becomes, Granted, Idle, Call, CallAt
    <3>2. active'[k] = "running" => active[k] = "running" \/ Granted(k)
      BY <1>9 DEF ActivateActor, actorVars, Granted, ActorTypeOK
    <3> QED
      BY <2>1, <3>1, <3>2, HoldsKept
  <2> QED
    BY <2>2
<1>10. ASSUME NEW m \in Node, ActivateFails(m) PROVE \A k \in Node : Holds(k)'
  <2>1. Becomes(Router(m), Call("delete", Self(m))) /\ UNCHANGED <<owner, inst, lost>>
    BY <1>10, Tasks, SelfIsOwner, Begins DEF ActivateFails, nodeVars, boundVars, storeUnchanged
  <2>2. ASSUME NEW k \in Node PROVE Holds(k)'
    <3>1. Granted(k)' => Granted(k)
      BY <2>1, Tasks, Apart DEF Becomes, Granted, Idle, Call, CallAt
    <3>2. active'[k] = "running" => active[k] = "running" \/ Granted(k)
      BY <1>10 DEF ActivateFails, actorVars, Granted, ActorTypeOK
    <3> QED
      BY <2>1, <3>1, <3>2, HoldsKept
  <2> QED
    BY <2>2
<1>11. ASSUME NEW m \in Node, CleanedUp(m) PROVE \A k \in Node : Holds(k)'
  <2>1. Becomes(Router(m), Idle) /\ UNCHANGED <<owner, inst, lost>>
    BY <1>11, Tasks, SelfIsOwner, Finishes DEF CleanedUp, nodeVars, boundVars, storeUnchanged
  <2>2. ASSUME NEW k \in Node PROVE Holds(k)'
    <3>1. Granted(k)' => Granted(k)
      BY <2>1, Tasks, Apart DEF Becomes, Granted, Idle, Call, CallAt
    <3>2. active'[k] = "running" => active[k] = "running" \/ Granted(k)
      BY <1>11 DEF CleanedUp, actorVars, Granted, ActorTypeOK
    <3> QED
      BY <2>1, <3>1, <3>2, HoldsKept
  <2> QED
    BY <2>2
<1>12. ASSUME NEW m \in Node, RenewOwner(m) PROVE \A k \in Node : Holds(k)'
  BY <1>12 DEF RenewOwner, vars, directoryVars, nodeVars, actorVars, boundVars, IInv, Holds, Granted, Self
<1>13. ASSUME NEW m \in Node, ActorStops(m) PROVE \A k \in Node : Holds(k)'
  <2>1. Becomes(Actor(m), Call("delete", Self(m))) /\ UNCHANGED <<owner, inst, lost>>
    BY <1>13, Tasks, SelfIsOwner, Begins DEF ActorStops, nodeVars, boundVars, storeUnchanged
  <2>2. ASSUME NEW k \in Node PROVE Holds(k)'
    <3>1. Granted(k)' => Granted(k)
      BY <2>1, Tasks, Apart DEF Becomes, Granted, Idle, Call, CallAt
    <3>2. active'[k] = "running" => active[k] = "running" \/ Granted(k)
      BY <1>13 DEF ActorStops, actorVars, Granted, ActorTypeOK
    <3> QED
      BY <2>1, <3>1, <3>2, HoldsKept
  <2> QED
    BY <2>2
<1>14. ASSUME NEW m \in Node, Destroyed(m) PROVE \A k \in Node : Holds(k)'
  <2>1. Becomes(Actor(m), Idle) /\ UNCHANGED <<owner, inst, lost>>
    BY <1>14, Tasks, SelfIsOwner, Finishes DEF Destroyed, nodeVars, boundVars, storeUnchanged
  <2>2. ASSUME NEW k \in Node PROVE Holds(k)'
    <3>1. Granted(k)' => Granted(k)
      BY <2>1, Tasks, Apart DEF Becomes, Granted, Idle, Call, CallAt
    <3>2. active'[k] = "running" => active[k] = "running" \/ Granted(k)
      BY <1>14 DEF Destroyed, actorVars, Granted, ActorTypeOK
    <3> QED
      BY <2>1, <3>1, <3>2, HoldsKept
  <2> QED
    BY <2>2
<1>15. ASSUME NEW t \in Task, Acquire(t) PROVE \A k \in Node : Holds(k)'
  <2>1. /\ AcquireOwnerFromRedis(t) /\ UNCHANGED <<inst, active>>
    BY <1>15 DEF Acquire, nodeVars, actorVars
  <2>2. /\ call[t].op = "acquire" /\ call[t].step = "script" /\ call[t].arg \in Owner
        /\ owner \in Owner \cup {None}
    BY <2>1, AcquireScript, Types
  <2>3. PICK r : /\ Becomes(t, r) /\ r.op = "acquire" /\ r.step = "finish"
                 /\ \/ Acquirable(call[t].arg) /\ owner' = call[t].arg
                    \/ owner' = owner /\ r.ok = FALSE
    <3> DEFINE won == CallAt("acquire", call[t].arg, "finish", call[t].arg, epoch + 1, TRUE)
               held == CallAt("acquire", call[t].arg, "finish", owner, epoch, FALSE)
    <3>1. /\ won.op = "acquire" /\ won.step = "finish"
          /\ held.op = "acquire" /\ held.step = "finish" /\ held.ok = FALSE
      BY DEF CallAt
    <3>2. \/ Acquirable(call[t].arg) /\ owner' = call[t].arg /\ Becomes(t, won)
          \/ owner' = owner /\ Becomes(t, held)
      BY <2>1, AcquireScript
    <3> HIDE DEF won, held
    <3> QED
      BY <3>1, <3>2
  <2>4. ASSUME NEW k \in Node PROVE Holds(k)'
    <3>1. Holds(k) /\ WorkAt(k) /\ Router(k) \in Task
      BY Tasks DEF IInv, Work
    <3>2. CASE t = Router(k)
      <4>1. call[t].arg = Self(k) /\ active'[k] # "running" /\ call'[Router(k)] = r
        BY <2>1, <2>2, <2>3, <3>1, <3>2 DEF WorkAt, Becomes
      <4> QED
        BY <2>1, <2>3, <4>1 DEF Holds, Granted, Self
    <3>3. CASE t # Router(k)
      <4>1. call'[Router(k)] = call[Router(k)] /\ (Granted(k)' <=> Granted(k))
        BY <2>3, <3>1, <3>3 DEF Becomes, Granted
      <4>2. SUFFICES ASSUME Granted(k) \/ active[k] = "running", k \notin lost', owner' # Self(k)
                     PROVE  FALSE
        BY <2>1, <4>1 DEF Holds, Self
      <4>3. k \notin lost /\ (t[1] = "client" /\ owner = Self(call[t].arg.node) /\ call[t].arg # owner
                                => call[t].arg.node # k)
        <5>1. CASE t[1] = "router"
          <6>1. Home(t) # k
            BY <3>3, <5>1, Tasks
          <6> QED
            BY <1>15, <4>2, <5>1, <6>1 DEF Acquire
        <5>2. CASE t[1] # "router"
          BY <1>15, <4>2, <5>2 DEF Acquire
        <5> QED
          BY <5>1, <5>2
      <4>4. owner = Self(k) /\ owner # None /\ owner.node = k
        BY <3>1, <4>2, <4>3, SelfIsOwner DEF Holds
      <4>5. Acquirable(call[t].arg) /\ owner' = call[t].arg /\ call[t].arg # owner
        BY <2>3, <4>2, <4>4
      <4>6. call[t].arg.node = k
        BY <4>4, <4>5 DEF Acquirable
      <4>7. t[1] # "client"
        BY <4>3, <4>4, <4>5, <4>6
      <4>8. CASE t[1] = "router"
        <5>1. t = Router(Home(t)) /\ Home(t) \in Node /\ Home(t) # k
          BY <3>3, <4>8, Tasks
        <5>2. call[t].arg = Self(Home(t))
          BY <2>2, <5>1 DEF IInv, Work, WorkAt
        <5> QED
          BY <4>6, <5>1, <5>2, SelfIsOwner
      <4>9. CASE t[1] = "actor"
        <5>1. t = Actor(Home(t)) /\ Home(t) \in Node
          BY <4>9, Tasks
        <5> QED
          BY <2>2, <5>1 DEF IInv, Work, WorkAt
      <4> QED
        BY <4>7, <4>8, <4>9, Tasks DEF Role
    <3> QED
      BY <3>2, <3>3
  <2> QED
    BY <2>4
<1>16. ASSUME NEW t \in Task, Delete(t) PROVE \A k \in Node : Holds(k)'
  <2>1. /\ DeleteOwnerFromRedis(t) /\ UNCHANGED <<inst, active, up>>
    BY <1>16 DEF Delete, nodeVars, actorVars
  <2>2. /\ call[t].op = "delete" /\ call[t].step = "script" /\ call[t].arg \in Owner
        /\ (owner = call[t].arg /\ owner' = None) \/ owner' = owner
    BY <2>1, DeleteScript
  <2>3. PICK r : Becomes(t, r) /\ r.op = "delete"
    <3>1. \A ok, e : CallAt("delete", call[t].arg, "finish", None, e, ok).op = "delete"
      BY DEF CallAt
    <3> QED
      BY <2>1, <3>1, DeleteScript
  <2>4. ASSUME NEW k \in Node PROVE Holds(k)'
    <3>1. Holds(k) /\ WorkAt(k) /\ Router(k) \in Task
      BY Tasks DEF IInv, Work
    <3>2. Granted(k)' => Granted(k)
      BY <2>3, <3>1 DEF Becomes, Granted
    <3>3. SUFFICES ASSUME Granted(k)' \/ active[k] = "running", k \notin lost', owner' # Self(k)
                   PROVE  FALSE
      BY <2>1 DEF Holds, Self
    <3>4. k \notin lost /\ ~(t[1] = "client" /\ call[t].arg.node \in up
                             /\ call[t].arg = Self(call[t].arg.node) /\ call[t].arg.node = k)
      BY <1>16, <3>3 DEF Delete
    <3>5. owner = Self(k) /\ owner = call[t].arg /\ call[t].arg.node = k
      BY <2>2, <3>1, <3>2, <3>3, <3>4, SelfIsOwner DEF Holds
    <3>6. k \in up
      <4>1. Granted(k) => call[Router(k)].step # "idle"
        BY DEF Granted
      <4> QED
        BY <2>1, <3>1, <3>2, <3>3, <4>1 DEF WorkAt
    <3>7. t[1] # "client"
      BY <3>4, <3>5, <3>6
    <3>8. CASE t[1] = "router"
      <4>1. t = Router(Home(t)) /\ Home(t) \in Node /\ WorkAt(Home(t))
        BY <3>8, Tasks DEF IInv, Work
      <4>2. Home(t) = k
        BY <2>2, <3>5, <4>1, SelfIsOwner DEF WorkAt
      <4>3. active[k] # "running" /\ ~Granted(k)'
        BY <2>2, <2>3, <4>1, <4>2 DEF WorkAt, Becomes, Granted
      <4> QED
        BY <3>3, <4>3
    <3>9. CASE t[1] = "actor"
      <4>1. t = Actor(Home(t)) /\ Home(t) \in Node /\ WorkAt(Home(t))
        BY <3>9, Tasks DEF IInv, Work
      <4>2. Home(t) = k
        BY <2>2, <3>5, <4>1, SelfIsOwner DEF WorkAt
      <4>3. active[k] = "destroying"
        BY <2>2, <4>1, <4>2 DEF WorkAt
      <4>4. ~Granted(k)
        BY <3>1, <4>3 DEF WorkAt, Granted
      <4> QED
        BY <3>2, <3>3, <4>3, <4>4
    <3> QED
      BY <3>7, <3>8, <3>9, Tasks DEF Role
  <2> QED
    BY <2>4
<1>17. ASSUME NEW t \in Task, Operation(t) PROVE \A k \in Node : Holds(k)'
  <2>1. PICK r \in CallRecord : Advances(t, r) /\ UNCHANGED <<owner, inst, lost, active>>
    BY <1>17, OperationFacts DEF Operation, nodeVars, actorVars, boundVars
  <2>2. ASSUME NEW k \in Node PROVE Holds(k)'
    <3>1. Granted(k)' => Granted(k)
      <4>1. CASE t # Router(k)
        BY <2>1, <4>1, Tasks DEF Advances, Becomes, Granted
      <4>2. CASE t = Router(k)
        BY <2>1, <4>2 DEF Advances, Becomes, Granted
      <4> QED
        BY <4>1, <4>2
    <3> QED
      BY <2>1, <3>1, HoldsKept
  <2> QED
    BY <2>2
<1>18. ASSUME NEW t \in Task, RedisFails(t) PROVE \A k \in Node : Holds(k)'
  <2>1. /\ Becomes(t, CallAt(call[t].op, None, "error", None, 0, FALSE))
        /\ UNCHANGED <<owner, inst, lost, active>>
    BY <1>18, Failing DEF RedisFails, nodeVars, actorVars
  <2>2. ASSUME NEW k \in Node PROVE Holds(k)'
    <3>1. Granted(k)' => Granted(k)
      BY <2>1, Tasks DEF Becomes, Granted, CallAt
    <3> QED
      BY <2>1, <3>1, HoldsKept
  <2> QED
    BY <2>2
<1>19. CASE Lapse
  <2>1. UNCHANGED <<call, active, inst>> /\ lost' = lost \cup {owner.node}
    BY <1>19, Expiring DEF Lapse, nodeVars, actorVars
  <2>2. ASSUME NEW k \in Node PROVE Holds(k)'
    <3>1. owner = Self(k) => k \in lost'
      BY <2>1, SelfIsOwner
    <3> QED
      BY <2>1, <3>1 DEF IInv, Holds, Granted
  <2> QED
    BY <2>2
<1>20. ASSUME NEW n \in Node, Cached(n) PROVE \A k \in Node : Holds(k)'
  <2>1. UNCHANGED <<owner, call, active, inst, lost>>
    BY <1>20, Expiring DEF Cached, CacheStep, HandleOwnerEvent, CacheExpires, nodeVars, actorVars, boundVars
  <2> QED
    BY <2>1 DEF IInv, Holds, Granted, Self
<1>21. ASSUME NEW m \in Node, Crash(m) PROVE \A k \in Node : Holds(k)'
  <2>1. /\ UNCHANGED <<owner, inst>> /\ active' = [active EXCEPT ![m] = "none"] /\ lost' = lost \ {m}
    BY <1>21 DEF Crash
  <2>2. ASSUME NEW k \in Node PROVE Holds(k)'
    <3>1. call'[Router(k)] = IF k = m THEN Idle ELSE call[Router(k)]
      BY <1>21, Tasks, CrashForgets
    <3>2. Granted(k)' => Granted(k) /\ k # m
      BY <3>1 DEF Granted, Idle, CallAt
    <3>3. active'[k] = "running" => active[k] = "running" /\ k # m
      BY <2>1 DEF ActorTypeOK
    <3> QED
      BY <2>1, <3>2, <3>3, HoldsKept
  <2> QED
    BY <2>2
<1>22. ASSUME NEW m \in Node, Restart(m) PROVE \A k \in Node : Holds(k)'
  <2>1. /\ m \notin up /\ inst' = [inst EXCEPT ![m] = @ + 1] /\ UNCHANGED <<owner, active, call, lost>>
    BY <1>22 DEF Restart, directoryVars, actorVars, boundVars
  <2>2. ASSUME NEW k \in Node PROVE Holds(k)'
    <3>1. CASE k = m
      <4>1. WorkAt(k) /\ call[Router(k)].step = "idle" /\ active[k] = "none"
        BY <2>1, <3>1 DEF IInv, Work, WorkAt
      <4> QED
        BY <2>1, <4>1 DEF Holds, Granted
    <3>2. CASE k # m
      BY <2>1, <3>2 DEF IInv, Holds, Granted, Self, ActorTypeOK
    <3> QED
      BY <3>1, <3>2
  <2> QED
    BY <2>2
<1>23. ASSUME NEW n \in Node, NEW m \in Node, Discover(n, m) PROVE \A k \in Node : Holds(k)'
  BY <1>23 DEF Discover, vars, directoryVars, nodeVars, actorVars, boundVars, IInv, Holds, Granted, Self
<1>24. ASSUME NEW n \in Node, NEW m \in Node, Forget(n, m) PROVE \A k \in Node : Holds(k)'
  BY <1>24 DEF Forget, vars, directoryVars, nodeVars, actorVars, boundVars, IInv, Holds, Granted, Self
<1>25. CASE UNCHANGED vars
  BY <1>25 DEF vars, vars, directoryVars, nodeVars, actorVars, boundVars, IInv, Holds, Granted, Self
<1> QED
  BY <1>1, <1>2, <1>3, <1>4, <1>5, <1>6, <1>7, <1>8, <1>9, <1>10, <1>11, <1>12,
     <1>13, <1>14, <1>15, <1>16, <1>17, <1>18, <1>19, <1>20, <1>21, <1>22, <1>23, <1>24, <1>25, RouterAssumption
     DEF Next, ClientStep, RouterStep, ActorStep

-----------------------------------------------------------------------------
\* IInv holds in every reachable state.
THEOREM Invariance == Spec => []IInv
<1>1. Init => IInv
  <2> SUFFICES ASSUME Init PROVE IInv
    OBVIOUS
  <2>1. Idle \in CallRecord /\ Idle.step = "idle" /\ Idle.op = "none"
    BY CallTypes DEF Idle, CallAt
  <2>2. DirectoryTypeOK
    BY <2>1 DEF Init, DirectoryInit, DirectoryTypeOK, CallRecord
  <2>3. ActorTypeOK
    BY DirectoryAssumption, RouterAssumption DEF Init, ActorTypeOK
  <2>4. RouterTypeOK
    BY RouterAssumption DEF Init, RouterTypeOK, NoRequest, maxRouteForwards, maxOwnerResolveAttempts
  <2>5. Calls /\ CacheFenced
    BY <2>1 DEF Init, DirectoryInit, Calls, CacheFenced
  <2>6. Work /\ \A m \in Node : Holds(m)
    BY <2>1, Tasks DEF Init, DirectoryInit, Work, WorkAt, Holds, Granted
  <2> QED
    BY <2>2, <2>3, <2>4, <2>5, <2>6, Types DEF IInv
<1>2. IInv /\ [Next]_vars => IInv'
  <2> SUFFICES ASSUME IInv, [Next]_vars PROVE IInv'
    OBVIOUS
  <2>1. DirectoryTypeOK' /\ Calls' /\ CacheFenced'
    BY StepDirectory DEF DirectoryInv
  <2>2. TypeOK'
    BY <2>1, StepActorTypes, StepRouterTypes DEF TypeOK, ActorTypeOK, RouterTypeOK
  <2> QED
    BY <2>1, <2>2, StepWork, StepHolds DEF IInv
<1> QED
  BY <1>1, <1>2, PTL DEF Spec

\* Every variable keeps its type.
THEOREM TypeCorrect == Spec => []TypeOK
<1>1. IInv => TypeOK
  BY DEF IInv
<1> QED
  BY Invariance, <1>1, PTL

\* Epochs order the owners: no cache and no reply is ahead of Redis, and what
\* carries the current epoch names the current owner or one whose lease ran out.
THEOREM Fenced == Spec => []CacheFenced
<1>1. IInv => CacheFenced
  BY DEF IInv
<1> QED
  BY Invariance, <1>1, PTL

\* An activation that lost its lease neither by a lapse nor to a client with a
\* stale view is the owner in Redis, so two such activations are on one node.
THEOREM OneActivation == Spec => []SingleActivation
<1>1. IInv => SingleActivation
  BY DEF IInv, Holds, SingleActivation
<1> QED
  BY Invariance, <1>1, PTL
=============================================================================
