---------------------------- MODULE NodeRuntime ----------------------------
(***************************************************************************)
(* A node's Start and Shutdown (node/runtime.go) over the component        *)
(* manager and the life cycle controllers of pkg/component.  Every hook    *)
(* (OnInit, OnStart, a component's Init, Start and Stop) may fail, and may *)
(* call AddComponent.  Start and Shutdown are called one after the other,  *)
(* in any order and any number of times, as docs/node.md asks.             *)
(***************************************************************************)
EXTENDS Integers, Sequences, SequencesExt, FiniteSetsExt

CONSTANTS
  CoreComponents,    \* the sequence system, cluster, router
  OptionComponents,  \* the sequence Options.Components
  Added,             \* components the application may pass to AddComponent
  Priority           \* priorityOf, per component

Component == ToSet(CoreComponents) \cup ToSet(OptionComponents) \cup Added

\* registerCoreComponents always adds the system and the cluster.
ASSUME ComponentAssumption ==
  /\ CoreComponents \in Seq(ToSet(CoreComponents)) /\ CoreComponents # <<>>
  /\ OptionComponents \in Seq(ToSet(OptionComponents))
  /\ Priority \in [Component -> Int]

VARIABLES
  order,   \* Manager.order: the registered components
  state,   \* Controller.state, per component
  called,  \* the controller's initCalled, startCalled and stopCalled
  nodePhase, running,  \* Node.phase; the call in progress
  todo,    \* what its traversal has still to visit
  inits, stops   \* components whose Init and Stop hooks have run, in order

nodeVars == <<order, state, called, nodePhase, running, todo, inits, stops>>

NodeTypeOK ==
  /\ order \in Seq(Component) /\ IsInjective(order)
  /\ state \in [Component -> {"new", "inited", "started", "stopped"}]
  /\ called \in [Component -> SUBSET {"init", "start", "stop"}]
  /\ nodePhase \in {"new", "running", "stopped"}
  /\ running \in {"none", "onInit", "init", "onStart", "start", "stop"}
  /\ todo \in Seq(Component) /\ inits \in Seq(Component) /\ stops \in Seq(Component)

NodeInit ==
  /\ order = <<>> /\ todo = <<>> /\ inits = <<>> /\ stops = <<>>
  /\ state = [c \in Component |-> "new"] /\ called = [c \in Component |-> {}]
  /\ nodePhase = "new" /\ running = "none"

\* Registered earlier, and what the stable sort makes of it: priority first.
Registered(a, b) == \E i, j \in 1..Len(order) : i < j /\ order[i] = a /\ order[j] = b
Precedes(a, b) ==
  Priority[a] < Priority[b] \/ (Priority[a] = Priority[b] /\ Registered(a, b))

\* orderedComponents, by what a stable sort returns: the components in the one
\* order in which each precedes those behind it.
Arrangement == {s \in [1..Len(order) -> ToSet(order)] : ToSet(order) \subseteq ToSet(s)}
OrderedComponents ==
  {s \in Arrangement : \A i, j \in 1..Len(s) : i < j => Precedes(s[i], s[j])}

\* Mutant of ReverseOrder: the priorities are reversed, their components not.
ReverseOrderUnstable ==
  {s \in Arrangement : \A i, j \in 1..Len(s) : i < j =>
     Priority[s[i]] > Priority[s[j]] \/ (Priority[s[i]] = Priority[s[j]] /\ Registered(s[i], s[j]))}
ReverseOrder == {Reverse(s) : s \in OrderedComponents}

-----------------------------------------------------------------------------
\* Manager.Add of one component, which AddComponent allows in phase new only.
AddComponent(c) ==
  /\ nodePhase = "new" /\ c \notin ToSet(order)
  /\ order' = Append(order, c)
  /\ UNCHANGED <<state, called, nodePhase, running, todo, inits, stops>>

\* Manager.Add of the whole list: what precedes the first duplicate stays.
Duplicates(list) ==
  {i \in 1..Len(list) : list[i] \in ToSet(order) \cup {list[j] : j \in 1..(i - 1)}}

\* Start registers the core components; the second time it always fails here.
Start ==
  LET list == OptionComponents \o CoreComponents
      taken == Duplicates(list) IN
  /\ running = "none"
  /\ IF taken = {}
     THEN order' = order \o list /\ running' = "onInit"
     ELSE /\ order' = order \o SubSeq(list, 1, Min(taken) - 1)
          /\ running' = "none"
  /\ UNCHANGED <<state, called, nodePhase, todo, inits, stops>>

\* The behaviour's hook, then the traversal of what is registered by now.
Hook(hook, next) ==
  /\ running = hook
  /\ \/ running' = next /\ todo' \in OrderedComponents
     \/ running' = "none" /\ UNCHANGED todo
  /\ UNCHANGED <<order, state, called, nodePhase, inits, stops>>

\* Controller.Init of the next component; an error ends Start.
InitNext ==
  /\ running = "init" /\ todo # <<>>
  /\ LET c == Head(todo) IN
       IF "init" \in called[c] \/ state[c] # "new"
       THEN running' = "none" /\ UNCHANGED <<state, called, todo, inits>>
       ELSE /\ called' = [called EXCEPT ![c] = @ \cup {"init"}]
            /\ inits' = Append(inits, c)
            /\ \/ /\ state' = [state EXCEPT ![c] = "inited"]
                  /\ todo' = Tail(todo) /\ UNCHANGED running
               \/ running' = "none" /\ UNCHANGED <<state, todo>>
  /\ UNCHANGED <<order, nodePhase, stops>>

InitDone ==
  /\ running = "init" /\ todo = <<>>
  /\ running' = "onStart"
  /\ UNCHANGED <<order, state, called, nodePhase, todo, inits, stops>>

\* Controller.Start: a component that missed Init makes Start fail.
StartNext ==
  /\ running = "start" /\ todo # <<>>
  /\ LET c == Head(todo) IN
       IF "start" \in called[c] \/ state[c] # "inited"
       THEN running' = "none" /\ UNCHANGED <<state, called, todo>>
       ELSE /\ called' = [called EXCEPT ![c] = @ \cup {"start"}]
            /\ \/ /\ state' = [state EXCEPT ![c] = "started"]
                  /\ todo' = Tail(todo) /\ UNCHANGED running
               \/ running' = "none" /\ UNCHANGED <<state, todo>>
  /\ UNCHANGED <<order, nodePhase, inits, stops>>

StartDone ==
  /\ running = "start" /\ todo = <<>>
  /\ running' = "none" /\ nodePhase' = "running"
  /\ UNCHANGED <<order, state, called, todo, inits, stops>>

-----------------------------------------------------------------------------
\* Shutdown leaves the cluster and visits everything in reverse, errors or not.
Shutdown ==
  /\ running = "none"
  /\ running' = "stop" /\ todo' \in ReverseOrder
  /\ UNCHANGED <<order, state, called, nodePhase, inits, stops>>

\* Controller.Stop: once, and only after Init was attempted.
StopNext ==
  /\ running = "stop" /\ todo # <<>>
  /\ LET c == Head(todo) IN
       IF "stop" \in called[c] \/ "init" \notin called[c]
       THEN UNCHANGED <<state, called, stops>>
       ELSE /\ called' = [called EXCEPT ![c] = @ \cup {"stop"}]
            /\ stops' = Append(stops, c)
            /\ state' = [state EXCEPT ![c] = "stopped"] \/ UNCHANGED state
  /\ todo' = Tail(todo)
  /\ UNCHANGED <<order, nodePhase, running, inits>>

StopDone ==
  /\ running = "stop" /\ todo = <<>>
  /\ running' = "none" /\ nodePhase' = "stopped"
  /\ UNCHANGED <<order, state, called, todo, inits, stops>>

NodeNext ==
  \/ \E c \in Added : AddComponent(c)
  \/ Start \/ Hook("onInit", "init") \/ InitNext \/ InitDone
  \/ Hook("onStart", "start") \/ StartNext \/ StartDone
  \/ Shutdown \/ StopNext \/ StopDone

NodeSpec == NodeInit /\ [][NodeNext]_nodeVars

-----------------------------------------------------------------------------
\* Wherever Start failed, and whatever was added or stopped meanwhile, Shutdown
\* runs the Stop hook of every component whose Init hook ran, successful or
\* not, exactly once and in the reverse of that order; and of no other.
StopMirrorsInit == running = "stop" /\ todo = <<>> => stops = Reverse(inits)

=============================================================================
