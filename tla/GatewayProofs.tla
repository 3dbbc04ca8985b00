---------------------------- MODULE GatewayProofs ----------------------------
(***************************************************************************)
(* Theorems about module Gateway, for any finite set of connections and    *)
(* any number of messages.                                                 *)
(***************************************************************************)
EXTENDS Gateway, FiniteSetTheorems, TLAPS

\* OnConnected is under way exactly while its connection says so; an agent is in
\* the table, or was taken out, only after OnConnected returned; a mailbox holds
\* no more than was delivered.
Phases ==
  \A c \in Conn :
    /\ InOnConnected(c) <=> connected[c] = "running"
    /\ opening[c] = "none" <=> connected[c] = "no"
    /\ c \in pids => opening[c] = "done"
    /\ c \in Leaving => opening[c] = "done" /\ c \notin pids
    /\ closer[c] # "none" => c \in notified
    /\ inbox[c] <= messages[c]

\* A running agent is known to OnConnected, to the table, or to OnClose.
AgentKnown ==
  \A c \in Conn :
    agent[c] = "running" => opening[c] \in Spawned \/ c \in pids \/ closer[c] = "stop"

\* Once closing is set no OnConnected is past its check, and when Stop has
\* succeeded nobody is left in the group.
StopPhases ==
  /\ stopper # "none" <=> closing
  /\ closing => \A c \in Conn : opening[c] \notin Spawned \cup {"spawn"}
  /\ stopper = "ok" => pids = {} /\ Leaving = {}

IInv == TypeOK /\ Phases /\ GroupAccounting /\ AgentKnown /\ StopPhases

-----------------------------------------------------------------------------
\* The sets the wait group counts are finite.
LEMMA CountedFinite ==
  ASSUME TypeOK
  PROVE  /\ IsFiniteSet(Entering) /\ IsFiniteSet(pids) /\ IsFiniteSet(Leaving)
         /\ Cardinality(Entering) \in Nat /\ Cardinality(pids) \in Nat
         /\ Cardinality(Leaving) \in Nat
<1>1. Entering \subseteq Conn /\ pids \subseteq Conn /\ Leaving \subseteq Conn
  BY DEF TypeOK, Entering, Leaving
<1>2. IsFiniteSet(Entering) /\ IsFiniteSet(pids) /\ IsFiniteSet(Leaving)
  BY <1>1, ConnAssumption, FS_Subset
<1> QED
  BY <1>2, FS_CardinalityType

\* Nothing is left in an empty group; a group someone is leaving is not empty.
LEMMA GroupCounts ==
  ASSUME TypeOK, GroupAccounting
  PROVE  /\ group = 0 => pids = {} /\ Leaving = {}
         /\ Leaving # {} => group >= 1
<1>1. /\ Cardinality(pids) = 0 <=> pids = {}
      /\ Cardinality(Leaving) = 0 <=> Leaving = {}
  BY CountedFinite, FS_EmptySet
<1>2. /\ Cardinality(Entering) \in Nat /\ Cardinality(pids) \in Nat
      /\ Cardinality(Leaving) \in Nat
  BY CountedFinite
<1>3. group = Cardinality(Entering) + Cardinality(pids) + Cardinality(Leaving)
  BY DEF GroupAccounting
<1>4. ASSUME NEW e \in Nat, NEW p \in Nat, NEW l \in Nat
      PROVE  (e + p + l = 0 => p = 0 /\ l = 0) /\ (l # 0 => e + p + l >= 1)
  OBVIOUS
<1>5. /\ group = 0 => Cardinality(pids) = 0 /\ Cardinality(Leaving) = 0
      /\ Cardinality(Leaving) # 0 => group >= 1
  BY <1>2, <1>3, <1>4
<1> QED
  BY <1>1, <1>5

\* Every step keeps the types; the group does not go below zero.
LEMMA StepTypeOK ==
  ASSUME IInv, Next
  PROVE  TypeOK'
<1> USE DEF IInv, TypeOK, bridgeVars, stopVars, agentVars
<1>1. ASSUME NEW c \in Conn, OnConnected(c) PROVE TypeOK'
  BY <1>1 DEF OnConnected, Connects, Open
<1>2. ASSUME NEW c \in Conn, Refuse(c) PROVE TypeOK'
  BY <1>2 DEF Refuse, Connected, Open
<1>3. ASSUME NEW c \in Conn, Spawn(c) PROVE TypeOK'
  BY <1>3 DEF Spawn, Connected, Open, callbackVars
<1>4. ASSUME NEW c \in Conn, SetUserData(c) PROVE TypeOK'
  BY <1>4 DEF SetUserData, Open, callbackVars
<1>5. ASSUME NEW c \in Conn, GroupAdd(c) PROVE TypeOK'
  BY <1>5 DEF GroupAdd, Open, callbackVars
<1>6. ASSUME NEW c \in Conn, Track(c) PROVE TypeOK'
  BY <1>6 DEF Track, Connected, Open
<1>7. ASSUME NEW c \in Conn, OnMessage(c) PROVE TypeOK'
  <2>1. inbox[c] \in 0..MaxMessage /\ messages[c] \in 0..MaxMessage /\ inbox[c] <= messages[c]
    BY DEF Phases
  <2>2. messages[c] < MaxMessage
    BY <1>7 DEF OnMessage
  <2>3. messages[c] + 1 \in 0..MaxMessage /\ inbox[c] + 1 \in 0..MaxMessage
    BY <2>1, <2>2, MessageAssumption
  <2> QED
    BY <1>7, <2>3 DEF OnMessage, Delivers
<1>8. ASSUME NEW c \in Conn, OnClose(c) PROVE TypeOK'
  BY <1>8 DEF OnClose, Notifies, Closer
<1>9. ASSUME NEW c \in Conn, GetAndDelete(c) PROVE TypeOK'
  BY <1>9 DEF GetAndDelete, Closer, callbackVars
<1>10. ASSUME NEW c \in Conn, CloseStops(c) PROVE TypeOK'
  BY <1>10 DEF CloseStops, Closer, StopProcess, callbackVars
<1>11. ASSUME NEW c \in Conn, GroupDone(c) PROVE TypeOK'
  BY <1>11, GroupCounts DEF GroupDone, Leaving, Closer, callbackVars
<1>12. ASSUME NEW c \in Conn, AgentHandles(c) PROVE TypeOK'
  <2>1. inbox[c] - 1 \in 0..MaxMessage
    <3>1. inbox[c] \in 0..MaxMessage /\ inbox[c] > 0
      BY <1>12 DEF AgentHandles
    <3> QED BY <3>1, MessageAssumption
  <2> QED
    BY <1>12, <2>1 DEF AgentHandles, callbackVars
<1>13. ASSUME NEW c \in Conn, AgentStops(c) PROVE TypeOK'
  BY <1>13 DEF AgentStops, StopProcess, callbackVars
<1>14. ASSUME NEW c \in Conn, AgentDestroy(c) PROVE TypeOK'
  BY <1>14 DEF AgentDestroy
<1>15. ASSUME NEW c \in Conn, ConnectionCloses(c) PROVE TypeOK'
  BY <1>15 DEF ConnectionCloses, Closes
<1>16. ASSUME NEW c \in Conn, StopAgent(c) PROVE TypeOK'
  BY <1>16 DEF StopAgent, StopProcess, callbackVars
<1>17. CASE RejectNew
  BY <1>17 DEF RejectNew, callbackVars, InOnConnected
<1>18. CASE StopWaits
  BY <1>18 DEF StopWaits, callbackVars
<1>19. CASE StopReturns
  BY <1>19 DEF StopReturns, callbackVars
<1> QED
  BY <1>1, <1>2, <1>3, <1>4, <1>5, <1>6, <1>7, <1>8, <1>9, <1>10, <1>11, <1>12, <1>13, <1>14, <1>15, <1>16, <1>17, <1>18, <1>19 DEF Next, OpenStep, CloseStep, AgentStep, StopStep

\* Every step keeps Phases.
LEMMA StepPhases ==
  ASSUME IInv, Next
  PROVE  Phases'
<1> USE DEF IInv, TypeOK, Phases, InOnConnected, Leaving, bridgeVars, stopVars, agentVars
<1>1. ASSUME NEW c \in Conn, OnConnected(c) PROVE Phases'
  BY <1>1 DEF OnConnected, Connects, Open
<1>2. ASSUME NEW c \in Conn, Refuse(c) PROVE Phases'
  BY <1>2 DEF Refuse, Connected, Open
<1>3. ASSUME NEW c \in Conn, Spawn(c) PROVE Phases'
  BY <1>3 DEF Spawn, Connected, Open, callbackVars
<1>4. ASSUME NEW c \in Conn, SetUserData(c) PROVE Phases'
  BY <1>4 DEF SetUserData, Open, callbackVars
<1>5. ASSUME NEW c \in Conn, GroupAdd(c) PROVE Phases'
  BY <1>5 DEF GroupAdd, Open, callbackVars
<1>6. ASSUME NEW c \in Conn, Track(c) PROVE Phases'
  BY <1>6 DEF Track, Connected, Open
<1>7. ASSUME NEW c \in Conn, OnMessage(c) PROVE Phases'
  BY <1>7 DEF OnMessage, Delivers
<1>8. ASSUME NEW c \in Conn, OnClose(c) PROVE Phases'
  BY <1>8 DEF OnClose, Notifies, Closer
<1>9. ASSUME NEW c \in Conn, GetAndDelete(c) PROVE Phases'
  BY <1>9 DEF GetAndDelete, Closer, callbackVars
<1>10. ASSUME NEW c \in Conn, CloseStops(c) PROVE Phases'
  BY <1>10 DEF CloseStops, Closer, StopProcess, callbackVars
<1>11. ASSUME NEW c \in Conn, GroupDone(c) PROVE Phases'
  BY <1>11 DEF GroupDone, Closer, callbackVars
<1>12. ASSUME NEW c \in Conn, AgentHandles(c) PROVE Phases'
  BY <1>12 DEF AgentHandles, callbackVars
<1>13. ASSUME NEW c \in Conn, AgentStops(c) PROVE Phases'
  BY <1>13 DEF AgentStops, StopProcess, callbackVars
<1>14. ASSUME NEW c \in Conn, AgentDestroy(c) PROVE Phases'
  BY <1>14 DEF AgentDestroy
<1>15. ASSUME NEW c \in Conn, ConnectionCloses(c) PROVE Phases'
  BY <1>15 DEF ConnectionCloses, Closes
<1>16. ASSUME NEW c \in Conn, StopAgent(c) PROVE Phases'
  BY <1>16 DEF StopAgent, StopProcess, callbackVars
<1>17. CASE RejectNew
  BY <1>17 DEF RejectNew, callbackVars, InOnConnected
<1>18. CASE StopWaits
  BY <1>18 DEF StopWaits, callbackVars
<1>19. CASE StopReturns
  BY <1>19 DEF StopReturns, callbackVars
<1> QED
  BY <1>1, <1>2, <1>3, <1>4, <1>5, <1>6, <1>7, <1>8, <1>9, <1>10, <1>11, <1>12, <1>13, <1>14, <1>15, <1>16, <1>17, <1>18, <1>19 DEF Next, OpenStep, CloseStep, AgentStep, StopStep

\* Every step keeps AgentKnown.
LEMMA StepAgentKnown ==
  ASSUME IInv, Next
  PROVE  AgentKnown'
<1> USE DEF IInv, TypeOK, Phases, AgentKnown, StopPhases, InOnConnected, Leaving, Spawned, bridgeVars, stopVars, agentVars
<1>1. ASSUME NEW c \in Conn, OnConnected(c) PROVE AgentKnown'
  BY <1>1 DEF OnConnected, Connects, Open
<1>2. ASSUME NEW c \in Conn, Refuse(c) PROVE AgentKnown'
  BY <1>2 DEF Refuse, Connected, Open
<1>3. ASSUME NEW c \in Conn, Spawn(c) PROVE AgentKnown'
  BY <1>3 DEF Spawn, Connected, Open, callbackVars
<1>4. ASSUME NEW c \in Conn, SetUserData(c) PROVE AgentKnown'
  BY <1>4 DEF SetUserData, Open, callbackVars
<1>5. ASSUME NEW c \in Conn, GroupAdd(c) PROVE AgentKnown'
  BY <1>5 DEF GroupAdd, Open, callbackVars
<1>6. ASSUME NEW c \in Conn, Track(c) PROVE AgentKnown'
  BY <1>6 DEF Track, Connected, Open
<1>7. ASSUME NEW c \in Conn, OnMessage(c) PROVE AgentKnown'
  BY <1>7 DEF OnMessage, Delivers
<1>8. ASSUME NEW c \in Conn, OnClose(c) PROVE AgentKnown'
  BY <1>8 DEF OnClose, Notifies, Closer
<1>9. ASSUME NEW c \in Conn, GetAndDelete(c) PROVE AgentKnown'
  BY <1>9 DEF GetAndDelete, Closer, callbackVars
<1>10. ASSUME NEW c \in Conn, CloseStops(c) PROVE AgentKnown'
  BY <1>10 DEF CloseStops, Closer, StopProcess, callbackVars
<1>11. ASSUME NEW c \in Conn, GroupDone(c) PROVE AgentKnown'
  BY <1>11 DEF GroupDone, Closer, callbackVars
<1>12. ASSUME NEW c \in Conn, AgentHandles(c) PROVE AgentKnown'
  BY <1>12 DEF AgentHandles, callbackVars
<1>13. ASSUME NEW c \in Conn, AgentStops(c) PROVE AgentKnown'
  BY <1>13 DEF AgentStops, StopProcess, callbackVars
<1>14. ASSUME NEW c \in Conn, AgentDestroy(c) PROVE AgentKnown'
  BY <1>14 DEF AgentDestroy
<1>15. ASSUME NEW c \in Conn, ConnectionCloses(c) PROVE AgentKnown'
  BY <1>15 DEF ConnectionCloses, Closes
<1>16. ASSUME NEW c \in Conn, StopAgent(c) PROVE AgentKnown'
  BY <1>16 DEF StopAgent, StopProcess, callbackVars
<1>17. CASE RejectNew
  BY <1>17 DEF RejectNew, callbackVars, InOnConnected
<1>18. CASE StopWaits
  BY <1>18 DEF StopWaits, callbackVars
<1>19. CASE StopReturns
  BY <1>19 DEF StopReturns, callbackVars
<1> QED
  BY <1>1, <1>2, <1>3, <1>4, <1>5, <1>6, <1>7, <1>8, <1>9, <1>10, <1>11, <1>12, <1>13, <1>14, <1>15, <1>16, <1>17, <1>18, <1>19 DEF Next, OpenStep, CloseStep, AgentStep, StopStep

\* Every step keeps StopPhases.
LEMMA StepStopPhases ==
  ASSUME IInv, Next
  PROVE  StopPhases'
<1> USE DEF IInv, TypeOK, Phases, StopPhases, InOnConnected, Leaving, Spawned, bridgeVars, stopVars, agentVars
<1>1. ASSUME NEW c \in Conn, OnConnected(c) PROVE StopPhases'
  BY <1>1 DEF OnConnected, Connects, Open
<1>2. ASSUME NEW c \in Conn, Refuse(c) PROVE StopPhases'
  BY <1>2 DEF Refuse, Connected, Open
<1>3. ASSUME NEW c \in Conn, Spawn(c) PROVE StopPhases'
  BY <1>3 DEF Spawn, Connected, Open, callbackVars
<1>4. ASSUME NEW c \in Conn, SetUserData(c) PROVE StopPhases'
  BY <1>4 DEF SetUserData, Open, callbackVars
<1>5. ASSUME NEW c \in Conn, GroupAdd(c) PROVE StopPhases'
  BY <1>5 DEF GroupAdd, Open, callbackVars
<1>6. ASSUME NEW c \in Conn, Track(c) PROVE StopPhases'
  BY <1>6 DEF Track, Connected, Open
<1>7. ASSUME NEW c \in Conn, OnMessage(c) PROVE StopPhases'
  BY <1>7 DEF OnMessage, Delivers
<1>8. ASSUME NEW c \in Conn, OnClose(c) PROVE StopPhases'
  BY <1>8 DEF OnClose, Notifies, Closer
<1>9. ASSUME NEW c \in Conn, GetAndDelete(c) PROVE StopPhases'
  BY <1>9 DEF GetAndDelete, Closer, callbackVars
<1>10. ASSUME NEW c \in Conn, CloseStops(c) PROVE StopPhases'
  BY <1>10 DEF CloseStops, Closer, StopProcess, callbackVars
<1>11. ASSUME NEW c \in Conn, GroupDone(c) PROVE StopPhases'
  BY <1>11 DEF GroupDone, Closer, callbackVars
<1>12. ASSUME NEW c \in Conn, AgentHandles(c) PROVE StopPhases'
  BY <1>12 DEF AgentHandles, callbackVars
<1>13. ASSUME NEW c \in Conn, AgentStops(c) PROVE StopPhases'
  BY <1>13 DEF AgentStops, StopProcess, callbackVars
<1>14. ASSUME NEW c \in Conn, AgentDestroy(c) PROVE StopPhases'
  BY <1>14 DEF AgentDestroy
<1>15. ASSUME NEW c \in Conn, ConnectionCloses(c) PROVE StopPhases'
  BY <1>15 DEF ConnectionCloses, Closes
<1>16. ASSUME NEW c \in Conn, StopAgent(c) PROVE StopPhases'
  BY <1>16 DEF StopAgent, StopProcess, callbackVars
<1>17. CASE RejectNew
  BY <1>17 DEF RejectNew, callbackVars, InOnConnected
<1>18. CASE StopWaits
  BY <1>18 DEF StopWaits, callbackVars
<1>19. CASE StopReturns
  BY <1>19, GroupCounts DEF StopReturns, callbackVars
<1> QED
  BY <1>1, <1>2, <1>3, <1>4, <1>5, <1>6, <1>7, <1>8, <1>9, <1>10, <1>11, <1>12, <1>13, <1>14, <1>15, <1>16, <1>17, <1>18, <1>19 DEF Next, OpenStep, CloseStep, AgentStep, StopStep

\* Every step keeps the count: OnConnected enters a connection, Track moves it to
\* the table, GetAndDelete takes it out and GroupDone leaves.
LEMMA StepGroup ==
  ASSUME IInv, Next
  PROVE  GroupAccounting'
<1> DEFINE Same == Entering' = Entering /\ pids' = pids /\ Leaving' = Leaving /\ group' = group
<1>0. /\ IsFiniteSet(Entering) /\ IsFiniteSet(pids) /\ IsFiniteSet(Leaving)
      /\ Cardinality(Entering) \in Nat /\ Cardinality(pids) \in Nat
      /\ Cardinality(Leaving) \in Nat
      /\ group = Cardinality(Entering) + Cardinality(pids) + Cardinality(Leaving)
  BY CountedFinite DEF IInv, GroupAccounting
<1>same. ASSUME Same PROVE GroupAccounting'
  BY <1>0, <1>same DEF GroupAccounting
<1>1. ASSUME NEW c \in Conn, OnConnected(c) PROVE GroupAccounting'
  <2>1. Same
    BY <1>1 DEF OnConnected, IInv, TypeOK, Entering, Leaving, bridgeVars, Connects, Open, Phases
  <2> QED
    BY <2>1, <1>same
<1>2. ASSUME NEW c \in Conn, Refuse(c) PROVE GroupAccounting'
  <2>1. Same
    BY <1>2 DEF Refuse, IInv, TypeOK, Entering, Leaving, bridgeVars, Connected, Open
  <2> QED
    BY <2>1, <1>same
<1>3. ASSUME NEW c \in Conn, Spawn(c) PROVE GroupAccounting'
  <2>1. Same
    BY <1>3 DEF Spawn, IInv, TypeOK, Entering, Leaving, bridgeVars, Connected, Open
  <2> QED
    BY <2>1, <1>same
<1>4. ASSUME NEW c \in Conn, SetUserData(c) PROVE GroupAccounting'
  <2>1. Same
    BY <1>4 DEF SetUserData, IInv, TypeOK, Entering, Leaving, bridgeVars, Open
  <2> QED
    BY <2>1, <1>same
<1>5. ASSUME NEW c \in Conn, GroupAdd(c) PROVE GroupAccounting'
  <2>1. c \notin Entering /\ Entering' = Entering \cup {c}
    BY <1>5 DEF GroupAdd, Open, Entering, IInv, TypeOK
  <2>2. pids' = pids /\ Leaving' = Leaving /\ group' = group + 1
    BY <1>5 DEF GroupAdd, Leaving
  <2>3. Cardinality(Entering') = Cardinality(Entering) + 1
    BY <1>0, <2>1, FS_AddElement
  <2> QED
    BY <1>0, <2>2, <2>3 DEF GroupAccounting
<1>6. ASSUME NEW c \in Conn, Track(c) PROVE GroupAccounting'
  <2>1. c \in Entering /\ Entering' = Entering \ {c}
    BY <1>6 DEF Track, Open, Entering, IInv, TypeOK
  <2>2. c \notin pids /\ pids' = pids \cup {c}
    BY <1>6 DEF Track, IInv, Phases
  <2>3. Leaving' = Leaving /\ group' = group
    BY <1>6 DEF Track, Leaving
  <2>4. Cardinality(Entering') = Cardinality(Entering) - 1
    BY <1>0, <2>1, FS_RemoveElement
  <2>5. Cardinality(pids') = Cardinality(pids) + 1
    BY <1>0, <2>2, FS_AddElement
  <2> QED
    BY <1>0, <2>3, <2>4, <2>5 DEF GroupAccounting
<1>7. ASSUME NEW c \in Conn, OnMessage(c) PROVE GroupAccounting'
  <2>1. Same
    BY <1>7 DEF OnMessage, IInv, TypeOK, Entering, Leaving, bridgeVars
  <2> QED
    BY <2>1, <1>same
<1>8. ASSUME NEW c \in Conn, OnClose(c) PROVE GroupAccounting'
  <2>1. Same
    BY <1>8 DEF OnClose, IInv, TypeOK, Entering, Leaving, bridgeVars, Closer, Notifies, Phases
  <2> QED
    BY <2>1, <1>same
<1>9. ASSUME NEW c \in Conn, GetAndDelete(c) PROVE GroupAccounting'
  <2>1. Entering' = Entering /\ group' = group
    BY <1>9 DEF GetAndDelete, Entering
  <2>2. CASE c \in pids
    <3>1. c \notin Leaving /\ Leaving' = Leaving \cup {c}
      BY <1>9, <2>2 DEF GetAndDelete, Closer, Leaving, IInv, TypeOK
    <3>2. Cardinality(Leaving') = Cardinality(Leaving) + 1
      BY <1>0, <3>1, FS_AddElement
    <3>3. Cardinality(pids') = Cardinality(pids) - 1
      BY <1>0, <1>9, <2>2, FS_RemoveElement DEF GetAndDelete
    <3> QED
      BY <1>0, <2>1, <3>2, <3>3 DEF GroupAccounting
  <2>3. CASE c \notin pids
    <3>1. pids' = pids /\ Leaving' = Leaving
      BY <1>9, <2>3 DEF GetAndDelete, Closer, Leaving, IInv, TypeOK
    <3> QED
      BY <2>1, <3>1, <1>same
  <2> QED
    BY <2>2, <2>3
<1>10. ASSUME NEW c \in Conn, CloseStops(c) PROVE GroupAccounting'
  <2>1. Same
    BY <1>10 DEF CloseStops, IInv, TypeOK, Entering, Leaving, bridgeVars, Closer
  <2> QED
    BY <2>1, <1>same
<1>11. ASSUME NEW c \in Conn, GroupDone(c) PROVE GroupAccounting'
  <2>1. c \in Leaving /\ Leaving' = Leaving \ {c}
    BY <1>11 DEF GroupDone, Closer, Leaving, IInv, TypeOK
  <2>2. Entering' = Entering /\ pids' = pids /\ group' = group - 1
    BY <1>11 DEF GroupDone, Entering
  <2>3. Cardinality(Leaving') = Cardinality(Leaving) - 1
    BY <1>0, <2>1, FS_RemoveElement
  <2> QED
    BY <1>0, <2>2, <2>3 DEF GroupAccounting
<1>12. ASSUME NEW c \in Conn, AgentHandles(c) PROVE GroupAccounting'
  <2>1. Same
    BY <1>12 DEF AgentHandles, IInv, TypeOK, Entering, Leaving, bridgeVars
  <2> QED
    BY <2>1, <1>same
<1>13. ASSUME NEW c \in Conn, AgentStops(c) PROVE GroupAccounting'
  <2>1. Same
    BY <1>13 DEF AgentStops, IInv, TypeOK, Entering, Leaving, bridgeVars
  <2> QED
    BY <2>1, <1>same
<1>14. ASSUME NEW c \in Conn, AgentDestroy(c) PROVE GroupAccounting'
  <2>1. Same
    BY <1>14 DEF AgentDestroy, IInv, TypeOK, Entering, Leaving, bridgeVars
  <2> QED
    BY <2>1, <1>same
<1>15. ASSUME NEW c \in Conn, ConnectionCloses(c) PROVE GroupAccounting'
  <2>1. Same
    BY <1>15 DEF ConnectionCloses, IInv, TypeOK, Entering, Leaving, bridgeVars
  <2> QED
    BY <2>1, <1>same
<1>16. ASSUME NEW c \in Conn, StopAgent(c) PROVE GroupAccounting'
  <2>1. Same
    BY <1>16 DEF StopAgent, IInv, TypeOK, Entering, Leaving, bridgeVars
  <2> QED
    BY <2>1, <1>same
<1>17. CASE RejectNew
  <2>1. Same
    BY <1>17 DEF RejectNew, Entering, Leaving, bridgeVars
  <2> QED
    BY <2>1, <1>same
<1>18. CASE StopWaits
  <2>1. Same
    BY <1>18 DEF StopWaits, Entering, Leaving, bridgeVars
  <2> QED
    BY <2>1, <1>same
<1>19. CASE StopReturns
  <2>1. Same
    BY <1>19 DEF StopReturns, Entering, Leaving, bridgeVars
  <2> QED
    BY <2>1, <1>same
<1> QED
  BY <1>1, <1>2, <1>3, <1>4, <1>5, <1>6, <1>7, <1>8, <1>9, <1>10, <1>11, <1>12, <1>13, <1>14, <1>15, <1>16, <1>17, <1>18, <1>19 DEF Next, OpenStep, CloseStep, AgentStep, StopStep

-----------------------------------------------------------------------------
\* No connection, no agent and an empty group satisfy the invariant.
LEMMA InitIInv == Init => IInv
<1> SUFFICES ASSUME Init PROVE IInv
  OBVIOUS
<1>1. TypeOK
  <2>1. 0 \in 0..MaxMessage
    BY MessageAssumption
  <2>2. messages \in [Conn -> 0..MaxMessage] /\ inbox \in [Conn -> 0..MaxMessage]
    BY <2>1 DEF Init, CallbacksInit
  <2> QED
    BY <2>2 DEF Init, CallbacksInit, TypeOK
<1>2. Phases
  <2> SUFFICES ASSUME NEW c \in Conn
               PROVE  /\ InOnConnected(c) <=> connected[c] = "running"
                      /\ opening[c] = "none" <=> connected[c] = "no"
                      /\ c \in pids => opening[c] = "done"
                      /\ c \in Leaving => opening[c] = "done" /\ c \notin pids
                      /\ closer[c] # "none" => c \in notified
                      /\ inbox[c] <= messages[c]
    BY DEF Phases
  <2>1. /\ opening[c] = "none" /\ connected[c] = "no" /\ closer[c] = "none"
        /\ inbox[c] = 0 /\ messages[c] = 0 /\ pids = {}
    BY DEF Init, CallbacksInit
  <2> QED
    BY <2>1 DEF InOnConnected, Leaving
<1>3. GroupAccounting
  <2>1. Entering = {} /\ pids = {} /\ Leaving = {} /\ group = 0
    BY DEF Init, Entering, Leaving
  <2> QED
    BY <2>1, FS_EmptySet DEF GroupAccounting
<1>4. AgentKnown /\ StopPhases
  BY DEF Init, AgentKnown, StopPhases, Spawned, Leaving
<1> QED
  BY <1>1, <1>2, <1>3, <1>4 DEF IInv

\* Every step keeps the invariant.
LEMMA StepIInv == IInv /\ [Next]_vars => IInv'
<1> SUFFICES ASSUME IInv, [Next]_vars PROVE IInv'
  OBVIOUS
<1>1. CASE Next
  BY <1>1, StepTypeOK, StepPhases, StepGroup, StepAgentKnown, StepStopPhases DEF IInv
<1>2. CASE UNCHANGED vars
  BY <1>2 DEF vars, callbackVars, bridgeVars, stopVars, agentVars, IInv, TypeOK, Phases,
     GroupAccounting, AgentKnown, StopPhases, InOnConnected, Entering, Leaving, Spawned
<1> QED
  BY <1>1, <1>2

\* The inductive invariant of the bridge and Gateway.Stop.
THEOREM Invariance == Spec => []IInv
BY InitIInv, StepIInv, PTL DEF Spec

\* The bridge keeps its types: in particular the wait group never goes negative,
\* which would panic in OnClose.
THEOREM TypeCorrect == Spec => []TypeOK
<1>1. IInv => TypeOK
  BY DEF IInv
<1> QED BY <1>1, Invariance, PTL

\* The wait group counts exactly the agents in the table, entering or leaving it,
\* however the callbacks of any number of connections interleave.
THEOREM GroupExact == Spec => []GroupAccounting
<1>1. IInv => GroupAccounting
  BY DEF IInv
<1> QED BY <1>1, Invariance, PTL

\* When Gateway.Stop returns nil no agent runs, and none will be started.
THEOREM StopIsComplete == Spec => []StopComplete
<1>1. IInv => StopComplete
  <2> SUFFICES ASSUME IInv, stopper = "ok", NEW c \in Conn
               PROVE  pids = {} /\ agent[c] # "running" /\ opening[c] \notin Spawned
    BY DEF StopComplete, IInv, StopPhases
  <2>1. pids = {} /\ Leaving = {} /\ opening[c] \notin Spawned
    BY DEF IInv, StopPhases
  <2>2. closer[c] # "stop"
    BY <2>1 DEF Leaving
  <2> QED
    BY <2>1, <2>2 DEF IInv, AgentKnown
<1> QED BY <1>1, Invariance, PTL

=============================================================================
