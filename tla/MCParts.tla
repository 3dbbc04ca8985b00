------------------------------ MODULE MCParts ------------------------------
(***************************************************************************)
(* Model checking of the components that do not interact: a behaviour      *)
(* picks one of them and runs it alone, the others stay as they start.     *)
(***************************************************************************)
EXTENDS UdpServer, Snowflake, NodeRuntime, Stream, Membership

CONSTANTS n1, n2

MCServiceOf == [n \in Instance |-> IF n = n1 THEN "game" ELSE "gate"]
MCCore == <<"system", "cluster">>
MCOptions == <<"late">>
MCPriority == [c \in Component |-> IF c = "late" THEN 2 ELSE 1]
MCTransforms == <<"gzip", "sign">>
MCMinSize == [gzip |-> 1, sign |-> 0]
MCMaxDecodedSize == [gzip |-> 2, sign |-> 0]
\* Too short for gzip; longer, shorter by it; beyond the decoded size, the
\* inbound size, the outbound size.
MCBodies == {<<0, 0, 0>>, <<1, 2, 2>>, <<2, 1, 1>>, <<3, 1, 1>>, <<2, 3, 3>>, <<2, 3, 4>>}

VARIABLE part

vars == <<part, udpVars, snowVars, nodeVars, streamVars, memberVars>>

Init ==
  /\ part \in {"udp", "snowflake", "node", "stream", "membership"}
  /\ UdpInit /\ SnowInit /\ NodeInit /\ StreamInit /\ MemberInit

Udp == part = "udp" /\ UdpNext /\ UNCHANGED <<part, snowVars, nodeVars, streamVars, memberVars>>
Snow == part = "snowflake" /\ SnowNext /\ UNCHANGED <<part, udpVars, nodeVars, streamVars, memberVars>>
Node == part = "node" /\ NodeNext /\ UNCHANGED <<part, udpVars, snowVars, streamVars, memberVars>>
Streaming == part = "stream" /\ StreamNext /\ UNCHANGED <<part, udpVars, snowVars, nodeVars, memberVars>>

Member(A) == part = "membership" /\ A /\ UNCHANGED <<part, udpVars, snowVars, nodeVars, streamVars>>

Next == Udp \/ Snow \/ Node \/ Streaming \/ Member(MemberNext)

\* MemberFairness, for the behaviours that picked the membership.
Fairness ==
  /\ \A n \in Instance :
       /\ WF_vars(Member(KeepAlive(n))) /\ WF_vars(Member(Lapse(n)))
       /\ WF_vars(Member(Deregister(n)))
  /\ WF_vars(Member(CatalogPolls \/ ReconcileServices))
  /\ \A i \in Watcher : WF_vars(Member(WatcherStep(i)))

Spec == Init /\ [][Next]_vars /\ Fairness
=============================================================================
