----------------------------- MODULE Callbacks -----------------------------
(***************************************************************************)
(* What a connection promises its TransportHandler (network/iface.go):     *)
(* OnConnected is called at most once; OnMessage only after OnConnected    *)
(* returned nil; OnClose at most once, never on an open connection, and    *)
(* once a connection is closed OnClose is called eventually.  Nothing      *)
(* orders OnClose with OnConnected: it may come first, or meanwhile.       *)
(***************************************************************************)
EXTENDS Naturals

CONSTANT Conn    \* connections

VARIABLES
  closed,        \* connections whose state is Closed
  connected,     \* per connection: the call of OnConnected
  messages,      \* per connection: calls of OnMessage
  notified       \* connections whose OnClose was called

callbackVars == <<closed, connected, messages, notified>>

CallbacksInit ==
  /\ closed = {} /\ notified = {}
  /\ connected = [c \in Conn |-> "no"]
  /\ messages = [c \in Conn |-> 0]

\* The state becomes Closed, for whatever reason.
Closes(c) ==
  /\ c \notin closed
  /\ closed' = closed \cup {c}
  /\ UNCHANGED <<connected, messages, notified>>

\* OnConnected is called.
Connects(c) ==
  /\ connected[c] = "no"
  /\ connected' = [connected EXCEPT ![c] = "running"]
  /\ UNCHANGED <<closed, messages, notified>>

\* OnConnected returns nil ("ok") or an error.
Connected(c, outcome) ==
  /\ connected[c] = "running" /\ outcome \in {"ok", "error"}
  /\ connected' = [connected EXCEPT ![c] = outcome]
  /\ UNCHANGED <<closed, messages, notified>>

\* OnMessage is called.
Delivers(c) ==
  /\ connected[c] = "ok"
  /\ messages' = [messages EXCEPT ![c] = @ + 1]
  /\ UNCHANGED <<closed, connected, notified>>

\* OnClose is called.
Notifies(c) ==
  /\ c \in closed \ notified
  /\ notified' = notified \cup {c}
  /\ UNCHANGED <<closed, connected, messages>>

CallbacksNext ==
  \E c \in Conn :
    \/ Closes(c) \/ Connects(c) \/ Delivers(c) \/ Notifies(c)
    \/ \E outcome \in {"ok", "error"} : Connected(c, outcome)

CallbacksSafety == CallbacksInit /\ [][CallbacksNext]_callbackVars

CallbacksSpec ==
  /\ CallbacksSafety
  /\ \A c \in Conn : WF_callbackVars(Notifies(c))
=============================================================================
