------------------------------ MODULE Connect ------------------------------
(***************************************************************************)
(* Connection set-up (comms.c): the master listens on a port for one       *)
(* apprentice; several apprentices may be started, before or after it.     *)
(* Nobody retries: what fails ends the process.  The listening socket,     *)
(* with the connections the system completes before they are accepted, is  *)
(* the system's.                                                           *)
(***************************************************************************)
EXTENDS Naturals, Sequences

CONSTANTS Apprentices, Backlog   \* the processes; the system's queue length

VARIABLES
  master,   \* "socket", "bound", "listening", "accepted", "connected", "exited"
  queue,    \* the connections completed and not yet accepted
  peer,     \* the apprentices accepted: one at most
  state     \* of each apprentice: "socket", "connected", "lost", "exited"

vars == <<master, queue, peer, state>>

Init ==
  /\ master = "socket" /\ queue = << >> /\ peer = {}
  /\ state = [a \in Apprentices |-> "socket"]

\* socket, setsockopt and bind succeed, or the master exits.
Bind ==
  /\ master = "socket"
  /\ master' \in {"bound", "exited"}
  /\ UNCHANGED <<queue, peer, state>>

Listen ==
  /\ master = "bound"
  /\ master' \in {"listening", "exited"}
  /\ UNCHANGED <<queue, peer, state>>

\* accept blocks until there is a connection.
Accept ==
  /\ master = "listening" /\ queue # << >>
  /\ peer' = {Head(queue)} /\ queue' = Tail(queue)
  /\ master' = "accepted"
  /\ UNCHANGED state

Queued == {queue[i] : i \in DOMAIN queue}

\* (Mutant: the server socket is left open.)
CloseServer_Kept ==
  /\ master = "accepted"
  /\ master' = "connected"
  /\ UNCHANGED <<queue, peer, state>>

\* "We're done with the server socket now": closing it resets the connections
\* that nobody accepted.
CloseServer ==
  /\ master = "accepted"
  /\ master' = "connected" /\ queue' = << >>
  /\ state' = [a \in Apprentices |-> IF a \in Queued THEN "lost" ELSE state[a]]
  /\ UNCHANGED peer

\* accept fails: the master exits, and with it its server socket.
AcceptFails ==
  /\ master = "listening"
  /\ master' = "exited" /\ queue' = << >>
  /\ state' = [a \in Apprentices |-> IF a \in Queued THEN "lost" ELSE state[a]]
  /\ UNCHANGED peer

Accepts == master \in {"listening", "accepted"}

\* An unknown host, no socket, or nobody listening: the apprentice exits.
ConnectFails(a) ==
  /\ state[a] = "socket"
  /\ state' = [state EXCEPT ![a] = "exited"]
  /\ UNCHANGED <<master, queue, peer>>

\* connect succeeds as soon as the system queues the connection.
ConnectSucceeds(a) ==
  /\ state[a] = "socket" /\ Accepts /\ Len(queue) < Backlog
  /\ queue' = Append(queue, a)
  /\ state' = [state EXCEPT ![a] = "connected"]
  /\ UNCHANGED <<master, peer>>

Next ==
  \/ Bind \/ Listen \/ Accept \/ CloseServer \/ AcceptFails
  \/ \E a \in Apprentices : ConnectFails(a) \/ ConnectSucceeds(a)

\* A process that is not blocked runs; accept returns when it can, and nothing
\* makes it fail.
Fairness ==
  /\ WF_vars(Bind \/ Listen \/ Accept \/ CloseServer)
  /\ \A a \in Apprentices : WF_vars(ConnectFails(a) \/ ConnectSucceeds(a))

Spec == Init /\ [][Next]_vars

----------------------------------------------------------------------------
\* Once the master has its connection, the only apprentice that believes to be
\* connected is the one it accepted.
OnePeer ==
  master = "connected" =>
    {a \in Apprentices : state[a] = "connected"} = peer

\* An apprentice whose connect succeeded is accepted or learns that it is not:
\* nobody waits for a master that will never answer.
NobodyForgotten ==
  \A a \in Apprentices :
    state[a] = "connected" ~> (a \in peer \/ state[a] = "lost")
=============================================================================
