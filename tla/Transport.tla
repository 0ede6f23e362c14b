----------------------------- MODULE Transport ------------------------------
(***************************************************************************)
(* All of src/comms.c: apprentices connect to a master, and the one that   *)
(* is accepted exchanges packets with it.  The sender of Comms is the      *)
(* master, which returns from master_connect before it sends; the receiver *)
(* is the accepted apprentice, which may wait for a packet while the       *)
(* master still closes its server socket.                                  *)
(***************************************************************************)
EXTENDS Comms

CONSTANTS Apprentices, Backlog

VARIABLES master, queue, peer, state

K == INSTANCE Connect

connecting == <<master, queue, peer, state>>
allVars == <<vars, connecting>>

TInit == Init /\ K!Init

Connects == K!Next /\ UNCHANGED vars
MasterSends == master = "connected" /\ Sends /\ UNCHANGED connecting
ApprenticeReceives == peer # {} /\ Receives /\ UNCHANGED connecting

\* There is nobody left, or the two that were connected are gone.
AllGone ==
  /\ master = "exited" /\ \A a \in Apprentices : state[a] \in {"lost", "exited"}
  /\ UNCHANGED allVars

TNext ==
  \/ Connects
  \/ MasterSends
  \/ ApprenticeReceives
  \/ /\ master = "connected"
     /\ \/ \E p \in Packets : send_data_pkt(p)
        \/ ReadInterrupted \/ ReadResponseInterrupted
        \/ SenderDies \/ ReceiverDies \/ Finished
     /\ UNCHANGED connecting
  \/ AllGone

\* A process that is not blocked runs, the handlers of src/risu.c do not stop
\* between two calls, and the kernel moves what can be moved.  Nothing makes a
\* signal arrive or a process die.
TSpec ==
  /\ TInit /\ [][TNext]_allVars
  /\ K!Fairness
  /\ WF_allVars(MasterSends) /\ WF_allVars(ApprenticeReceives)

-----------------------------------------------------------------------------
\* Once the master has its connection, the only apprentice that believes to be
\* connected is the one it accepted (master_connect).
OnePeer == K!OnePeer

\* An apprentice whose connect succeeded is accepted or learns that it is not:
\* nobody waits for a master that will never answer.
NobodyForgotten == K!NobodyForgotten
=============================================================================
