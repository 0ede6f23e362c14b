------------------------------- MODULE Channel --------------------------------
(***************************************************************************)
(* What src/comms.c promises to the handlers of src/risu.c: a packet goes  *)
(* over whole or not at all, the receiver learns whether it had the length *)
(* it asked for, and the sender waits until the receiver has answered.     *)
(***************************************************************************)
EXTENDS Naturals, Sequences

CONSTANTS
  Packets,    \* the byte sequences that may be sent
  Lengths,    \* the lengths a receiver may ask for
  Responses   \* the response bytes

VARIABLES
  sender, receiver,
  wire,     \* the packet in flight, in a sequence of length at most one
  want,     \* the length the receiver asked for
  result,   \* what recv_data_pkt returned, and the contents of its buffer
  answer,   \* the response in flight
  response  \* what send_data_pkt returned last

vars == <<sender, receiver, wire, want, result, answer, response>>

Nothing == [res |-> "none", data |-> <<>>]

Init ==
  /\ sender = "idle" /\ receiver = "idle"
  /\ wire = <<>> /\ answer = <<>>
  /\ want \in Lengths
  /\ result = Nothing
  /\ response \in Responses

Send(p) ==
  /\ sender = "idle" /\ sender' = "waiting"
  /\ wire' = <<p>>
  /\ UNCHANGED <<receiver, want, result, answer, response>>

Receive(n) ==
  /\ receiver = "idle" /\ receiver' = "receiving"
  /\ want' = n
  /\ UNCHANGED <<sender, wire, result, answer, response>>

Deliver ==
  /\ receiver = "receiving" /\ receiver' = "deciding"
  /\ wire # <<>> /\ wire' = <<>>
  /\ result' = IF Len(Head(wire)) = want
                 THEN [res |-> "RES_OK", data |-> Head(wire)]
                 ELSE [res |-> "RES_BAD_IO", data |-> <<>>]
  /\ UNCHANGED <<sender, want, answer, response>>

Answer(r) ==
  /\ receiver = "deciding" /\ receiver' = "idle"
  /\ answer' = <<r>>
  /\ result' = Nothing
  /\ UNCHANGED <<sender, wire, want, response>>

Return ==
  /\ sender = "waiting" /\ sender' = "idle"
  /\ answer # <<>> /\ answer' = <<>>
  /\ response' = Head(answer)
  /\ UNCHANGED <<receiver, wire, want, result>>

\* A process that goes may take the packet it was sending with it.
SenderFails ==
  /\ sender # "gone" /\ sender' = "gone"
  /\ wire' \in {wire, <<>>}
  /\ UNCHANGED <<receiver, want, result, answer, response>>

ReceiverFails ==
  /\ receiver # "gone" /\ receiver' = "gone"
  /\ result' = Nothing
  /\ UNCHANGED <<sender, wire, want, answer, response>>

Next ==
  \/ \E p \in Packets : Send(p)
  \/ \E n \in Lengths : Receive(n)
  \/ Deliver
  \/ \E r \in Responses : Answer(r)
  \/ Return
  \/ SenderFails
  \/ ReceiverFails

Spec == Init /\ [][Next]_vars
=============================================================================
