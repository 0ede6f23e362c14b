-------------------------------- MODULE Comms ---------------------------------
(***************************************************************************)
(* src/comms.c: packets and response bytes over one TCP connection.  The   *)
(* sender writes the length and the data with one writev, the receiver     *)
(* reads them with as many reads as the kernel makes of it, and answers    *)
(* with one byte.  writev, read and the socket buffer are external: a      *)
(* blocking writev hands its bytes to the socket one by one and returns    *)
(* when all are gone or, interrupted, when some are; read returns any      *)
(* number of bytes from one to what was asked for and is there.            *)
(***************************************************************************)
EXTENDS Naturals, Sequences, FiniteSetsExt

CONSTANTS
  ByteMod,      \* bytes are 0 .. ByteMod - 1
  LenBytes,     \* sizeof(net_pktlen)
  DumpLen,      \* sizeof(dumpbuf)
  SockBuf,      \* bound: bytes the socket holds
  Packets,      \* the packets send_data_pkt is called with
  Lengths,      \* the lengths recv_data_pkt is called with
  Responses,    \* the responses send_response_byte is called with
  ShortWrites,  \* where an interrupted writev may stop: "between" the two
                \* iovecs or "anywhere"
  Interrupts    \* may an interrupted read return EINTR?

Byte == 0 .. ByteMod - 1

\* Network order: the most significant byte first.
htonl(n) == [i \in 1 .. LenBytes |-> (n \div ByteMod ^ (LenBytes - i)) % ByteMod]
ntohl(b) == MapThenSumSet(LAMBDA i : b[i] * ByteMod ^ (LenBytes - i),
                          1 .. LenBytes)

ASSUME SizesAssumption ==
  /\ ByteMod \in Nat \ {0} /\ LenBytes \in Nat \ {0}
  /\ DumpLen \in Nat \ {0} /\ SockBuf \in Nat \ {0}
  /\ ShortWrites \in {"between", "anywhere"} /\ Interrupts \in BOOLEAN

\* Packets are not empty (extra is NULL then), lengths fit in 32 bits, and the
\* two conversions are inverse to each other.
ASSUME PacketsAssumption ==
  /\ \A p \in Packets : p \in Seq(Byte) /\ p # <<>> /\ ntohl(htonl(Len(p))) = Len(p)
  /\ Lengths \subseteq Nat \ {0}

VARIABLES
  sst,          \* the sender: outside, in writev, in read, gone
  iov, r,       \* safe_writev: what is left to write, bytes written so far
  moved,        \* bytes the current writev has handed over
  pkt,          \* history: the packet send_data_pkt was called with last
  resp,
  net, back,    \* bytes in flight, responses in flight
  rst,          \* the receiver: outside, in one of three reads, to answer, gone
  want,         \* recv_data_pkt's pktlen
  left, got,    \* bytes recv_bytes has still to read, bytes it has read
  res, errno,
  taken         \* history: the receiver has returned from recv_data_pkt for pkt

sendervars == <<sst, iov, r, moved, pkt, resp>>
receivervars == <<rst, want, left, got, res, errno>>
vars == <<sendervars, net, back, receivervars, taken>>

Reading == {"length", "data", "discard"}
SmallerOf(m, n) == IF m < n THEN m ELSE n

Init ==
  /\ sst = "idle" /\ iov = <<>> /\ r = 0 /\ moved = 0 /\ pkt = <<>>
  /\ resp \in Responses
  /\ net = <<>> /\ back = <<>>
  /\ rst = "idle" /\ want \in Lengths /\ left = 0 /\ got = <<>>
  /\ res = "RES_OK" /\ errno = "none"
  /\ taken = TRUE

-----------------------------------------------------------------------------
(* The sender.                                                             *)

send_data_pkt(p) ==
  /\ sst = "idle"
  /\ sst' = "writev"
  /\ iov' = <<[base |-> htonl(Len(p)), len |-> LenBytes],
              [base |-> p, len |-> Len(p)]>>
  /\ r' = 0 /\ moved' = 0
  /\ pkt' = p
  /\ taken' = FALSE
  /\ UNCHANGED <<resp, net, back, receivervars>>

\* The bytes a writev of v writes: the first len bytes of each base.
Bytes(v) ==
  IF v = <<>> THEN <<>>
  ELSE SubSeq(v[1].base, 1, v[1].len)
         \o (IF Len(v) = 1 THEN <<>> ELSE SubSeq(v[2].base, 1, v[2].len))

Transfer ==
  /\ sst = "writev" /\ rst # "exit"
  /\ moved < Len(Bytes(iov)) /\ Len(net) < SockBuf
  /\ net' = Append(net, Bytes(iov)[moved + 1])
  /\ moved' = moved + 1
  /\ UNCHANGED <<sst, iov, r, pkt, resp, back, receivervars, taken>>

\* Everything is written: safe_writev runs out of iovecs and returns.
WritevReturns ==
  /\ sst = "writev" /\ moved = Len(Bytes(iov))
  /\ sst' = "read"
  /\ r' = r + moved
  /\ UNCHANGED <<iov, moved, pkt, resp, net, back, receivervars, taken>>

\* "Move forward through iov to account for data transferred": whole iovecs
\* are dropped, the length of the next is reduced, its base stays.
forward(v, i) ==
  IF i < v[1].len THEN [v EXCEPT ![1].len = @ - i]
  ELSE <<[v[2] EXCEPT !.len = @ - (i - v[1].len)]>>

ShortWrite ==
  /\ sst = "writev" /\ moved \in 1 .. Len(Bytes(iov)) - 1
  /\ ShortWrites = "between" => moved = iov[1].len
  /\ r' = r + moved
  /\ iov' = forward(iov, moved)
  /\ moved' = 0
  /\ UNCHANGED <<sst, pkt, resp, net, back, receivervars, taken>>

\* The connection is gone: writev fails, or SIGPIPE ends the process.
WritevFails ==
  /\ sst = "writev" /\ rst = "exit"
  /\ sst' = "exit"
  /\ UNCHANGED <<iov, r, moved, pkt, resp, net, back, receivervars, taken>>

ReadResponse ==
  /\ sst = "read" /\ back # <<>>
  /\ sst' = "idle"
  /\ resp' = Head(back) /\ back' = Tail(back)
  /\ UNCHANGED <<iov, r, moved, pkt, net, receivervars, taken>>

\* The end of the stream ends the sender.
ReadResponseFails ==
  /\ sst = "read" /\ back = <<>> /\ rst = "exit"
  /\ sst' = "exit"
  /\ UNCHANGED <<iov, r, moved, pkt, resp, net, back, receivervars, taken>>

\* This read is not retried: so does EINTR.
ReadResponseInterrupted ==
  /\ Interrupts
  /\ sst = "read"
  /\ sst' = "exit"
  /\ UNCHANGED <<iov, r, moved, pkt, resp, net, back, receivervars, taken>>

SenderDies ==
  /\ sst # "exit"
  /\ sst' = "exit"
  /\ UNCHANGED <<iov, r, moved, pkt, resp, net, back, receivervars, taken>>

-----------------------------------------------------------------------------
(* The receiver.                                                           *)

recv_data_pkt(n) ==
  /\ rst = "idle"
  /\ rst' = "length"
  /\ want' = n /\ left' = LenBytes /\ got' = <<>>
  /\ UNCHANGED <<sendervars, net, back, res, errno, taken>>

\* One read() of at most n bytes that returns i of them.
Takes(i, n) ==
  /\ i \in 1 .. SmallerOf(n, Len(net))
  /\ net' = SubSeq(net, i + 1, Len(net))

Returned(q) == rst' = "answer" /\ res' = q /\ taken' = TRUE

\* (Mutant: the data of a packet of the wrong length stays in the stream.)
ReadLength_NoDiscard(i) ==
  /\ rst = "length" /\ Takes(i, left)
  /\ IF i < left
       THEN /\ left' = left - i /\ got' = got \o SubSeq(net, 1, i)
            /\ UNCHANGED <<rst, res, taken>>
       ELSE LET n == ntohl(got \o SubSeq(net, 1, i)) IN
            /\ got' = <<>>
            /\ left' = IF n = want THEN n ELSE 0
            /\ IF n = want THEN rst' = "data" /\ UNCHANGED <<res, taken>>
                           ELSE Returned("RES_BAD_IO")
  /\ UNCHANGED <<sendervars, back, want, errno>>

\* (Mutant: the bytes of the length are discarded once more.)
ReadLength_DiscardsMore(i) ==
  /\ rst = "length" /\ Takes(i, left)
  /\ IF i < left
       THEN /\ left' = left - i /\ got' = got \o SubSeq(net, 1, i)
            /\ UNCHANGED <<rst, res, taken>>
       ELSE LET n == ntohl(got \o SubSeq(net, 1, i)) IN
            /\ got' = <<>> /\ left' = IF n = want THEN n ELSE n + LenBytes
            /\ rst' = IF n = want THEN "data" ELSE "discard"
            /\ UNCHANGED <<res, taken>>
  /\ UNCHANGED <<sendervars, back, want, errno>>

\* recv_bytes(&net_pktlen), and what recv_data_pkt does with the length (a
\* length of zero, on a corrupted stream, leaves nothing to discard).
ReadLength(i) ==
  /\ rst = "length" /\ Takes(i, left)
  /\ IF i < left
       THEN /\ left' = left - i /\ got' = got \o SubSeq(net, 1, i)
            /\ UNCHANGED <<rst, res, taken>>
       ELSE LET n == ntohl(got \o SubSeq(net, 1, i)) IN
            /\ got' = <<>> /\ left' = n
            /\ IF n = 0
                 THEN Returned("RES_BAD_IO")
                 ELSE /\ rst' = IF n = want THEN "data" ELSE "discard"
                      /\ UNCHANGED <<res, taken>>
  /\ UNCHANGED <<sendervars, back, want, errno>>

\* (Mutant: one read is taken for the packet.)
ReadData_Once(i) ==
  /\ rst = "data" /\ Takes(i, left)
  /\ left' = left - i /\ got' = got \o SubSeq(net, 1, i)
  /\ Returned("RES_OK")
  /\ UNCHANGED <<sendervars, back, want, errno>>

\* recv_bytes(pkt), then RES_OK.
ReadData(i) ==
  /\ rst = "data" /\ Takes(i, left)
  /\ left' = left - i /\ got' = got \o SubSeq(net, 1, i)
  /\ IF i < left THEN UNCHANGED <<rst, res, taken>> ELSE Returned("RES_OK")
  /\ UNCHANGED <<sendervars, back, want, errno>>

\* recv_and_discard_bytes, then RES_BAD_IO.
DiscardData(i) ==
  /\ rst = "discard" /\ Takes(i, SmallerOf(left, DumpLen))
  /\ left' = left - i
  /\ IF i < left THEN UNCHANGED <<rst, res, taken>> ELSE Returned("RES_BAD_IO")
  /\ UNCHANGED <<sendervars, back, want, got, errno>>

ReadInterrupted ==
  /\ Interrupts
  /\ rst \in Reading
  /\ errno' = "EINTR"
  /\ UNCHANGED <<sendervars, net, back, rst, want, left, got, res, taken>>

\* (Mutant: the end of the stream is read again.)
ReadEnd_Retries ==
  /\ rst \in Reading /\ net = <<>> /\ sst = "exit"
  /\ UNCHANGED vars

\* read() returns 0 and leaves errno as it was: "continue" if that is EINTR.
ReadEnd ==
  /\ rst \in Reading /\ net = <<>> /\ sst = "exit"
  /\ rst' = IF errno = "EINTR" THEN rst ELSE "exit"
  /\ UNCHANGED <<sendervars, net, back, want, left, got, res, errno, taken>>

send_response_byte(b) ==
  /\ rst = "answer"
  /\ \/ Len(back) < SockBuf /\ rst' = "idle" /\ back' = Append(back, b)
     \/ sst = "exit" /\ rst' = "exit" /\ back' = back
  /\ UNCHANGED <<sendervars, net, want, left, got, res, errno, taken>>

ReceiverDies ==
  /\ rst # "exit"
  /\ rst' = "exit"
  /\ UNCHANGED <<sendervars, net, back, want, left, got, res, errno, taken>>

-----------------------------------------------------------------------------

Sends == Transfer \/ WritevReturns \/ ShortWrite \/ WritevFails
           \/ ReadResponse \/ ReadResponseFails

Receives ==
  \/ \E i \in 1 .. SockBuf : ReadLength(i) \/ ReadData(i) \/ DiscardData(i)
  \/ ReadEnd
  \/ \E n \in Lengths : recv_data_pkt(n)
  \/ \E b \in Responses : send_response_byte(b)

Finished == sst = "exit" /\ rst = "exit" /\ UNCHANGED vars

Next ==
  \/ \E p \in Packets : send_data_pkt(p)
  \/ Sends
  \/ Receives
  \/ ReadInterrupted \/ ReadResponseInterrupted
  \/ SenderDies
  \/ ReceiverDies
  \/ Finished

Spec == Init /\ [][Next]_vars

-----------------------------------------------------------------------------
(* Properties.                                                             *)

\* "retrying for EINTR and short writes", "Move forward through iov to account
\* for data transferred" (src/comms.c:143,155): when recv_data_pkt returns, it
\* has taken exactly the packet that was sent out of the stream, says RES_OK
\* just when the length was the expected one, and then the buffer holds the
\* packet.  It is so when writev stops between the length and the data.
Delivered ==
  rst = "answer" =>
    /\ net = <<>>
    /\ res = "RES_OK" <=> Len(pkt) = want
    /\ res = "RES_OK" => got = pkt

\* "This avoids silent deadlocks if the two sides disagree over what size data
\* packet they are transferring" (src/comms.c:180): every send_data_pkt comes
\* back, or its process ends.
NoSilentDeadlock == sst = "writev" ~> sst \in {"idle", "exit"}

\* The wrappers "catch errors" (src/comms.c:98): a receiver whose sender is
\* gone does not try to read for ever, unless a signal has interrupted one of
\* its reads: the end of the stream then leaves errno at EINTR, and recv_bytes
\* reads it again and again.
SenderGoneNoticed ==
  sst = "exit" ~> rst = "exit" \/ (rst \in Reading /\ errno = "EINTR")

\* The routines keep the promise of Channel.
ReceiverPhase ==
  IF rst \in Reading THEN "receiving"
  ELSE IF rst = "answer" THEN "deciding"
  ELSE IF rst = "exit" THEN "gone" ELSE rst

SenderPhase ==
  IF sst \in {"writev", "read"} THEN "waiting"
  ELSE IF sst = "exit" THEN "gone" ELSE sst

Complete == sst # "exit" \/ moved = Len(Bytes(iov))

Wire == IF ~taken /\ Complete THEN <<pkt>> ELSE <<>>

Result ==
  IF rst # "answer" THEN [res |-> "none", data |-> <<>>]
  ELSE [res |-> res, data |-> IF res = "RES_OK" THEN got ELSE <<>>]

C == INSTANCE Channel WITH
  sender <- SenderPhase, receiver <- ReceiverPhase, wire <- Wire,
  result <- Result, answer <- back, response <- resp

\* recv_data_pkt and send_data_pkt move whole packets: however the kernel cuts
\* the stream and whenever a process dies, what the handlers see is a step of
\* Channel or nothing.
ImplementsChannel == C!Spec
=============================================================================
