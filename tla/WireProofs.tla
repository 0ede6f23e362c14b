----------------------------- MODULE WireProofs ------------------------------
(***************************************************************************)
(* What travels between the two sides.  First the transport: Delivered,    *)
(* the refinement of Channel and OnePeer, for all packets,                 *)
(* lengths and sizes and any number of apprentices, when writev stops only *)
(* between the length and the data: however read cuts the stream, whoever  *)
(* dies and whenever a signal comes, recv_data_pkt takes one whole packet  *)
(* out of the stream.  The invariant follows the bytes of one message: the *)
(* socket holds just those between what the sender has handed over and     *)
(* what the receiver has taken.  Then the byte order of what is sent, for  *)
(* every set of builds and every word length.                              *)
(***************************************************************************)
EXTENDS Transport, ByteOrder, SequenceTheorems, TLAPS

Symbol == Byte \cup {htonl(Len(p))[i] : p \in Packets, i \in 1 .. LenBytes}

\* What send_data_pkt writes, and its length.
Message == htonl(Len(pkt)) \o pkt
Total == LenBytes + Len(pkt)

\* How much of the message the receiver has taken.
Consumed ==
  IF rst = "idle" THEN 0
  ELSE IF rst = "length" THEN LenBytes - left
  ELSE Total - left

\* The sender: safe_writev has both iovecs before it or only the second.
WriterInv ==
  /\ r = 0 \/ r = LenBytes
  /\ r = 0 => iov = <<[base |-> htonl(Len(pkt)), len |-> LenBytes],
                      [base |-> pkt, len |-> Len(pkt)]>>
  /\ r = LenBytes => iov = <<[base |-> pkt, len |-> Len(pkt)]>>
  /\ moved \in 0 .. Total - r

\* The sender has handed over the first k symbols of the message: all of them
\* if it waits for the answer, not all if it died before the end.
HandedOver(k) ==
  /\ sst = "writev" => k = r + moved
  /\ sst = "read" => k = Total
  /\ sst = "exit" /\ ~Complete => k < Total

\* A packet is under way.
UnderWay ==
  /\ pkt \in Packets
  /\ sst # "idle" /\ back = <<>>
  /\ rst \in {"idle"} \cup Reading
  /\ rst = "length" => left \in 1 .. LenBytes
                         /\ got = SubSeq(Message, 1, LenBytes - left)
  /\ rst \in {"data", "discard"} => left \in 1 .. Len(pkt)
                                      /\ (rst = "data" <=> want = Len(pkt))
  /\ rst = "data" => got = SubSeq(pkt, 1, Len(pkt) - left)
  /\ \E k \in Consumed .. Total :
       /\ net = SubSeq(Message, Consumed + 1, k)
       /\ HandedOver(k)

\* The last packet was taken; the receiver has still to answer, or may be
\* waiting for the next one.
Taken ==
  /\ net = <<>>
  /\ sst = "writev" => r + moved = Total
  /\ rst \in {"idle", "length", "answer"}
  /\ rst = "length" => left = LenBytes /\ got = <<>>
  /\ rst = "answer" => sst # "idle" /\ back = <<>>
  /\ sst = "idle" => back = <<>>
  /\ rst = "answer" => Delivered

\* Once the receiver is gone nobody reads the stream any more.
StreamInv ==
  rst # "exit" =>
    /\ sst \in {"idle", "writev", "read", "exit"}
    /\ pkt \in Packets \cup {<<>>}
    /\ sst = "writev" => WriterInv
    /\ sst = "writev" => pkt \in Packets
    /\ sst = "read" => moved = Len(Bytes(iov))
    /\ back \in Seq(Responses) /\ Len(back) <= 1
    /\ taken \in BOOLEAN
    /\ IF taken THEN Taken ELSE UnderWay

-----------------------------------------------------------------------------
\* The pieces of a sequence t of which p elements are taken and k written.
LEMMA Pieces ==
  ASSUME NEW S, NEW t \in Seq(S), NEW p \in 0 .. Len(t), NEW k \in p .. Len(t)
  PROVE  /\ SubSeq(t, p + 1, k) \in Seq(S)
         /\ Len(SubSeq(t, p + 1, k)) = k - p
         /\ \A i \in 1 .. k - p : SubSeq(t, p + 1, k)[i] = t[p + i]
<1>1. \A i \in p + 1 .. k : t[i] \in S
  BY ElementOfSeq
<1>2. p + 1 \in Int /\ k \in Int
  OBVIOUS
<1>3. /\ SubSeq(t, p + 1, k) \in Seq(S)
      /\ Len(SubSeq(t, p + 1, k)) = IF p + 1 <= k THEN k - (p + 1) + 1 ELSE 0
      /\ \A i \in 1 .. k - (p + 1) + 1 :
           SubSeq(t, p + 1, k)[i] = t[p + 1 + i - 1]
  BY <1>1, <1>2, SubSeqProperties
<1> QED
  BY <1>2, <1>3

\* A read takes i elements from the front and leaves the rest.
LEMMA ReadSplits ==
  ASSUME NEW S, NEW t \in Seq(S), NEW p \in 0 .. Len(t), NEW k \in p .. Len(t),
         NEW n \in Seq(S), Len(n) = k - p, \A j \in 1 .. k - p : n[j] = t[p + j],
         NEW i \in 1 .. Len(n)
  PROVE  /\ p + i \in p .. k
         /\ SubSeq(n, 1, i) = SubSeq(t, p + 1, p + i)
         /\ SubSeq(n, i + 1, Len(n)) = SubSeq(t, p + i + 1, k)
<1>1. /\ Len(n) = k - p
      /\ \A j \in 1 .. k - p : n[j] = t[p + j]
  BY Zenon
<1>2. p + i \in 0 .. Len(t) /\ p + i \in p .. Len(t) /\ k \in p + i .. Len(t)
      /\ i \in 0 .. Len(n) /\ Len(n) \in i .. Len(n) /\ 0 \in 0 .. Len(n)
  BY <1>1
<1>3. SubSeq(n, 1, i) = SubSeq(t, p + 1, p + i)
  <2>1. /\ SubSeq(n, 0 + 1, i) \in Seq(S) /\ Len(SubSeq(n, 0 + 1, i)) = i - 0
        /\ \A j \in 1 .. i - 0 : SubSeq(n, 0 + 1, i)[j] = n[0 + j]
    BY ZenonT(30), <1>2, Pieces
  <2>2. /\ SubSeq(t, p + 1, p + i) \in Seq(S)
        /\ Len(SubSeq(t, p + 1, p + i)) = (p + i) - p
        /\ \A j \in 1 .. (p + i) - p : SubSeq(t, p + 1, p + i)[j] = t[p + j]
    BY Zenon, <1>2, Pieces
  <2>3. /\ SubSeq(n, 1, i) \in Seq(S) /\ Len(SubSeq(n, 1, i)) = i
        /\ \A j \in 1 .. i : SubSeq(n, 1, i)[j] = n[j]
    BY <2>1
  <2>4. \A j \in 1 .. i : SubSeq(n, 1, i)[j] = SubSeq(t, p + 1, p + i)[j]
    BY <1>1, <1>2, <2>2, <2>3
  <2>5. Len(SubSeq(t, p + 1, p + i)) = i
    BY <1>2, <2>2
  <2> QED BY Zenon, <2>2, <2>3, <2>4, <2>5, SeqEqual
<1>4. SubSeq(n, i + 1, Len(n)) = SubSeq(t, p + i + 1, k)
  <2>1. /\ SubSeq(n, i + 1, Len(n)) \in Seq(S)
        /\ Len(SubSeq(n, i + 1, Len(n))) = Len(n) - i
        /\ \A j \in 1 .. Len(n) - i : SubSeq(n, i + 1, Len(n))[j] = n[i + j]
    BY ZenonT(30), <1>2, Pieces
  <2>2. /\ SubSeq(t, p + i + 1, k) \in Seq(S)
        /\ Len(SubSeq(t, p + i + 1, k)) = k - (p + i)
        /\ \A j \in 1 .. k - (p + i) : SubSeq(t, p + i + 1, k)[j] = t[p + i + j]
    BY Zenon, <1>2, Pieces
  <2>3. \A j \in 1 .. Len(n) - i :
          SubSeq(n, i + 1, Len(n))[j] = SubSeq(t, p + i + 1, k)[j]
    <3> SUFFICES ASSUME NEW j \in 1 .. Len(n) - i
                 PROVE  SubSeq(n, i + 1, Len(n))[j] = SubSeq(t, p + i + 1, k)[j]
      BY Zenon
    <3>1. i + j \in 1 .. k - p /\ j \in 1 .. k - (p + i) /\ p + (i + j) = p + i + j
      BY <1>1, <1>2
    <3> QED BY Zenon, <1>1, <2>1, <2>2, <3>1
  <2>4. Len(SubSeq(n, i + 1, Len(n))) = Len(SubSeq(t, p + i + 1, k))
    BY <1>1, <1>2, <2>1, <2>2
  <2> QED BY Zenon, <2>1, <2>2, <2>3, <2>4, SeqEqual
<1> QED
  BY <1>2, <1>3, <1>4

\* A byte more is written.
LEMMA WriteExtends ==
  ASSUME NEW S, NEW t \in Seq(S), NEW p \in 0 .. Len(t), NEW k \in p .. Len(t),
         k < Len(t)
  PROVE  Append(SubSeq(t, p + 1, k), t[k + 1]) = SubSeq(t, p + 1, k + 1)
<1>1. k + 1 \in p .. Len(t) /\ t[k + 1] \in S
  BY ElementOfSeq
<1>2. /\ SubSeq(t, p + 1, k) \in Seq(S) /\ Len(SubSeq(t, p + 1, k)) = k - p
      /\ \A i \in 1 .. k - p : SubSeq(t, p + 1, k)[i] = t[p + i]
  BY Zenon, Pieces
<1>3. /\ SubSeq(t, p + 1, k + 1) \in Seq(S)
      /\ Len(SubSeq(t, p + 1, k + 1)) = (k + 1) - p
      /\ \A i \in 1 .. (k + 1) - p : SubSeq(t, p + 1, k + 1)[i] = t[p + i]
  BY Zenon, <1>1, Pieces
<1> DEFINE m == SubSeq(t, p + 1, k)
           n == SubSeq(t, p + 1, k + 1)
<1> HIDE DEF m, n
<1>4. /\ Append(m, t[k + 1]) \in Seq(S) /\ Len(Append(m, t[k + 1])) = (k - p) + 1
      /\ \A i \in 1 .. k - p : Append(m, t[k + 1])[i] = m[i]
      /\ Append(m, t[k + 1])[(k - p) + 1] = t[k + 1]
  <2>1. m \in Seq(S) /\ Len(m) = k - p
    BY Zenon, <1>2 DEF m
  <2> QED BY <1>1, <2>1, AppendProperties
<1>5. \A i \in 1 .. (k - p) + 1 : Append(m, t[k + 1])[i] = n[i]
  <2> SUFFICES ASSUME NEW i \in 1 .. (k - p) + 1
               PROVE  Append(m, t[k + 1])[i] = n[i]
    BY Zenon
  <2>1. n[i] = t[p + i]
    BY <1>3 DEF n
  <2>2. CASE i <= k - p
    BY <1>2, <1>4, <2>1, <2>2 DEF m
  <2>3. CASE i = (k - p) + 1
    <3>1. p + i = k + 1
      BY <2>3
    <3> QED BY Zenon, <1>4, <2>1, <2>3, <3>1
  <2>4. i <= k - p \/ i = (k - p) + 1
    OBVIOUS
  <2> QED BY Zenon, <2>2, <2>3, <2>4
<1>6. n \in Seq(S) /\ Len(n) = (k - p) + 1
  BY <1>3 DEF n
<1>7. Append(m, t[k + 1]) = n
  BY Zenon, <1>4, <1>5, <1>6, SeqEqual
<1> QED
  BY Zenon, <1>7 DEF m, n

-----------------------------------------------------------------------------
\* The length of a packet takes LenBytes bytes and can be read back.
LEMMA PacketType ==
  ASSUME NEW p \in Packets
  PROVE  /\ p \in Seq(Symbol) /\ Len(p) \in Nat \ {0}
         /\ LenBytes \in Nat \ {0}
         /\ htonl(Len(p)) \in Seq(Symbol) /\ Len(htonl(Len(p))) = LenBytes
         /\ ntohl(htonl(Len(p))) = Len(p)
<1>1. LenBytes \in Nat \ {0}
  BY Zenon, SizesAssumption
<1>2. p \in Seq(Byte) /\ p # <<>> /\ ntohl(htonl(Len(p))) = Len(p)
  BY Zenon, PacketsAssumption
<1>3. p \in Seq(Symbol) /\ Len(p) \in Nat \ {0}
  BY <1>2, EmptySeq, SeqMonotonic DEF Symbol
<1> DEFINE h == htonl(Len(p))
<1>4. h \in [1 .. LenBytes -> Symbol]
  <2>1. h = [i \in 1 .. LenBytes |-> h[i]]
    BY Zenon DEF htonl
  <2>2. \A i \in 1 .. LenBytes : h[i] \in Symbol
    BY DEF Symbol
  <2> HIDE DEF h
  <2> QED BY Zenon, <2>1, <2>2
<1> HIDE DEF h
<1>5. h \in Seq(Symbol)
  BY Zenon, <1>1, <1>4, SeqDef
<1>6. DOMAIN h = 1 .. Len(h) /\ Len(h) \in Nat
  BY Zenon, <1>5, LenProperties
<1>7. Len(h) = LenBytes
  BY <1>1, <1>4, <1>6
<1> QED
  BY Zenon, <1>1, <1>2, <1>3, <1>5, <1>7 DEF h

\* The message of a packet: the bytes of the length, then the data.
LEMMA MessageType ==
  ASSUME pkt \in Packets
  PROVE  /\ Len(pkt) \in Nat \ {0} /\ pkt \in Seq(Symbol)
         /\ LenBytes \in Nat \ {0} /\ Total \in Nat
         /\ htonl(Len(pkt)) \in Seq(Symbol) /\ Len(htonl(Len(pkt))) = LenBytes
         /\ Message \in Seq(Symbol) /\ Len(Message) = Total
         /\ \A i \in 1 .. Total : Message[i] =
              IF i <= LenBytes THEN htonl(Len(pkt))[i] ELSE pkt[i - LenBytes]
         /\ ntohl(htonl(Len(pkt))) = Len(pkt)
<1> DEFINE h == htonl(Len(pkt))
<1>1. /\ Len(pkt) \in Nat \ {0} /\ pkt \in Seq(Symbol) /\ LenBytes \in Nat \ {0}
      /\ h \in Seq(Symbol) /\ Len(h) = LenBytes /\ ntohl(h) = Len(pkt)
  BY Zenon, PacketType
<1> HIDE DEF h
<1>2. /\ h \o pkt \in Seq(Symbol) /\ Len(h \o pkt) = Len(h) + Len(pkt)
      /\ \A i \in 1 .. Len(h) + Len(pkt) : (h \o pkt)[i] =
           IF i <= Len(h) THEN h[i] ELSE pkt[i - Len(h)]
  BY Zenon, <1>1, ConcatProperties
<1>3. Message = h \o pkt
  BY Zenon DEF Message, h
<1>4. Len(Message) = Total /\ Total = Len(h) + Len(pkt) /\ Total \in Nat
  BY <1>1, <1>2, <1>3 DEF Total
<1> QED
  BY Zenon, <1>1, <1>2, <1>3, <1>4 DEF h

\* The first bytes of the message are the length.
LEMMA LengthFirst ==
  ASSUME pkt \in Packets
  PROVE  SubSeq(Message, 1, LenBytes) = htonl(Len(pkt))
<1> DEFINE h == htonl(Len(pkt))
           m == SubSeq(Message, 1, LenBytes)
<1>1. /\ LenBytes \in Nat \ {0} /\ Len(pkt) \in Nat \ {0}
      /\ Total = LenBytes + Len(pkt)
      /\ Message \in Seq(Symbol) /\ Len(Message) = Total
      /\ h \in Seq(Symbol) /\ Len(h) = LenBytes
      /\ \A i \in 1 .. Total : Message[i] =
           IF i <= LenBytes THEN h[i] ELSE pkt[i - LenBytes]
  BY Zenon, MessageType DEF Total
<1>2. 0 \in 0 .. Len(Message) /\ LenBytes \in 0 .. Len(Message)
  BY <1>1
<1>3. /\ SubSeq(Message, 0 + 1, LenBytes) \in Seq(Symbol)
      /\ Len(SubSeq(Message, 0 + 1, LenBytes)) = LenBytes - 0
      /\ \A i \in 1 .. LenBytes - 0 :
           SubSeq(Message, 0 + 1, LenBytes)[i] = Message[0 + i]
  BY <1>1, <1>2, Pieces
<1>4. /\ m \in Seq(Symbol) /\ Len(m) = LenBytes
      /\ \A i \in 1 .. LenBytes : m[i] = Message[i]
  BY <1>1, <1>3
<1> HIDE DEF h, m
<1>5. \A i \in 1 .. LenBytes : m[i] = h[i]
  <2>1. \A i \in 1 .. LenBytes : i \in 1 .. Total /\ i <= LenBytes
    BY <1>1
  <2> QED BY Zenon, <1>1, <1>4, <2>1
<1>6. m = h
  BY Zenon, <1>1, <1>4, <1>5, SeqEqual
<1> QED
  BY Zenon, <1>6 DEF m, h

\* The rest is the data.
LEMMA DataBehind ==
  ASSUME pkt \in Packets, NEW j \in 0 .. Len(pkt), NEW i \in 0 .. j
  PROVE  SubSeq(Message, LenBytes + i + 1, LenBytes + j) = SubSeq(pkt, i + 1, j)
<1> DEFINE m == SubSeq(Message, LenBytes + i + 1, LenBytes + j)
           d == SubSeq(pkt, i + 1, j)
<1>1. /\ LenBytes \in Nat \ {0} /\ Len(pkt) \in Nat \ {0} /\ pkt \in Seq(Symbol)
      /\ Total = LenBytes + Len(pkt)
      /\ Message \in Seq(Symbol) /\ Len(Message) = Total
      /\ \A n \in 1 .. Total : Message[n] =
           IF n <= LenBytes THEN htonl(Len(pkt))[n] ELSE pkt[n - LenBytes]
  BY Zenon, MessageType DEF Total
<1>2. /\ LenBytes + i \in 0 .. Len(Message)
      /\ LenBytes + j \in LenBytes + i .. Len(Message)
      /\ i \in 0 .. Len(pkt) /\ j \in i .. Len(pkt)
  BY <1>1
<1>3. /\ m \in Seq(Symbol) /\ Len(m) = (LenBytes + j) - (LenBytes + i)
      /\ \A n \in 1 .. (LenBytes + j) - (LenBytes + i) :
           m[n] = Message[LenBytes + i + n]
  BY <1>1, <1>2, Pieces
<1>4. /\ d \in Seq(Symbol) /\ Len(d) = j - i
      /\ \A n \in 1 .. j - i : d[n] = pkt[i + n]
  BY SMTT(30), <1>1, <1>2, Pieces
<1> HIDE DEF m, d
<1>5. \A n \in 1 .. j - i : m[n] = d[n]
  <2> SUFFICES ASSUME NEW n \in 1 .. j - i PROVE m[n] = d[n]
    BY Zenon
  <2>1. /\ n \in 1 .. (LenBytes + j) - (LenBytes + i)
        /\ LenBytes + i + n \in 1 .. Total /\ ~(LenBytes + i + n <= LenBytes)
        /\ LenBytes + i + n - LenBytes = i + n
    BY <1>1
  <2>2. m[n] = pkt[LenBytes + i + n - LenBytes]
    BY <1>1, <1>3, <2>1
  <2> QED BY Zenon, <1>4, <2>1, <2>2
<1>6. Len(m) = j - i
  BY <1>1, <1>3
<1>7. m = d
  BY Zenon, <1>3, <1>4, <1>5, <1>6, SeqEqual
<1> QED
  BY Zenon, <1>7 DEF m, d

\* What writev has before it is the message from r on.
LEMMA BytesToWrite ==
  ASSUME pkt \in Packets, WriterInv
  PROVE  /\ Len(Bytes(iov)) = Total - r
         /\ \A i \in 1 .. Total - r : Bytes(iov)[i] = Message[r + i]
<1> DEFINE h == htonl(Len(pkt))
<1>1. /\ LenBytes \in Nat \ {0} /\ Len(pkt) \in Nat \ {0} /\ pkt \in Seq(Symbol)
      /\ Total = LenBytes + Len(pkt) /\ Len(Message) = Total
      /\ h \in Seq(Symbol) /\ Len(h) = LenBytes
      /\ \A n \in 1 .. Total : Message[n] =
           IF n <= LenBytes THEN h[n] ELSE pkt[n - LenBytes]
  BY Zenon, MessageType DEF Total
<1>2. SubSeq(pkt, 1, Len(pkt)) = pkt /\ SubSeq(h, 1, LenBytes) = h
  BY Zenon, <1>1, SubSeqFull
<1>3. CASE r = 0
  <2>1. iov = <<[base |-> h, len |-> LenBytes], [base |-> pkt, len |-> Len(pkt)]>>
    BY Zenon, <1>3 DEF WriterInv
  <2> HIDE DEF h
  <2>2. Bytes(iov) = SubSeq(h, 1, LenBytes) \o SubSeq(pkt, 1, Len(pkt))
    <3>1. Len(iov) = 2 /\ iov # <<>>
      BY Zenon, <2>1
    <3>2. /\ iov[1].base = h /\ iov[1].len = LenBytes
          /\ iov[2].base = pkt /\ iov[2].len = Len(pkt)
      BY Zenon, <2>1
    <3>3. Len(iov) # 1
      BY <3>1
    <3> QED BY Zenon, <3>1, <3>2, <3>3 DEF Bytes
  <2>3. Bytes(iov) = Message
    BY Zenon, <1>2, <2>2 DEF Message, h
  <2>4. Total - r = Total /\ \A i \in 1 .. Total : r + i = i
    BY <1>1, <1>3
  <2> QED BY Zenon, <1>1, <2>3, <2>4
<1>4. CASE r = LenBytes
  <2>1. iov = <<[base |-> pkt, len |-> Len(pkt)]>>
    BY Zenon, <1>4 DEF WriterInv
  <2>2. Bytes(iov) = SubSeq(pkt, 1, Len(pkt)) \o <<>>
    BY Zenon, <2>1 DEF Bytes
  <2>3. Bytes(iov) = pkt
    BY Zenon, <1>1, <1>2, <2>2, ConcatEmptySeq
  <2>4. \A i \in 1 .. Len(pkt) : Message[LenBytes + i] = pkt[i]
    BY <1>1
  <2> QED BY <1>1, <1>4, <2>3, <2>4
<1> QED
  BY Zenon, <1>3, <1>4 DEF WriterInv

-----------------------------------------------------------------------------
\* The sender's steps.
LEMMA SendKeeps ==
  ASSUME StreamInv, NEW p \in Packets, send_data_pkt(p)
  PROVE  StreamInv'
<1> SUFFICES ASSUME rst # "exit" PROVE StreamInv'
  BY Zenon DEF StreamInv, send_data_pkt, receivervars
<1>1. /\ Taken /\ rst \in {"idle", "length"} /\ back = <<>> /\ net = <<>>
      /\ rst = "length" => left = LenBytes /\ got = <<>>
  BY Zenon DEF StreamInv, send_data_pkt, Taken, UnderWay
<1>2. /\ sst' = "writev" /\ r' = 0 /\ moved' = 0 /\ pkt' = p /\ taken' = FALSE
      /\ net' = net /\ back' = back /\ rst' = rst /\ left' = left /\ got' = got
  BY Zenon DEF send_data_pkt, receivervars
<1>3. Message' \in Seq(Symbol) /\ Total' \in Nat /\ LenBytes \in Nat \ {0}
      /\ Len(pkt') \in Nat /\ Total' = LenBytes + Len(pkt')
  <2>1. Message' = htonl(Len(p)) \o p /\ Total' = LenBytes + Len(p)
    BY Zenon, <1>2 DEF Message, Total
  <2> QED BY <1>2, <2>1, PacketType, ConcatProperties
<1>4. SubSeq(Message', 1, 0) = <<>>
  BY SubSeqEmpty
<1>5. WriterInv'
  BY <1>2, <1>3 DEF WriterInv, send_data_pkt
<1>6. Consumed' = 0
  BY <1>1, <1>2, <1>3 DEF Consumed
<1>7. UnderWay'
  <2>1. Consumed' + 1 = 1 /\ 0 \in Consumed' .. Total' /\ LenBytes - LenBytes = 0
    BY <1>3, <1>6
  <2>2. /\ rst' = "length" => left' \in 1 .. LenBytes
                              /\ got' = SubSeq(Message', 1, LenBytes - left')
    <3> SUFFICES ASSUME rst' = "length"
                 PROVE  /\ left' \in 1 .. LenBytes
                        /\ got' = SubSeq(Message', 1, LenBytes - left')
      BY Zenon
    <3>1. left' = LenBytes /\ got' = <<>>
      BY Zenon, <1>1, <1>2
    <3>2. LenBytes - left' = 0 /\ left' \in 1 .. LenBytes
      BY <1>3, <3>1
    <3> QED BY Zenon, <1>4, <3>1, <3>2
  <2>3. net' = SubSeq(Message', Consumed' + 1, 0) /\ 0 = r' + moved'
    BY <1>1, <1>2, <1>4, <2>1
  <2>4. HandedOver(0)'
    BY Zenon, <1>2, <2>3 DEF HandedOver
  <2> QED BY Zenon, <1>1, <1>2, <2>1, <2>2, <2>3, <2>4 DEF UnderWay, Reading
<1> QED
  BY Zenon, <1>1, <1>2, <1>5, <1>7 DEF StreamInv

LEMMA TransferKeeps ==
  ASSUME StreamInv, Transfer
  PROVE  StreamInv'
<1>1. /\ rst # "exit" /\ sst = "writev" /\ pkt \in Packets /\ WriterInv
      /\ moved < Len(Bytes(iov)) /\ moved' = moved + 1
      /\ net' = Append(net, Bytes(iov)[moved + 1])
      /\ sst' = sst /\ iov' = iov /\ r' = r /\ pkt' = pkt /\ back' = back
      /\ rst' = rst /\ want' = want /\ left' = left /\ got' = got /\ taken' = taken
  BY Zenon DEF StreamInv, Transfer, receivervars
<1>2. /\ LenBytes \in Nat \ {0} /\ Len(pkt) \in Nat \ {0}
      /\ Total \in Nat /\ Total = LenBytes + Len(pkt)
      /\ Message \in Seq(Symbol) /\ Len(Message) = Total
  BY Zenon, <1>1, MessageType DEF Total
<1>3. /\ Len(Bytes(iov)) = Total - r
      /\ \A i \in 1 .. Total - r : Bytes(iov)[i] = Message[r + i]
  BY Zenon, <1>1, BytesToWrite
<1>4. r \in Nat /\ moved \in Nat /\ r + moved < Total
      /\ moved + 1 \in 1 .. Total - r /\ r + (moved + 1) = r + moved + 1
  <2>1. r \in Nat /\ moved \in 0 .. Total - r
    BY <1>1, <1>2 DEF WriterInv
  <2>2. moved < Total - r
    BY Zenon, <1>1, <1>3
  <2> HIDE <1>1, <1>3
  <2> QED BY <1>2, <2>1, <2>2
<1>5. Bytes(iov)[moved + 1] = Message[r + moved + 1]
  BY <1>3, <1>4
<1>6. Message' = Message /\ Total' = Total /\ Consumed' = Consumed
  BY Zenon, <1>1 DEF Message, Total, Consumed
<1>7. ~taken /\ UnderWay
  BY <1>1, <1>4 DEF StreamInv, Taken
<1>8. Consumed \in 0 .. Total
  BY <1>2, <1>7 DEF UnderWay, Consumed, Reading
<1>9. /\ net = SubSeq(Message, Consumed + 1, r + moved)
      /\ r + moved \in Consumed .. Total
  BY Zenon, <1>1, <1>7 DEF UnderWay, HandedOver
<1>10. net' = SubSeq(Message, Consumed + 1, r + moved + 1)
  BY Zenon, <1>1, <1>2, <1>4, <1>5, <1>8, <1>9, WriteExtends
<1>11. r + moved + 1 \in Consumed .. Total /\ r' + moved' = r + moved + 1
  BY <1>1, <1>2, <1>4, <1>8, <1>9
<1>12. UnderWay'
  <2>1. PICK k : k = r + moved + 1
    BY Zenon
  <2>2. HandedOver(k)'
    BY Zenon, <1>1, <1>11, <2>1 DEF HandedOver
  <2> QED BY Zenon, <1>1, <1>6, <1>7, <1>10, <1>11, <2>1, <2>2 DEF UnderWay
<1>13. WriterInv'
  BY <1>1, <1>2, <1>4, <1>6 DEF WriterInv
<1> QED
  BY Zenon, <1>1, <1>7, <1>12, <1>13 DEF StreamInv

\* writev comes back, with everything written or with the length only.
LEMMA WritevKeeps ==
  ASSUME StreamInv, ShortWrites = "between", WritevReturns \/ ShortWrite
  PROVE  StreamInv'
<1> SUFFICES ASSUME rst # "exit" PROVE StreamInv'
  BY Zenon DEF StreamInv, WritevReturns, ShortWrite, receivervars
<1>1. /\ sst = "writev" /\ pkt \in Packets /\ WriterInv /\ net' = net
      /\ pkt' = pkt /\ back' = back /\ taken' = taken
      /\ rst' = rst /\ want' = want /\ left' = left /\ got' = got /\ res' = res
  BY Zenon DEF StreamInv, WritevReturns, ShortWrite, receivervars
<1>2. /\ LenBytes \in Nat \ {0} /\ Len(pkt) \in Nat \ {0}
      /\ Total = LenBytes + Len(pkt) /\ Len(Bytes(iov)) = Total - r
  BY Zenon, <1>1, MessageType, BytesToWrite DEF Total
<1>3. Message' = Message /\ Total' = Total /\ Consumed' = Consumed
  BY Zenon, <1>1 DEF Message, Total, Consumed
<1>4. CASE WritevReturns
  <2>1. sst' = "read" /\ r + moved = Total
    BY <1>1, <1>2, <1>4 DEF WritevReturns, WriterInv
  <2>2. taken => Taken'
    BY Zenon, <1>1, <2>1 DEF StreamInv, Taken, Delivered
  <2>3. \A k : HandedOver(k) => HandedOver(k)'
    BY Zenon, <1>1, <1>3, <2>1 DEF HandedOver
  <2>4. ~taken => UnderWay'
    BY Zenon, <1>1, <1>3, <2>1, <2>3 DEF StreamInv, UnderWay
  <2>5. moved' = Len(Bytes(iov'))
    BY Zenon, <1>4 DEF WritevReturns
  <2> QED BY Zenon, <1>1, <2>1, <2>2, <2>4, <2>5 DEF StreamInv
<1>5. CASE ShortWrite
  <2>1. /\ sst' = sst /\ moved \in 1 .. Len(Bytes(iov)) - 1 /\ moved = iov[1].len
        /\ r' = r + moved /\ moved' = 0 /\ iov' = forward(iov, moved)
    BY Zenon, <1>5 DEF ShortWrite
  <2>2. r = 0
    <3> SUFFICES ASSUME r = LenBytes PROVE FALSE
      BY Zenon, <1>1 DEF WriterInv
    <3>1. iov = <<[base |-> pkt, len |-> Len(pkt)]>>
      BY Zenon, <1>1 DEF WriterInv
    <3>2. iov[1].len = Len(pkt)
      BY Zenon, <3>1
    <3> QED BY <1>2, <2>1, <3>2
  <2>3. iov = <<[base |-> htonl(Len(pkt)), len |-> LenBytes],
                [base |-> pkt, len |-> Len(pkt)]>>
    BY Zenon, <1>1, <2>2 DEF WriterInv
  <2>4. /\ iov[1].len = LenBytes /\ iov[2] = [base |-> pkt, len |-> Len(pkt)]
        /\ moved = LenBytes /\ r' = LenBytes /\ r' + moved' = r + moved
    BY <1>2, <2>1, <2>2, <2>3
  <2>5. iov' = <<[base |-> pkt, len |-> Len(pkt)]>>
    <3>1. ~(moved < iov[1].len) /\ Len(pkt) - (moved - iov[1].len) = Len(pkt)
      BY <1>2, <2>4
    <3>2. iov' = <<[iov[2] EXCEPT !.len = @ - (moved - iov[1].len)]>>
      BY Zenon, <2>1, <3>1 DEF forward
    <3>3. [iov[2] EXCEPT !.len = @ - (moved - iov[1].len)]
            = [base |-> pkt, len |-> Len(pkt)]
      BY <2>4, <3>1
    <3> QED BY Zenon, <3>2, <3>3
  <2>6. WriterInv'
    BY <1>1, <1>2, <1>3, <2>1, <2>4, <2>5 DEF WriterInv
  <2>7. taken => Taken'
    BY Zenon, <1>1, <1>3, <2>1, <2>4 DEF StreamInv, Taken, Delivered
  <2>8. \A k : HandedOver(k) => HandedOver(k)'
    BY Zenon, <1>1, <2>1, <2>4 DEF HandedOver
  <2>9. ~taken => UnderWay'
    BY Zenon, <1>1, <1>3, <2>1, <2>8 DEF StreamInv, UnderWay
  <2> QED BY Zenon, <1>1, <2>1, <2>6, <2>7, <2>9 DEF StreamInv
<1> QED
  BY Zenon, <1>4, <1>5

\* The answer is read, or the sender is gone.
LEMMA SenderEndKeeps ==
  ASSUME StreamInv,
         WritevFails \/ ReadResponse \/ ReadResponseFails
           \/ ReadResponseInterrupted \/ SenderDies
  PROVE  StreamInv'
<1> SUFFICES ASSUME rst # "exit" PROVE StreamInv'
  BY Zenon DEF StreamInv, WritevFails, ReadResponse, ReadResponseFails,
     ReadResponseInterrupted, SenderDies,
     receivervars
<1>1. /\ net' = net /\ pkt' = pkt /\ taken' = taken /\ r' = r /\ moved' = moved
      /\ rst' = rst /\ want' = want /\ left' = left /\ got' = got /\ res' = res
  BY Zenon DEF WritevFails, ReadResponse, ReadResponseFails, ReadResponseInterrupted,
     SenderDies, receivervars
<1>2. Message' = Message /\ Total' = Total /\ Consumed' = Consumed
  BY Zenon, <1>1 DEF Message, Total, Consumed
<1>3. CASE ReadResponse
  <2>1. sst = "read" /\ back # <<>> /\ sst' = "idle" /\ back' = Tail(back)
    BY Zenon, <1>3 DEF ReadResponse
  <2>2. taken /\ rst # "answer"
    BY Zenon, <2>1 DEF StreamInv, UnderWay, Taken
  <2>3. back' \in Seq(Responses) /\ Len(back') = 0 /\ back' = <<>>
    <3>1. back \in Seq(Responses) /\ Len(back) <= 1
      BY Zenon DEF StreamInv
    <3>2. Len(back) \in Nat \ {0}
      BY Zenon, <2>1, <3>1, EmptySeq
    <3>3. back' \in Seq(Responses) /\ Len(back') = Len(back) - 1
      BY Zenon, <2>1, <3>1, HeadTailProperties
    <3>4. Len(back') = 0
      BY <3>1, <3>2, <3>3
    <3> QED BY Zenon, <3>3, <3>4, EmptySeq
  <2> QED BY <1>1, <2>1, <2>2, <2>3 DEF StreamInv, Taken
<1>4. CASE WritevFails \/ ReadResponseFails \/ ReadResponseInterrupted \/ SenderDies
  <2>1. sst' = "exit" /\ back' = back
    BY Zenon, <1>4 DEF WritevFails, ReadResponseFails, ReadResponseInterrupted, SenderDies
  <2>2. taken => Taken'
    BY Zenon, <1>1, <2>1 DEF StreamInv, Taken, Delivered
  <2>3. \A k \in Nat : ~taken /\ HandedOver(k) => HandedOver(k)'
    <3> SUFFICES ASSUME NEW k \in Nat, ~taken, HandedOver(k) PROVE HandedOver(k)'
      BY Zenon
    <3>1. iov' = iov /\ (Complete' <=> moved = Len(Bytes(iov)))
      BY Zenon, <1>1, <1>4, <2>1 DEF Complete, WritevFails, ReadResponseFails,
         ReadResponseInterrupted, SenderDies
    <3>2. CASE sst = "writev"
      <4>1. Len(Bytes(iov)) = Total - r /\ WriterInv /\ Total \in Nat /\ LenBytes \in Nat
        BY Zenon, <3>2, BytesToWrite, MessageType DEF StreamInv
      <4>2. k = r + moved /\ moved \in 0 .. Total - r /\ r \in Nat
        BY <3>2, <4>1 DEF HandedOver, WriterInv
      <4> QED BY SMTT(30), <1>2, <2>1, <3>1, <4>1, <4>2 DEF HandedOver
    <3>3. CASE sst = "read"
      BY Zenon, <2>1, <3>1, <3>3 DEF HandedOver, StreamInv
    <3>4. CASE sst = "exit"
      BY Zenon, <1>1, <1>2, <2>1, <3>1, <3>4 DEF HandedOver, Complete
    <3> QED BY Zenon, <3>2, <3>3, <3>4 DEF StreamInv, UnderWay
  <2>4. ~taken => UnderWay'
    <3> SUFFICES ASSUME ~taken PROVE UnderWay'
      BY Zenon
    <3>1. UnderWay /\ pkt \in Packets /\ LenBytes \in Nat
      BY Zenon, SizesAssumption DEF StreamInv, UnderWay
    <3>2. Consumed \in Nat
      BY <3>1, MessageType DEF UnderWay, Consumed, Total, Reading
    <3>3. \A k \in Consumed .. Total : k \in Nat
      BY <3>1, <3>2, MessageType
    <3> QED BY Zenon, <1>1, <1>2, <2>1, <2>3, <3>1, <3>3 DEF UnderWay
  <2> QED BY Zenon, <1>1, <2>1, <2>2, <2>4 DEF StreamInv
<1> QED
  BY Zenon, <1>3, <1>4

-----------------------------------------------------------------------------
\* The receiver's steps.

\* A read goes on where the receiver stopped.
LEMMA ReadGoesOn ==
  ASSUME StreamInv, rst \in Reading, NEW n \in Int, n <= left, NEW i, Takes(i, n)
  PROVE  /\ ~taken /\ UnderWay /\ pkt \in Packets
         /\ i \in 1 .. left
         /\ Consumed \in 0 .. Total
         /\ SubSeq(net, 1, i) = SubSeq(Message, Consumed + 1, Consumed + i)
         /\ \E k \in Consumed + i .. Total :
              /\ net' = SubSeq(Message, Consumed + i + 1, k)
              /\ HandedOver(k)
<1>1. i \in 1 .. SmallerOf(n, Len(net)) /\ net' = SubSeq(net, i + 1, Len(net))
  BY Zenon DEF Takes
<1>2. ~taken /\ UnderWay /\ pkt \in Packets
  <2> SUFFICES ASSUME taken PROVE FALSE
    BY Zenon DEF StreamInv, UnderWay, Reading
  <2>1. net = <<>>
    BY Zenon DEF StreamInv, Taken, Reading
  <2>2. Len(net) = 0
    BY Zenon, <2>1
  <2> QED BY <1>1, <2>2 DEF SmallerOf
<1>3. /\ LenBytes \in Nat \ {0} /\ Len(pkt) \in Nat \ {0}
      /\ Total \in Nat /\ Total = LenBytes + Len(pkt)
      /\ Message \in Seq(Symbol) /\ Len(Message) = Total
  BY Zenon, <1>2, MessageType DEF Total
<1>4. Consumed \in 0 .. Total /\ left \in Nat
  BY SMTT(30), <1>2, <1>3 DEF UnderWay, Consumed, Reading
<1>5. PICK k \in Consumed .. Total :
        /\ net = SubSeq(Message, Consumed + 1, k)
        /\ HandedOver(k)
  BY Zenon, <1>2 DEF UnderWay
<1>6. /\ net \in Seq(Symbol) /\ Len(net) = k - Consumed
      /\ \A j \in 1 .. k - Consumed : net[j] = Message[Consumed + j]
  <2>1. Consumed \in 0 .. Len(Message) /\ k \in Consumed .. Len(Message)
    BY Zenon, <1>3, <1>4, <1>5
  <2>2. /\ SubSeq(Message, Consumed + 1, k) \in Seq(Symbol)
        /\ Len(SubSeq(Message, Consumed + 1, k)) = k - Consumed
        /\ \A j \in 1 .. k - Consumed :
             SubSeq(Message, Consumed + 1, k)[j] = Message[Consumed + j]
    BY Zenon, <1>3, <2>1, Pieces
  <2> QED BY Zenon, <1>5, <2>2
<1>7. i \in 1 .. Len(net) /\ i \in 1 .. left
  BY SMTT(30), <1>1, <1>4, <1>5, <1>6 DEF SmallerOf
<1>8. /\ Consumed + i \in Consumed .. k
      /\ SubSeq(net, 1, i) = SubSeq(Message, Consumed + 1, Consumed + i)
      /\ SubSeq(net, i + 1, Len(net)) = SubSeq(Message, Consumed + i + 1, k)
  <2>1. Consumed \in 0 .. Len(Message) /\ k \in Consumed .. Len(Message)
    BY Zenon, <1>3, <1>4, <1>5
  <2>2. ASSUME NEW m \in Seq(Symbol), Len(m) = k - Consumed,
               \A j \in 1 .. k - Consumed : m[j] = Message[Consumed + j],
               NEW x \in 1 .. Len(m)
        PROVE  /\ Consumed + x \in Consumed .. k
               /\ SubSeq(m, 1, x) = SubSeq(Message, Consumed + 1, Consumed + x)
               /\ SubSeq(m, x + 1, Len(m)) = SubSeq(Message, Consumed + x + 1, k)
    BY SMTT(30), <1>3, <2>1, <2>2, ReadSplits
  <2> QED BY ZenonT(20), <1>6, <1>7, <2>2
<1>9. k \in Consumed + i .. Total
  BY <1>4, <1>5, <1>7, <1>8
<1> QED
  BY Zenon, <1>1, <1>2, <1>4, <1>5, <1>7, <1>8, <1>9

LEMMA ReadLengthKeeps ==
  ASSUME StreamInv, NEW i, ReadLength(i)
  PROVE  StreamInv' /\ rst' \in Reading /\ taken' = taken
<1>1. /\ rst = "length" /\ Takes(i, left) /\ rst # "exit" /\ rst \in Reading
      /\ sst' = sst /\ iov' = iov /\ r' = r /\ moved' = moved /\ pkt' = pkt
      /\ back' = back /\ want' = want
  BY Zenon DEF ReadLength, sendervars, Reading
<1>2. left \in Int /\ left <= left
  BY <1>1, SizesAssumption DEF StreamInv, Taken, UnderWay
<1>3. /\ ~taken /\ UnderWay /\ pkt \in Packets /\ i \in 1 .. left
      /\ Consumed \in 0 .. Total
      /\ SubSeq(net, 1, i) = SubSeq(Message, Consumed + 1, Consumed + i)
  BY Zenon, <1>1, <1>2, ReadGoesOn
<1>4. PICK k \in Consumed + i .. Total :
        /\ net' = SubSeq(Message, Consumed + i + 1, k)
        /\ HandedOver(k)
  BY Zenon, <1>1, <1>2, ReadGoesOn
<1>5. /\ LenBytes \in Nat \ {0} /\ Len(pkt) \in Nat \ {0}
      /\ Total \in Nat /\ Total = LenBytes + Len(pkt)
      /\ Message \in Seq(Symbol) /\ Len(Message) = Total
      /\ ntohl(htonl(Len(pkt))) = Len(pkt)
  BY Zenon, <1>3, MessageType DEF Total
<1>6. /\ Message' = Message /\ Total' = Total /\ (WriterInv => WriterInv')
      /\ HandedOver(k)'
  BY Zenon, <1>1, <1>4 DEF Message, Total, WriterInv, HandedOver, Complete
<1>7. /\ Consumed = LenBytes - left /\ left \in 1 .. LenBytes
      /\ got = SubSeq(Message, 1, Consumed)
  BY Zenon, <1>1, <1>3 DEF UnderWay, Consumed
<1>8. got \o SubSeq(net, 1, i) = SubSeq(Message, 1, Consumed + i)
  <2>1. /\ 1 \in 1 .. Len(Message) + 1 /\ Consumed \in 1 - 1 .. Len(Message)
        /\ Consumed + i \in Consumed .. Len(Message)
    BY <1>3, <1>5, <1>7
  <2> QED BY ZenonT(30), <1>3, <1>5, <1>7, <2>1, ConcatAdjacentSubSeq
<1>9. CASE i < left
  <2>1. /\ left' = left - i /\ rst' = rst /\ taken' = taken
        /\ got' = SubSeq(Message, 1, Consumed + i)
    BY Zenon, <1>8, <1>9 DEF ReadLength
  <2>2. /\ Consumed' = Consumed + i /\ left' \in 1 .. LenBytes
        /\ LenBytes - left' = Consumed + i
    BY <1>1, <1>3, <1>5, <1>7, <1>9, <2>1 DEF Consumed
  <2>3. UnderWay'
    BY Zenon, <1>1, <1>3, <1>4, <1>6, <2>1, <2>2 DEF UnderWay, Reading
  <2>4. StreamInv'
    BY Zenon, <1>1, <1>3, <1>6, <2>1, <2>3 DEF StreamInv
  <2> QED BY Zenon, <1>1, <2>1, <2>4
<1>10. CASE ~(i < left)
  <2>1. i = left /\ Consumed + i = LenBytes
    BY <1>3, <1>5, <1>7, <1>10
  <2>2. ntohl(got \o SubSeq(net, 1, i)) = Len(pkt)
    BY Zenon, <1>3, <1>5, <1>8, <2>1, LengthFirst
  <2>3. /\ left' = Len(pkt) /\ got' = <<>> /\ taken' = taken
        /\ rst' = IF Len(pkt) = want THEN "data" ELSE "discard"
    BY Zenon, <1>5, <1>10, <2>2 DEF ReadLength
  <2>4. Consumed' = Consumed + i /\ left' \in 1 .. Len(pkt) /\ Len(pkt) - left' = 0
    BY <1>5, <1>6, <2>1, <2>3 DEF Consumed
  <2>5. got' = SubSeq(pkt', 1, Len(pkt') - left')
    BY <1>1, <2>3, <2>4, SubSeqEmpty
  <2>6. UnderWay'
    BY Zenon, <1>1, <1>3, <1>4, <1>6, <2>3, <2>4, <2>5 DEF UnderWay, Reading
  <2>7. StreamInv'
    BY Zenon, <1>1, <1>3, <1>6, <2>3, <2>6 DEF StreamInv
  <2> QED BY Zenon, <2>3, <2>7 DEF Reading
<1> QED
  BY Zenon, <1>9, <1>10

\* The data is read or discarded to its end, and no byte more.
LEMMA ReadRestKeeps ==
  ASSUME StreamInv, NEW i, ReadData(i) \/ DiscardData(i)
  PROVE  StreamInv'
<1>1. /\ rst \in {"data", "discard"} /\ rst # "exit" /\ rst \in Reading
      /\ sst' = sst /\ iov' = iov /\ r' = r /\ moved' = moved /\ pkt' = pkt
      /\ back' = back /\ want' = want /\ left' = left - i
      /\ ReadData(i) => rst = "data"
      /\ DiscardData(i) => rst = "discard"
  BY Zenon DEF ReadData, DiscardData, sendervars, Reading
<1>2. UnderWay /\ left \in Nat \ {0} /\ DumpLen \in Nat
  <2>1. UnderWay /\ pkt \in Packets /\ left \in 1 .. Len(pkt)
    BY Zenon, <1>1 DEF StreamInv, Taken, UnderWay
  <2>2. Len(pkt) \in Nat
    BY Zenon, <2>1, MessageType
  <2> QED BY <2>1, <2>2, SizesAssumption
<1>3. PICK n \in Int : n <= left /\ Takes(i, n)
  BY <1>2 DEF ReadData, DiscardData, SmallerOf
<1>4. /\ ~taken /\ pkt \in Packets /\ i \in 1 .. left
      /\ Consumed \in 0 .. Total
      /\ SubSeq(net, 1, i) = SubSeq(Message, Consumed + 1, Consumed + i)
  BY Zenon, <1>1, <1>3, ReadGoesOn
<1>5. PICK k \in Consumed + i .. Total :
        /\ net' = SubSeq(Message, Consumed + i + 1, k)
        /\ HandedOver(k)
  BY Zenon, <1>1, <1>3, ReadGoesOn
<1>6. /\ LenBytes \in Nat \ {0} /\ Len(pkt) \in Nat \ {0} /\ pkt \in Seq(Symbol)
      /\ Total \in Nat /\ Total = LenBytes + Len(pkt)
  BY Zenon, <1>4, MessageType DEF Total
<1>7. /\ Message' = Message /\ Total' = Total /\ (WriterInv => WriterInv')
      /\ HandedOver(k)'
  BY Zenon, <1>1, <1>5 DEF Message, Total, WriterInv, HandedOver, Complete
<1> DEFINE m == Len(pkt) - left
<1>8. /\ Consumed = LenBytes + m /\ left \in 1 .. Len(pkt) /\ m \in Nat
      /\ m + i \in 0 .. Len(pkt) /\ m \in 0 .. m + i
      /\ sst # "idle" /\ back = <<>> /\ (rst = "data" <=> want = Len(pkt))
      /\ rst = "data" => got = SubSeq(pkt, 1, m)
  BY SMTT(30), <1>1, <1>2, <1>4, <1>6 DEF UnderWay, Consumed
<1>9. rst = "data" => got' = SubSeq(pkt, 1, m + i)
  <2> SUFFICES ASSUME rst = "data" PROVE got' = SubSeq(pkt, 1, m + i)
    BY Zenon
  <2>1. got' = got \o SubSeq(net, 1, i)
    BY Zenon, <1>1 DEF ReadData
  <2>2. SubSeq(net, 1, i) = SubSeq(pkt, m + 1, m + i)
    <3>1. SubSeq(Message, LenBytes + m + 1, LenBytes + (m + i))
            = SubSeq(pkt, m + 1, m + i)
      BY Zenon, <1>4, <1>8, DataBehind
    <3>2. LenBytes + m + i = LenBytes + (m + i)
      BY <1>4, <1>6, <1>8
    <3> QED BY Zenon, <1>4, <1>8, <3>1, <3>2
  <2>3. /\ 1 \in 1 .. Len(pkt) + 1 /\ m \in 1 - 1 .. Len(pkt)
        /\ m + i \in m .. Len(pkt)
    BY <1>4, <1>6, <1>8
  <2> QED BY Zenon, <1>6, <1>8, <2>1, <2>2, <2>3, ConcatAdjacentSubSeq
<1>10. CASE i < left
  <2>1. rst' = rst /\ taken' = taken
    BY Zenon, <1>10 DEF ReadData, DiscardData
  <2>2. /\ Consumed' = Consumed + i /\ left' \in 1 .. Len(pkt)
        /\ Len(pkt) - left' = m + i
    BY <1>1, <1>4, <1>6, <1>7, <1>8, <1>10, <2>1 DEF Consumed
  <2>3. UnderWay'
    BY Zenon, <1>1, <1>2, <1>5, <1>7, <1>8, <1>9, <2>1, <2>2 DEF UnderWay, Reading
  <2> QED BY Zenon, <1>1, <1>4, <1>7, <2>1, <2>3 DEF StreamInv
<1>11. CASE ~(i < left)
  <2>1. /\ rst' = "answer" /\ taken' = TRUE
        /\ rst = "data" => res' = "RES_OK"
        /\ rst = "discard" => res' = "RES_BAD_IO"
    BY Zenon, <1>1, <1>11 DEF ReadData, DiscardData, Returned
  <2>2. i = left /\ Consumed + i = Total /\ m + i = Len(pkt) /\ k = Total
    <3>1. i = left
      BY <1>4, <1>8, <1>11
    <3>2. left \in Nat /\ m + i = Len(pkt) /\ Consumed + i = Total
      BY <1>2, <1>6, <1>8, <3>1
    <3> QED BY <1>5, <1>6, <3>1, <3>2
  <2>3. net' = <<>>
    <3>1. Total < Consumed + i + 1 /\ Consumed + i + 1 \in Int
      BY <1>6, <2>2
    <3> QED BY <1>5, <1>6, <2>2, <3>1, SubSeqEmpty
  <2>4. rst = "data" => got' = pkt
    BY Zenon, <1>6, <1>9, <2>2, SubSeqFull
  <2>5. Delivered'
    BY Zenon, <1>1, <1>8, <2>1, <2>3, <2>4 DEF Delivered
  <2>6. sst = "writev" => r + moved = Total
    BY Zenon, <1>5, <2>2 DEF HandedOver
  <2>7. Taken'
    BY Zenon, <1>1, <1>7, <1>8, <2>1, <2>3, <2>5, <2>6 DEF Taken
  <2> QED BY Zenon, <1>1, <1>4, <1>7, <2>1, <2>7 DEF StreamInv
<1> QED
  BY Zenon, <1>10, <1>11

\* The other steps of the receiver leave the stream alone.
LEMMA ReceiverKeeps ==
  ASSUME StreamInv,
         \/ \E n \in Lengths : recv_data_pkt(n)
         \/ \E b \in Responses : send_response_byte(b)
         \/ ReadInterrupted \/ ReadEnd \/ ReceiverDies \/ Finished
  PROVE  StreamInv'
<1> SUFFICES ASSUME rst' # "exit" PROVE StreamInv'
  BY Zenon DEF StreamInv
<1>1. /\ sst' = sst /\ iov' = iov /\ r' = r /\ moved' = moved /\ pkt' = pkt
      /\ net' = net /\ taken' = taken /\ res' = res /\ rst # "exit"
  BY Zenon DEF recv_data_pkt, send_response_byte, ReadInterrupted, ReadEnd,
     ReceiverDies, Finished, sendervars, receivervars, vars, Reading
<1>2. /\ Message' = Message /\ Total' = Total /\ (WriterInv => WriterInv')
      /\ \A k : HandedOver(k) => HandedOver(k)'
  <2>1. Message' = Message /\ Total' = Total
    BY Zenon, <1>1 DEF Message, Total
  <2>2. WriterInv => WriterInv'
    BY Zenon, <1>1, <2>1 DEF WriterInv
  <2>3. ASSUME NEW k, HandedOver(k) PROVE HandedOver(k)'
    BY Zenon, <1>1, <2>1, <2>3 DEF HandedOver, Complete
  <2> QED BY Zenon, <2>1, <2>2, <2>3
<1>3. CASE \E n \in Lengths : recv_data_pkt(n)
  <2>1. /\ rst = "idle" /\ rst' = "length" /\ left' = LenBytes /\ got' = <<>>
        /\ back' = back
    BY Zenon, <1>3 DEF recv_data_pkt
  <2>2. taken => Taken'
    BY Zenon, <1>1, <1>2, <2>1 DEF StreamInv, Taken
  <2>3. ~taken => UnderWay'
    <3> SUFFICES ASSUME ~taken PROVE UnderWay'
      BY Zenon
    <3>1. LenBytes \in Nat \ {0} /\ UnderWay
      BY Zenon, <1>1, SizesAssumption DEF StreamInv
    <3>2. LenBytes - left' = 0 /\ left' \in 1 .. LenBytes
      BY <2>1, <3>1
    <3>3. Consumed = 0 /\ Consumed' = 0
      BY Zenon, <2>1, <3>2 DEF Consumed
    <3>4. got' = SubSeq(Message', 1, LenBytes - left')
      BY <2>1, <3>2, SubSeqEmpty
    <3> QED BY Zenon, <1>1, <1>2, <2>1, <3>1, <3>2, <3>3, <3>4 DEF UnderWay, Reading
  <2> QED BY Zenon, <1>1, <1>2, <2>1, <2>2, <2>3 DEF StreamInv
<1>4. CASE \E b \in Responses : send_response_byte(b)
  <2>1. PICK b \in Responses : send_response_byte(b)
    BY Zenon, <1>4
  <2>2. rst = "answer" /\ rst' = "idle" /\ back' = Append(back, b)
    BY Zenon, <2>1 DEF send_response_byte
  <2>3. taken /\ Taken /\ back = <<>> /\ sst # "idle"
    BY Zenon, <1>1, <2>2 DEF StreamInv, Taken, UnderWay, Reading
  <2>4. back' \in Seq(Responses) /\ Len(back') <= 1
    <3>1. back \in Seq(Responses) /\ Len(back) = 0
      BY Zenon, <2>3, EmptySeq
    <3>2. back' \in Seq(Responses) /\ Len(back') = Len(back) + 1
      BY Zenon, <2>2, <3>1, AppendProperties
    <3> QED BY <3>1, <3>2
  <2>5. Taken'
    BY Zenon, <1>1, <1>2, <2>2, <2>3 DEF Taken
  <2> QED BY Zenon, <1>1, <1>2, <2>3, <2>4, <2>5 DEF StreamInv
<1>5. CASE ReadInterrupted \/ ReadEnd \/ ReceiverDies \/ Finished
  <2>1. rst' = rst /\ want' = want /\ left' = left /\ got' = got /\ back' = back
    BY Zenon, <1>1, <1>5 DEF ReadInterrupted, ReadEnd, ReceiverDies, Finished,
       receivervars, vars
  <2>2. Consumed' = Consumed
    BY Zenon, <1>2, <2>1 DEF Consumed
  <2>3. taken => Taken'
    BY Zenon, <1>1, <1>2, <2>1 DEF StreamInv, Taken, Delivered
  <2>4. ~taken => UnderWay'
    BY Zenon, <1>1, <1>2, <2>1, <2>2 DEF StreamInv, UnderWay
  <2> QED BY Zenon, <1>1, <1>2, <2>1, <2>3, <2>4 DEF StreamInv
<1> QED
  BY Zenon, <1>3, <1>4, <1>5

\* All the steps of the routines keep the stream in order.
LEMMA StreamInductive ==
  ASSUME ShortWrites = "between", StreamInv, [Next]_vars
  PROVE  StreamInv'
<1>1. CASE UNCHANGED vars
  BY Zenon, <1>1 DEF vars, sendervars, receivervars, StreamInv, Taken, UnderWay,
     HandedOver, Complete, WriterInv, Delivered, Consumed, Message, Total
<1>2. CASE Next
  BY Zenon, <1>2, SendKeeps, TransferKeeps, WritevKeeps, SenderEndKeeps,
     ReadLengthKeeps, ReadRestKeeps, ReceiverKeeps DEF Next, Sends, Receives
<1> QED BY Zenon, <1>1, <1>2

LEMMA StreamInitially ==
  ASSUME Init
  PROVE  StreamInv
BY EmptySeq DEF Init, StreamInv, Taken

-----------------------------------------------------------------------------
\* When recv_data_pkt returns it has taken one whole packet out of the stream,
\* says RES_OK just when the length is the expected one, and then holds the
\* packet: for all packets, lengths and sizes, wherever read cuts the stream
\* and whenever a signal comes or a process dies, if writev is only ever cut
\* between the length and the data.
THEOREM AlwaysDelivered ==
  ASSUME ShortWrites = "between"
  PROVE  Spec => []Delivered
<1>1. Init => StreamInv
  BY Zenon, StreamInitially
<1>2. StreamInv /\ [Next]_vars => StreamInv'
  BY Zenon, StreamInductive
<1>3. StreamInv => Delivered
  BY Zenon DEF StreamInv, Taken, UnderWay, Delivered, Reading
<1> QED
  BY <1>1, <1>2, <1>3, PTL DEF Spec

-----------------------------------------------------------------------------
(* Channel, step by step.                                                  *)

\* There is never more than one response byte in flight, not even when the
\* receiver is gone.
AnswerInv ==
  /\ sst \in {"idle", "writev", "read", "exit"}
  /\ back \in Seq(Responses) /\ Len(back) <= 1

LEMMA AnswerKeeps ==
  ASSUME StreamInv, AnswerInv, StreamInv', [Next]_vars
  PROVE  AnswerInv'
<1>1. CASE rst' # "exit"
  BY Zenon, <1>1 DEF StreamInv, AnswerInv
<1>2. CASE rst' = "exit" /\ ReadResponse
  <2>1. /\ back # <<>> /\ back' = Tail(back) /\ sst' = "idle"
        /\ back \in Seq(Responses) /\ Len(back) <= 1
    BY Zenon, <1>2 DEF ReadResponse, AnswerInv
  <2>2. back' \in Seq(Responses) /\ Len(back') = Len(back) - 1 /\ Len(back) \in Nat
    BY <2>1, HeadTailProperties
  <2> QED BY <2>1, <2>2 DEF AnswerInv
<1>3. CASE rst' = "exit" /\ ~ReadResponse
  <2>1. back' = back /\ (sst' = sst \/ sst' \in {"writev", "read", "exit"})
    <3>1. CASE Sends \/ \E q \in Packets : send_data_pkt(q)
      BY Zenon, <1>3, <3>1 DEF Sends, send_data_pkt, Transfer, WritevReturns, ShortWrite,
         WritevFails, ReadResponseFails, receivervars
    <3>2. CASE Receives \/ \E n \in Lengths : recv_data_pkt(n)
      BY Zenon, <1>3, <3>2 DEF Receives, ReadLength, ReadData, DiscardData, ReadEnd,
         recv_data_pkt, send_response_byte, Returned, sendervars
    <3>3. CASE ReadResponseInterrupted \/ ReadInterrupted \/ SenderDies
      BY Zenon, <3>3 DEF ReadResponseInterrupted, ReadInterrupted, SenderDies, vars,
         sendervars, receivervars
    <3>4. CASE ReceiverDies \/ Finished \/ UNCHANGED vars
      BY Zenon, <3>4 DEF ReceiverDies, Finished, vars, sendervars, receivervars
    <3> QED BY Zenon, <3>1, <3>2, <3>3, <3>4 DEF Next
  <2> QED BY Zenon, <2>1 DEF AnswerInv
<1> QED
  BY Zenon, <1>1, <1>2, <1>3

\* A step of the sender is one of Channel's, or changes nothing there.
LEMMA SenderImplements ==
  ASSUME StreamInv, AnswerInv,
         \/ \E p \in Packets : send_data_pkt(p)
         \/ Sends \/ ReadResponseInterrupted \/ SenderDies
  PROVE  C!Next \/ UNCHANGED C!vars
<1>1. /\ rst' = rst /\ want' = want /\ got' = got /\ res' = res
  BY Zenon DEF send_data_pkt, Sends, Transfer, WritevReturns, ShortWrite, WritevFails,
     ReadResponse, ReadResponseFails, ReadResponseInterrupted, SenderDies,
     receivervars
<1>2. ReceiverPhase' = ReceiverPhase /\ Result' = Result
  BY Zenon, <1>1 DEF ReceiverPhase, Result
<1>3. ASSUME NEW p \in Packets, send_data_pkt(p)
      PROVE  C!Next
  <2>1. /\ sst = "idle" /\ sst' = "writev" /\ pkt' = p /\ taken' = FALSE
        /\ back' = back /\ resp' = resp
    BY Zenon, <1>3 DEF send_data_pkt
  <2>2. SenderPhase = "idle" /\ SenderPhase' = "waiting" /\ Wire' = <<p>>
    BY Zenon, <2>1 DEF SenderPhase, Wire, Complete
  <2>3. C!Send(p)
    BY Zenon, <1>1, <1>2, <2>1, <2>2 DEF C!Send
  <2> QED BY Zenon, <2>3 DEF C!Next
<1>4. ASSUME Transfer \/ WritevReturns \/ ShortWrite
      PROVE  UNCHANGED C!vars
  <2>1. /\ sst = "writev" /\ sst' \in {"writev", "read"} /\ pkt' = pkt
        /\ taken' = taken /\ back' = back /\ resp' = resp
    BY Zenon, <1>4 DEF Transfer, WritevReturns, ShortWrite
  <2>2. SenderPhase' = SenderPhase /\ Wire' = Wire
    BY Zenon, <2>1 DEF SenderPhase, Wire, Complete
  <2> QED BY Zenon, <1>1, <1>2, <2>1, <2>2 DEF C!vars
<1>5. ASSUME ReadResponse
      PROVE  C!Next
  <2>1. /\ sst = "read" /\ sst' = "idle" /\ back # <<>> /\ pkt' = pkt
        /\ resp' = Head(back) /\ back' = Tail(back) /\ taken' = taken
    BY Zenon, <1>5 DEF ReadResponse
  <2>2. SenderPhase = "waiting" /\ SenderPhase' = "idle" /\ Wire' = Wire
    BY Zenon, <2>1 DEF SenderPhase, Wire, Complete
  <2>3. back' = <<>>
    <3>1. /\ back' \in Seq(Responses) /\ Len(back') = Len(back) - 1
          /\ Len(back) \in Nat /\ Len(back) <= 1
      BY <2>1, HeadTailProperties DEF AnswerInv
    <3>2. Len(back') = 0
      BY <3>1
    <3> QED BY Zenon, <3>1, <3>2, EmptySeq
  <2>4. C!Return
    BY Zenon, <1>1, <1>2, <2>1, <2>2, <2>3 DEF C!Return
  <2> QED BY Zenon, <2>4 DEF C!Next
<1>6. ASSUME WritevFails \/ ReadResponseFails \/ ReadResponseInterrupted \/ SenderDies
      PROVE  C!Next
  <2>1. /\ sst # "exit" /\ sst' = "exit" /\ pkt' = pkt /\ taken' = taken
        /\ back' = back /\ resp' = resp
    BY Zenon, <1>6 DEF WritevFails, ReadResponseFails, ReadResponseInterrupted, SenderDies
  <2>2. SenderPhase # "gone" /\ SenderPhase' = "gone" /\ Wire' \in {Wire, <<>>}
    BY Zenon, <2>1 DEF SenderPhase, Wire, Complete, AnswerInv
  <2>3. C!SenderFails
    BY Zenon, <1>1, <1>2, <2>1, <2>2 DEF C!SenderFails
  <2> QED BY Zenon, <2>3 DEF C!Next
<1> QED
  BY Zenon, <1>3, <1>4, <1>5, <1>6 DEF Sends

\* The receiver has read the last byte of the data: the packet was whole.
LEMMA LastByte ==
  ASSUME StreamInv, NEW i, ReadData(i) \/ DiscardData(i), ~(i < left)
  PROVE  ~taken /\ Complete
<1>1. /\ rst \in {"data", "discard"} /\ rst # "exit" /\ rst \in Reading
  BY Zenon DEF ReadData, DiscardData, Reading
<1>2. UnderWay /\ left \in Nat \ {0} /\ DumpLen \in Nat
      /\ left \in 1 .. Len(pkt) /\ pkt \in Packets
  <2>1. UnderWay /\ pkt \in Packets /\ left \in 1 .. Len(pkt)
    BY Zenon, <1>1 DEF StreamInv, Taken, UnderWay
  <2>2. Len(pkt) \in Nat
    BY Zenon, <2>1, MessageType
  <2> QED BY <2>1, <2>2, SizesAssumption
<1>3. PICK n \in Int : n <= left /\ Takes(i, n)
  BY <1>2 DEF ReadData, DiscardData, SmallerOf
<1>4. ~taken /\ i \in 1 .. left
  BY Zenon, <1>1, <1>3, ReadGoesOn
<1>5. PICK k \in Consumed + i .. Total : HandedOver(k)
  BY Zenon, <1>1, <1>3, ReadGoesOn
<1>6. Total \in Nat /\ i = left /\ Consumed = Total - left
  BY <1>1, <1>2, <1>4, MessageType DEF Consumed
<1>7. k = Total
  BY <1>2, <1>5, <1>6
<1>8. sst = "exit" => Complete
  BY <1>5, <1>6, <1>7 DEF HandedOver
<1> QED
  BY Zenon, <1>4, <1>8 DEF Complete

\* A step of the receiver is one of Channel's, or changes nothing there.
LEMMA ReceiverImplements ==
  ASSUME StreamInv, StreamInv', AnswerInv,
         Receives \/ ReadInterrupted \/ ReceiverDies \/ Finished
  PROVE  C!Next \/ UNCHANGED C!vars
<1>1. /\ sst' = sst /\ iov' = iov /\ moved' = moved /\ pkt' = pkt /\ resp' = resp
  BY Zenon DEF Receives, ReadLength, ReadData, DiscardData, ReadEnd, recv_data_pkt,
     send_response_byte, ReadInterrupted, ReceiverDies, Finished, sendervars, vars
<1>2. /\ SenderPhase' = SenderPhase /\ (Complete' <=> Complete)
      /\ taken' = taken => Wire' = Wire
  BY <1>1 DEF SenderPhase, Complete, Wire
<1>3. rst # "exit" => rst \in {"idle", "answer"} \cup Reading
  BY Zenon DEF StreamInv, Taken, UnderWay, Reading
<1>4. ASSUME NEW n \in Lengths, recv_data_pkt(n)
      PROVE  C!Next
  <2>1. rst = "idle" /\ rst' = "length" /\ want' = n /\ taken' = taken /\ back' = back
    BY Zenon, <1>4 DEF recv_data_pkt
  <2>2. /\ ReceiverPhase = "idle" /\ ReceiverPhase' = "receiving"
        /\ Result' = Result
    BY Zenon, <2>1 DEF ReceiverPhase, Result, Reading
  <2>3. C!Receive(n)
    BY Zenon, <1>1, <1>2, <2>1, <2>2 DEF C!Receive
  <2> QED BY Zenon, <2>3 DEF C!Next
<1>5. ASSUME \/ \E i : (ReadData(i) \/ DiscardData(i)) /\ i < left
             \/ \E i : ReadLength(i)
             \/ ReadInterrupted \/ (ReadEnd /\ errno = "EINTR") \/ Finished
      PROVE  UNCHANGED C!vars
  <2>1. /\ taken' = taken /\ back' = back /\ want' = want
        /\ rst = rst' \/ (rst \in Reading /\ rst' \in Reading)
        /\ (rst = rst' /\ rst = "exit") \/ rst \in Reading
    <3>1. CASE \E i : ReadLength(i)
      <4>1. PICK i : ReadLength(i)
        BY Zenon, <3>1
      <4>2. rst = "length" /\ back' = back /\ want' = want
        BY Zenon, <4>1 DEF ReadLength
      <4> QED BY Zenon, <4>1, <4>2, ReadLengthKeeps DEF Reading
    <3> QED BY Zenon, <1>5, <3>1 DEF ReadData, DiscardData, ReadInterrupted, ReadEnd,
               Finished, vars, receivervars, Reading
  <2>2. ReceiverPhase' = ReceiverPhase /\ Result' = Result
    BY Zenon, <2>1 DEF ReceiverPhase, Result, Reading
  <2> QED BY Zenon, <1>1, <1>2, <2>1, <2>2 DEF C!vars
<1>6. ASSUME NEW i, ReadData(i) \/ DiscardData(i), ~(i < left)
      PROVE  C!Next
  <2>1. /\ rst \in Reading /\ rst' = "answer" /\ taken' = TRUE /\ back' = back
        /\ want' = want
        /\ rst = "data" => res' = "RES_OK"
        /\ rst = "discard" => res' = "RES_BAD_IO"
        /\ rst \in {"data", "discard"}
    BY Zenon, <1>6 DEF ReadData, DiscardData, Returned, Reading
  <2>2. Wire = <<pkt>> /\ Wire' = <<>>
    BY Zenon, <1>6, <2>1, LastByte DEF Wire
  <2>3. Delivered'
    BY Zenon, <2>1 DEF StreamInv, Taken
  <2>4. Result' = IF Len(pkt) = want
                  THEN [res |-> "RES_OK", data |-> pkt]
                  ELSE [res |-> "RES_BAD_IO", data |-> <<>>]
    BY Zenon, <1>1, <2>1, <2>3 DEF Delivered, Result
  <2>5. ReceiverPhase = "receiving" /\ ReceiverPhase' = "deciding"
    BY Zenon, <2>1 DEF ReceiverPhase, Reading
  <2>6. Head(Wire) = pkt /\ Wire # <<>>
    BY <2>2
  <2>7. C!Deliver
    BY Zenon, <1>1, <1>2, <2>1, <2>2, <2>4, <2>5, <2>6 DEF C!Deliver
  <2> QED BY Zenon, <2>7 DEF C!Next
<1>7. ASSUME \/ ReceiverDies \/ (ReadEnd /\ errno # "EINTR")
             \/ \E b \in Responses : send_response_byte(b) /\ rst' = "exit"
      PROVE  C!Next
  <2>1. rst # "exit" /\ rst' = "exit" /\ taken' = taken /\ want' = want /\ back' = back
    BY Zenon, <1>7 DEF ReceiverDies, ReadEnd, send_response_byte, Reading
  <2>2. ReceiverPhase # "gone" /\ ReceiverPhase' = "gone" /\ Result' = C!Nothing
    BY Zenon, <1>3, <2>1 DEF ReceiverPhase, Result, C!Nothing, Reading
  <2>3. C!ReceiverFails
    BY Zenon, <1>1, <1>2, <2>1, <2>2 DEF C!ReceiverFails
  <2> QED BY Zenon, <2>3 DEF C!Next
<1>8. ASSUME NEW b \in Responses, send_response_byte(b), rst' # "exit"
      PROVE  C!Next
  <2>1. /\ rst = "answer" /\ rst' = "idle" /\ back' = Append(back, b)
        /\ taken' = taken /\ want' = want
    BY Zenon, <1>8 DEF send_response_byte
  <2>2. back = <<>>
    BY Zenon, <2>1 DEF StreamInv, Taken, UnderWay, Reading
  <2>3. back' = <<b>>
    BY <2>1, <2>2
  <2>4. /\ ReceiverPhase = "deciding" /\ ReceiverPhase' = "idle"
        /\ Result' = C!Nothing
    BY Zenon, <2>1 DEF ReceiverPhase, Result, C!Nothing, Reading
  <2>5. C!Answer(b)
    BY Zenon, <1>1, <1>2, <2>1, <2>3, <2>4 DEF C!Answer
  <2> QED BY Zenon, <2>5 DEF C!Next
<1> QED
  BY Zenon, <1>4, <1>5, <1>6, <1>7, <1>8 DEF Receives

\* However the kernel cuts the stream and whoever dies, the handlers of
\* src/risu.c see a channel that moves whole packets, one at a time, each with
\* its answer: send_data_pkt, recv_data_pkt and send_response_byte implement
\* Channel for all packets, lengths and sizes, if writev is only ever cut
\* between the length and the data.
THEOREM CommsImplementsChannel ==
  ASSUME ShortWrites = "between"
  PROVE  Spec => ImplementsChannel
<1>1. Init => StreamInv /\ AnswerInv
  <2> SUFFICES ASSUME Init PROVE AnswerInv
    BY Zenon, StreamInitially
  <2> QED BY EmptySeq DEF Init, AnswerInv
<1>2. StreamInv /\ AnswerInv /\ [Next]_vars => StreamInv' /\ AnswerInv'
  BY Zenon, StreamInductive, AnswerKeeps
<1>3. Init => C!Init
  BY Zenon DEF Init, C!Init, SenderPhase, ReceiverPhase, Wire, Result, C!Nothing, Reading
<1>4. StreamInv /\ StreamInv' /\ AnswerInv /\ [Next]_vars => [C!Next]_C!vars
  <2> SUFFICES ASSUME StreamInv, StreamInv', AnswerInv, [Next]_vars
               PROVE  C!Next \/ UNCHANGED C!vars
    BY Zenon
  <2>1. CASE UNCHANGED vars
    BY Zenon, <2>1 DEF vars, sendervars, receivervars, C!vars, SenderPhase, ReceiverPhase,
       Wire, Result, Complete
  <2>2. CASE Next
    BY Zenon, <2>2, SenderImplements, ReceiverImplements DEF Next
  <2> QED BY Zenon, <2>1, <2>2
<1> QED
  BY <1>1, <1>2, <1>3, <1>4, PTL DEF Spec, ImplementsChannel, C!Spec

-----------------------------------------------------------------------------
(* With the connection set up by Connect.                                  *)

\* An apprentice that is connected is waiting in the queue of the server
\* socket, in one place only, or it is the one that was accepted.
PeerInv ==
  /\ queue \in Seq(Apprentices)
  /\ \A i, j \in 1 .. Len(queue) : queue[i] = queue[j] => i = j
  /\ state \in [Apprentices -> {"socket", "connected", "lost", "exited"}]
  /\ master \in {"socket", "bound", "listening", "accepted", "connected", "exited"}
  /\ peer \subseteq Apprentices
  /\ master \in {"socket", "bound", "connected", "exited"} => queue = <<>>
  /\ master # "exited" => {a \in Apprentices : state[a] = "connected"}
                            = peer \cup K!Queued
  /\ peer \cap K!Queued = {}
  /\ master \in {"socket", "bound", "listening"} => peer = {}

\* The master's steps.
LEMMA MasterKeepsPeer ==
  ASSUME PeerInv, K!Bind \/ K!Listen \/ K!Accept \/ K!CloseServer \/ K!AcceptFails
  PROVE  PeerInv'
<1>1. CASE K!Bind \/ K!Listen
  BY <1>1 DEF PeerInv, K!Bind, K!Listen, K!Queued
<1>2. CASE K!Accept
  <2>1. /\ master = "listening" /\ queue # <<>> /\ queue \in Seq(Apprentices)
        /\ peer' = {Head(queue)} /\ queue' = Tail(queue) /\ master' = "accepted"
        /\ state' = state /\ peer = {}
    BY Zenon, <1>2 DEF PeerInv, K!Accept
  <2>2. /\ Head(queue) \in Apprentices /\ queue' \in Seq(Apprentices)
        /\ Len(queue) \in Nat \ {0} /\ Len(queue') = Len(queue) - 1
        /\ \A i \in 1 .. Len(queue') : queue'[i] = queue[i + 1]
        /\ Head(queue) = queue[1]
    BY <2>1, HeadTailProperties, EmptySeq
  <2>3. DOMAIN queue = 1 .. Len(queue) /\ DOMAIN queue' = 1 .. Len(queue')
    BY <2>1, <2>2
  <2>4. \A i, j \in 1 .. Len(queue') : queue'[i] = queue'[j] => i = j
    BY <2>2 DEF PeerInv
  <2>5. K!Queued = peer' \cup K!Queued'
    <3>1. ASSUME NEW i \in 1 .. Len(queue), i # 1
          PROVE  i - 1 \in 1 .. Len(queue') /\ queue'[i - 1] = queue[i]
      BY <2>2, <3>1
    <3>2. \A i \in 1 .. Len(queue') : i + 1 \in 1 .. Len(queue)
      BY <2>2
    <3>3. 1 \in 1 .. Len(queue)
      BY <2>2
    <3>4. ASSUME NEW x \in K!Queued PROVE x \in peer' \cup K!Queued'
      <4>1. PICK i \in 1 .. Len(queue) : x = queue[i]
        BY Zenon, <2>3 DEF K!Queued
      <4>2. CASE i = 1
        BY Zenon, <2>1, <2>2, <4>1, <4>2
      <4>3. CASE i # 1
        <5>1. i - 1 \in DOMAIN queue' /\ queue'[i - 1] = x
          BY Zenon, <2>3, <3>1, <4>1, <4>3
        <5> QED BY Zenon, <5>1 DEF K!Queued
      <4> QED BY Zenon, <4>2, <4>3
    <3>5. ASSUME NEW x \in peer' \cup K!Queued' PROVE x \in K!Queued
      BY Zenon, <2>1, <2>2, <2>3, <3>2, <3>3, <3>5 DEF K!Queued
    <3> QED BY Zenon, <3>4, <3>5
  <2>6. peer' \cap K!Queued' = {}
    <3> SUFFICES ASSUME NEW i \in 1 .. Len(queue') PROVE queue'[i] # queue[1]
      BY <2>1, <2>2, <2>3 DEF K!Queued
    <3>1. i + 1 \in 1 .. Len(queue) /\ 1 \in 1 .. Len(queue) /\ i + 1 # 1
      BY <2>2
    <3> QED BY Zenon, <2>2, <3>1 DEF PeerInv
  <2> QED BY Zenon, <2>1, <2>2, <2>4, <2>5, <2>6 DEF PeerInv
<1>3. CASE K!CloseServer \/ K!AcceptFails
  <2>1. /\ master \in {"accepted", "listening"} /\ master' \in {"connected", "exited"}
        /\ queue' = <<>> /\ peer' = peer
        /\ state' = [a \in Apprentices |-> IF a \in K!Queued THEN "lost" ELSE state[a]]
    BY Zenon, <1>3 DEF K!CloseServer, K!AcceptFails
  <2>2. K!Queued' = {} /\ queue' \in Seq(Apprentices) /\ Len(queue') = 0
    BY <2>1 DEF K!Queued
  <2>3. {a \in Apprentices : state'[a] = "connected"} = peer'
    BY Zenon, <2>1 DEF PeerInv
  <2> QED BY <2>1, <2>2, <2>3 DEF PeerInv
<1> QED
  BY Zenon, <1>1, <1>2, <1>3

\* The apprentices' steps.
LEMMA ApprenticeKeepsPeer ==
  ASSUME PeerInv, NEW a \in Apprentices, K!ConnectFails(a) \/ K!ConnectSucceeds(a)
  PROVE  PeerInv'
<1>1. CASE K!ConnectFails(a)
  <2>1. /\ state[a] = "socket" /\ state' = [state EXCEPT ![a] = "exited"]
        /\ master' = master /\ queue' = queue /\ peer' = peer /\ K!Queued' = K!Queued
    BY Zenon, <1>1 DEF K!ConnectFails, K!Queued
  <2>2. {b \in Apprentices : state'[b] = "connected"}
          = {b \in Apprentices : state[b] = "connected"}
    BY Zenon, <2>1 DEF PeerInv
  <2> QED BY <2>1, <2>2 DEF PeerInv
<1>2. CASE K!ConnectSucceeds(a)
  <2>1. /\ state[a] = "socket" /\ state' = [state EXCEPT ![a] = "connected"]
        /\ queue' = Append(queue, a) /\ master' = master /\ peer' = peer
        /\ master \in {"listening", "accepted"} /\ queue \in Seq(Apprentices)
    BY Zenon, <1>2 DEF K!ConnectSucceeds, K!Accepts, PeerInv
  <2>2. /\ queue' \in Seq(Apprentices) /\ Len(queue') = Len(queue) + 1
        /\ \A i \in 1 .. Len(queue) : queue'[i] = queue[i]
        /\ queue'[Len(queue) + 1] = a /\ Len(queue) \in Nat
    BY <2>1, AppendProperties
  <2>3. K!Queued' = K!Queued \cup {a}
    <3>1. DOMAIN queue = 1 .. Len(queue) /\ DOMAIN queue' = 1 .. Len(queue')
      BY <2>1, <2>2
    <3>2. 1 .. Len(queue') = (1 .. Len(queue)) \cup {Len(queue) + 1}
      BY <2>2
    <3> QED BY <2>2, <3>1, <3>2 DEF K!Queued
  <2>4. a \notin peer /\ a \notin K!Queued
    BY Zenon, <2>1 DEF PeerInv
  <2>5. \A i \in 1 .. Len(queue) : queue[i] # a
    BY <2>1, <2>4 DEF K!Queued
  <2>6. \A i, j \in 1 .. Len(queue') : queue'[i] = queue'[j] => i = j
    <3> SUFFICES ASSUME NEW i \in 1 .. Len(queue'), NEW j \in 1 .. Len(queue'),
                        queue'[i] = queue'[j]
                 PROVE  i = j
      BY Zenon
    <3>1. /\ i \in 1 .. Len(queue) \/ i = Len(queue) + 1
          /\ j \in 1 .. Len(queue) \/ j = Len(queue) + 1
      BY <2>2
    <3> QED BY <2>2, <2>5, <3>1 DEF PeerInv
  <2>7. {b \in Apprentices : state'[b] = "connected"}
          = {b \in Apprentices : state[b] = "connected"} \cup {a}
    BY <2>1 DEF PeerInv
  <2> QED BY Zenon, <2>1, <2>2, <2>3, <2>4, <2>6, <2>7 DEF PeerInv
<1> QED
  BY Zenon, <1>1, <1>2

\* Once master_connect has returned, the only apprentice that believes to be
\* connected is the one it accepted, however many there are, whatever the
\* backlog and whenever each of them connects.
THEOREM AlwaysOnePeer == TSpec => []OnePeer
<1>1. TInit => PeerInv
  BY EmptySeq DEF TInit, K!Init, PeerInv, K!Queued
<1>2. PeerInv /\ [TNext]_allVars => PeerInv'
  <2> SUFFICES ASSUME PeerInv, [TNext]_allVars PROVE PeerInv'
    BY Zenon
  <2>1. CASE UNCHANGED connecting
    BY <2>1 DEF connecting, PeerInv, K!Queued
  <2>2. CASE Connects
    BY Zenon, <2>2, MasterKeepsPeer, ApprenticeKeepsPeer DEF Connects, K!Next
  <2> QED BY Zenon, <2>1, <2>2 DEF TNext, allVars, MasterSends, ApprenticeReceives, AllGone
<1>3. PeerInv => OnePeer
  BY DEF PeerInv, OnePeer, K!OnePeer, K!Queued
<1> QED
  BY <1>1, <1>2, <1>3, PTL DEF TSpec

\* The connection that master_connect and apprentice_connect set up is a
\* channel from its first packet on: what holds of the routines for one
\* connection holds of all of src/comms.c.
THEOREM TransportDelivers ==
  ASSUME ShortWrites = "between"
  PROVE  TSpec => []Delivered /\ ImplementsChannel
<1>1. TInit => Init
  BY Zenon DEF TInit
<1>2. [TNext]_allVars => [Next]_vars
  BY Zenon DEF TNext, allVars, Connects, MasterSends, ApprenticeReceives, AllGone, Next
<1>3. TSpec => Spec
  BY <1>1, <1>2, PTL DEF TSpec, Spec
<1> QED
  BY <1>3, AlwaysDelivered, CommsImplementsChannel, PTL

-----------------------------------------------------------------------------
(* Byte order.                                                             *)


\* Swapping the bytes of a word (BYTESWAP_32) gives a word, and twice is not at
\* all.
LEMMA SwapTwice ==
  ASSUME NEW n \in Word
  PROVE  BYTESWAP_32(n) \in Word /\ BYTESWAP_32(BYTESWAP_32(n)) = n
<1>1. \A i \in 1 .. W : W + 1 - i \in 1 .. W /\ W + 1 - (W + 1 - i) = i
  BY WordsAssumption
<1>2. BYTESWAP_32(n) \in Word
  BY Zenon, <1>1 DEF Word, BYTESWAP_32
<1>3. BYTESWAP_32(BYTESWAP_32(n)) = [i \in 1 .. W |-> n[i]]
  BY Zenon, <1>1 DEF BYTESWAP_32
<1>4. n = [i \in 1 .. W |-> n[i]]
  BY Zenon DEF Word
<1> QED BY Zenon, <1>2, <1>3, <1>4

\* byte_swap_header keeps a header a header and is its own inverse.
LEMMA SwapHeaderTwice ==
  ASSUME NEW h \in Headers
  PROVE  /\ byte_swap_header(h) \in Headers
         /\ byte_swap_header(byte_swap_header(h)) = h
<1>1. /\ h.magic \in Word /\ h.size \in Word /\ h.risu_op \in Word /\ h.pc \in Word
      /\ h = [magic |-> h.magic, size |-> h.size, risu_op |-> h.risu_op, pc |-> h.pc]
  BY Zenon DEF Headers
<1> QED BY Zenon, <1>1, SwapTwice DEF byte_swap_header, Headers

\* A header that lies in the memory of a host and is read by another is the
\* same header or its swapped form (write_buffer, read_buffer).
StoredHeader(b, h) ==
  [magic |-> Stored(b, h.magic), size |-> Stored(b, h.size),
   risu_op |-> Stored(b, h.risu_op), pc |-> Stored(b, h.pc)]

LEMMA StoredEitherWay ==
  ASSUME NEW b \in Build, NEW h \in Headers
  PROVE  StoredHeader(b, h) = IF b.big THEN h ELSE byte_swap_header(h)
<1>1. h = [magic |-> h.magic, size |-> h.size, risu_op |-> h.risu_op, pc |-> h.pc]
  BY Zenon DEF Headers
<1>2. CASE b.big
  BY Zenon, <1>1, <1>2 DEF StoredHeader, Stored
<1>3. CASE ~b.big
  BY Zenon, <1>3 DEF StoredHeader, Stored, byte_swap_header
<1> QED BY Zenon, <1>2, <1>3

\* The initial state has no packet and no header.
LEMMA WireInit ==
  ASSUME OrderInit
  PROVE  WireInv
<1>1. PICK z : z \in Octet /\ z = RISU_MAGIC[1]
  BY WordsAssumption DEF Word
<1>2. (CHOOSE x \in Octet : TRUE) \in Octet
  BY Zenon, <1>1
<1>3. Zero \in Word
  BY Zenon, <1>2 DEF Zero, Word
<1>4. NoHeader \in Headers /\ NoReginfo \in Reginfos
  BY Zenon, <1>3 DEF NoHeader, NoReginfo, Headers, Reginfos
<1>5. TypeOK
  BY Zenon, <1>3, <1>4 DEF OrderInit, TypeOK
<1> QED BY Zenon, <1>5 DEF OrderInit, WireInv, HeaderUnderstood, Side

\* What a build writes for a fresh header: the header or its swapped form
\* (send_register_info).
LEMMA SendInv ==
  ASSUME WireInv, NEW o \in Ops, NEW n \in Sizes, NEW p \in Pcs,
         NEW i \in Insns, NEW v \in Regs, send_register_info(o, n, p, i, v)
  PROVE  WireInv'
<1> DEFINE b == build["master"]
           h == [magic |-> RISU_MAGIC, size |-> n, risu_op |-> o, pc |-> p]
           g == [insn |-> InsnAt(b, i), reg |-> v]
           h2 == header_host_to_arch(b, h)
           g2 == reginfo_host_to_arch(b, g)
<1>1. b \in Build
  BY Zenon, BuildsAssumption DEF WireInv, TypeOK, Side
<1>2. /\ n \in Word /\ o \in Word /\ p \in Word /\ i \in Word /\ v \in Word
      /\ RISU_MAGIC \in Word
  BY Zenon, WordsAssumption
<1>3. h \in Headers
  BY Zenon, <1>2 DEF Headers
<1>4. h2 \in {h, byte_swap_header(h)} /\ h2 \in Headers
  BY <1>3, SwapHeaderTwice, Zenon DEF header_host_to_arch
<1>5. StoredHeader(b, h2) \in {h, byte_swap_header(h)} /\ StoredHeader(b, h2) \in Headers
  BY <1>1, <1>3, <1>4, StoredEitherWay, SwapHeaderTwice
<1>6. InsnAt(b, i) \in Word
  BY Zenon, <1>2, SwapTwice DEF InsnAt, arch_to_host_32
<1>7. g2 \in Reginfos
  BY Zenon, <1>2, <1>6, SwapTwice DEF reginfo_host_to_arch, reginfo_swap, Reginfos
<1>8. g2.insn \in Word /\ g2.reg \in Word /\ h2.size \in Word
  BY <1>7, <1>4, Zenon DEF Reginfos, Headers
<1>9. [insn |-> Stored(b, g2.insn), reg |-> Stored(b, g2.reg)] \in Reginfos
  BY <1>8, SwapTwice, Zenon DEF Stored, Reginfos
<1>10. /\ st' = "sent" /\ build' = build
       /\ header' = [header EXCEPT !["master"] = h2]
       /\ ri' = [ri EXCEPT !["master"] = g2]
       /\ wire' = [header |-> StoredHeader(b, h2),
                   ri |-> [insn |-> Stored(b, g2.insn), reg |-> Stored(b, g2.reg)],
                   len |-> h2.size]
       /\ meant' = [header |-> h, ri |-> [insn |-> i, reg |-> v]]
  BY Zenon DEF send_register_info, StoredHeader
<1>11. [insn |-> i, reg |-> v] \in Reginfos
  BY Zenon, <1>2 DEF Reginfos
<1> HIDE DEF b, h, g, h2, g2
<1>12. TypeOK'
  BY <1>3, <1>4, <1>5, <1>7, <1>8, <1>9, <1>10, <1>11, Zenon DEF WireInv, TypeOK, Side
<1>13. meant'.header = h /\ wire'.header = StoredHeader(b, h2) /\ h.magic = RISU_MAGIC
  BY <1>10, Zenon DEF h
<1> QED BY <1>5, <1>10, <1>12, <1>13, Zenon DEF WireInv, HeaderUnderstood

\* A header that arrives in either order is recognised by its magic number
\* (recv_register_info, header_arch_to_host).
LEMMA RecvInv ==
  ASSUME WireInv, recv_register_info
  PROVE  WireInv'
<1> DEFINE b == build["apprentice"]
           h == wire.header
           k == StoredHeader(b, h)
           g == [insn |-> Stored(b, wire.ri.insn), reg |-> Stored(b, wire.ri.reg)]
<1>1. b \in Build /\ st = "sent" /\ meant.header \in Headers /\ h \in Headers
  BY BuildsAssumption, Zenon DEF WireInv, TypeOK, Side, recv_register_info
<1>2. /\ meant.header.magic = RISU_MAGIC
      /\ h \in {meant.header, byte_swap_header(meant.header)}
  BY Zenon, <1>1 DEF WireInv
<1>3. k \in {meant.header, byte_swap_header(meant.header)}
  BY SMTT(30), <1>1, <1>2, StoredEitherWay, SwapHeaderTwice
<1>4. byte_swap_header(meant.header).magic = BYTESWAP_32(RISU_MAGIC)
  BY Zenon, <1>2 DEF byte_swap_header
<1>5. header_arch_to_host(b, k) = meant.header
  BY Zenon, <1>1, <1>2, <1>3, <1>4, WordsAssumption, SwapHeaderTwice DEF header_arch_to_host
<1>6. wire.ri.insn \in Word /\ wire.ri.reg \in Word
  BY Zenon DEF WireInv, TypeOK, Reginfos
<1>7. g \in Reginfos
  BY Zenon, <1>6, SwapTwice DEF Stored, Reginfos
<1>8. reginfo_arch_to_host(b, g) \in Reginfos
  BY Zenon, <1>6, <1>7, SwapTwice DEF reginfo_arch_to_host, reginfo_swap, Reginfos
<1>9. /\ st' = "idle" /\ build' = build /\ wire' = wire /\ meant' = meant
      /\ header' = [header EXCEPT !["apprentice"] = header_arch_to_host(b, k)]
      /\ ri' = [ri EXCEPT !["apprentice"] = reginfo_arch_to_host(b, g)]
  BY Zenon DEF recv_register_info, StoredHeader
<1> HIDE DEF b, h, k, g
<1>10. TypeOK'
  BY Zenon, <1>1, <1>5, <1>8, <1>9 DEF WireInv, TypeOK, Side
<1>11. header'["apprentice"] = meant.header
  BY Zenon, <1>5, <1>9 DEF WireInv, TypeOK, Side
<1> QED BY Zenon, <1>9, <1>10, <1>11 DEF WireInv, HeaderUnderstood

\* Whatever builds meet, the invariant holds: nothing but the meant header or
\* its swapped form is ever on the wire.
THEOREM WireInvariance == OrderSpec => []WireInv
<1>1. OrderInit => WireInv
  BY Zenon, WireInit
<1>2. WireInv /\ [OrderNext]_orderVars => WireInv'
  <2> SUFFICES ASSUME WireInv, [OrderNext]_orderVars PROVE WireInv'
    BY Zenon
  <2>1. CASE recv_register_info
    BY Zenon, <2>1, RecvInv
  <2>2. CASE \E o \in Ops, n \in Sizes, p \in Pcs, i \in Insns, v \in Regs :
               send_register_info(o, n, p, i, v)
    BY Zenon, <2>2, SendInv
  <2>3. CASE UNCHANGED orderVars
    BY Zenon, <2>3 DEF orderVars, WireInv, TypeOK, HeaderUnderstood
  <2> QED BY Zenon, <2>1, <2>2, <2>3 DEF OrderNext
<1> QED BY <1>1, <1>2, PTL DEF OrderSpec

\* The apprentice understands the header the master meant, for every pair of
\* builds, byte orders and compilers.
THEOREM HeaderAlwaysUnderstood == OrderSpec => []HeaderUnderstood
<1>1. WireInv => HeaderUnderstood
  BY Zenon DEF WireInv
<1> QED BY <1>1, WireInvariance, PTL

-----------------------------------------------------------------------------
\* On the wire between builds for big-endian images, registers and instruction lie most significant byte first.
ReginfoInv ==
  /\ WireInv
  /\ ReginfoUnderstood
  /\ st = "sent" /\ BigEndianImages => wire.ri = meant.ri

\* Such a build reads an instruction of the image as it was written
\* (arch_to_host_32), and what it stores of a swapped reginfo is the reginfo
\* (reginfo_host_to_arch); what it makes of such bytes is the same again.
LEMMA BigEndianWire ==
  ASSUME NEW b \in Build, b.big # b.dppc, NEW i \in Word, NEW v \in Word
  PROVE  /\ InsnAt(b, i) = i
         /\ LET g == reginfo_host_to_arch(b, [insn |-> i, reg |-> v]) IN
            [insn |-> Stored(b, g.insn), reg |-> Stored(b, g.reg)] = [insn |-> i, reg |-> v]
         /\ reginfo_arch_to_host(b, [insn |-> Stored(b, i), reg |-> Stored(b, v)])
              = [insn |-> i, reg |-> v]
<1>1. BYTESWAP_32(BYTESWAP_32(i)) = i /\ BYTESWAP_32(BYTESWAP_32(v)) = v
  BY Zenon, SwapTwice
<1>2. CASE b.big /\ ~b.dppc
  BY <1>2, Zenon DEF InsnAt, arch_to_host_32, get_arch_big_endian, reginfo_host_to_arch,
              reginfo_arch_to_host, Stored
<1>3. CASE ~b.big /\ b.dppc
  BY <1>1, <1>3, Zenon DEF InsnAt, arch_to_host_32, get_arch_big_endian, reginfo_host_to_arch,
              reginfo_arch_to_host, reginfo_swap, Stored
<1>4. (b.big /\ ~b.dppc) \/ (~b.big /\ b.dppc)
  BY DEF Build
<1> QED BY <1>2, <1>3, <1>4, Zenon

\* Between such builds the apprentice gets the registers and the instruction
\* the master had (reginfo_host_to_arch, reginfo_arch_to_host).
THEOREM ReginfoAlwaysUnderstood == OrderSpec => []ReginfoUnderstood
<1>1. OrderInit => ReginfoInv
  BY WireInit DEF OrderInit, ReginfoInv, ReginfoUnderstood, Side
<1>2. ReginfoInv /\ [OrderNext]_orderVars => ReginfoInv'
  <2> SUFFICES ASSUME ReginfoInv, [OrderNext]_orderVars PROVE ReginfoInv'
    BY Zenon
  <2>0. ASSUME BigEndianImages
        PROVE  \A s \in Side : build[s] \in Build /\ build[s].big # build[s].dppc
    BY Zenon, <2>0, BuildsAssumption DEF ReginfoInv, WireInv, TypeOK, BigEndianImages
  <2>1. ASSUME recv_register_info PROVE ReginfoInv'
    <3>0. WireInv' /\ st' = "idle" /\ build' = build
      BY <2>1, RecvInv, Zenon DEF ReginfoInv, recv_register_info
    <3>1. ASSUME BigEndianImages PROVE ri'["apprentice"] = meant'.ri
      <4>1. st = "sent" /\ meant' = meant /\ wire.ri = meant.ri
        BY Zenon, <2>1, <3>1 DEF recv_register_info, ReginfoInv
      <4>2. /\ meant.ri.insn \in Word /\ meant.ri.reg \in Word
            /\ meant.ri = [insn |-> meant.ri.insn, reg |-> meant.ri.reg]
        BY Zenon DEF ReginfoInv, WireInv, TypeOK, Reginfos
      <4> DEFINE b == build["apprentice"]
      <4>3. reginfo_arch_to_host(b, [insn |-> Stored(b, meant.ri.insn),
                                     reg |-> Stored(b, meant.ri.reg)]) = meant.ri
        BY <2>0, <3>1, <4>2, BigEndianWire, Zenon DEF Side
      <4>4. ri' = [ri EXCEPT !["apprentice"] =
              reginfo_arch_to_host(b, [insn |-> Stored(b, wire.ri.insn),
                                       reg |-> Stored(b, wire.ri.reg)])]
        BY <2>1, Zenon DEF recv_register_info
      <4>5. ri' = [ri EXCEPT !["apprentice"] = meant.ri]
        BY <4>1, <4>3, <4>4, Zenon
      <4> QED BY Zenon, <4>1, <4>5 DEF ReginfoInv, WireInv, TypeOK, Side
    <3> QED BY Zenon, <3>0, <3>1 DEF ReginfoInv, ReginfoUnderstood, BigEndianImages
  <2>2. ASSUME NEW o \in Ops, NEW n \in Sizes, NEW p \in Pcs, NEW i \in Insns,
               NEW v \in Regs, send_register_info(o, n, p, i, v)
        PROVE  ReginfoInv'
    <3>0. WireInv' /\ st' = "sent" /\ build' = build
      BY <2>2, SendInv, Zenon DEF ReginfoInv, send_register_info
    <3>1. ASSUME BigEndianImages PROVE wire'.ri = meant'.ri
      <4>1. i \in Word /\ v \in Word
        BY Zenon, WordsAssumption
      <4>2. InsnAt(build["master"], i) = i
        BY <2>0, <3>1, <4>1, BigEndianWire, Zenon DEF Side
      <4> DEFINE b == build["master"]
                 g == reginfo_host_to_arch(b, [insn |-> i, reg |-> v])
      <4>3. [insn |-> Stored(b, g.insn), reg |-> Stored(b, g.reg)]
              = [insn |-> i, reg |-> v]
        BY <2>0, <3>1, <4>1, BigEndianWire, Zenon DEF Side
      <4>4. /\ wire'.ri = [insn |-> Stored(b, g.insn), reg |-> Stored(b, g.reg)]
            /\ meant'.ri = [insn |-> i, reg |-> v]
        BY <2>2, <4>2, Zenon DEF send_register_info
      <4> QED BY <4>3, <4>4, Zenon
    <3> QED BY <3>0, <3>1, Zenon DEF ReginfoInv, ReginfoUnderstood, BigEndianImages
  <2>3. CASE UNCHANGED orderVars
    BY <2>3, Zenon DEF orderVars, ReginfoInv, ReginfoUnderstood, WireInv, TypeOK,
                HeaderUnderstood, BigEndianImages
  <2> QED BY Zenon, <2>1, <2>2, <2>3 DEF OrderNext
<1>3. ReginfoInv => ReginfoUnderstood
  BY Zenon DEF ReginfoInv
<1> QED BY <1>1, <1>2, <1>3, PTL DEF OrderSpec
=============================================================================
