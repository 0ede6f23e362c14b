----------------------------- MODULE TraceProofs ------------------------------
(***************************************************************************)
(* Proofs about Trace: what the apprentice accepts is what was recorded,   *)
(* and what it refuses was really wrong, for every pair of images, every   *)
(* size of a reginfo and of a memory block, every content, and wherever    *)
(* the stream is cut, buffered or read in pieces.                          *)
(*                                                                         *)
(* The stream has no lengths in front of its messages, so the argument is  *)
(* about places: there is a function pos such that message i, the one of   *)
(* the master's i-th checkpoint, lies behind place pos[i-1] and ends at    *)
(* pos[i], and as long as the apprentice has accepted everything it stands *)
(* at pos[accepted] or behind the header that follows.                     *)
(***************************************************************************)
EXTENDS Trace, TLAPS

Ops == RegOps \cup ZeroOps \cup {OP_COMPAREMEM}
Cell == Int \cup {RISU_MAGIC}
Written == file \o out

\* The message of a checkpoint of the master: its length, and its cells.
MsgLen(c) ==
  HeaderSize + (IF c.op \in RegOps THEN regsize[MASTER]
                ELSE IF c.op = OP_COMPAREMEM /\ c.data # NULL THEN MEMBLOCKLEN
                ELSE 0)
MsgCell(c, k) ==
  IF k = 1 THEN RISU_MAGIC
  ELSE IF k = 2 THEN PayloadSize(c.op)
  ELSE IF k = 3 THEN c.op
  ELSE IF k = 4 \/ c.op = OP_COMPAREMEM THEN c.data ELSE 0

\* The checkpoint a process is at.
Met(s) ==
  [op |-> op(s), setup |-> is_setup[s],
   data |-> IF op(s) \in RegOps THEN reg[s]
            ELSE IF op(s) = OP_COMPAREMEM /\ memblock[s] THEN mem[s]
            ELSE NULL]

MachineTypes ==
  /\ \A s \in Side : /\ image[s] \in Seq(Ops)
                     /\ image[s][Len(image[s])] = OP_TESTEND
                     /\ pc[s] \in 1 .. Len(image[s])
  /\ regsize \in [Side -> Nat \ {0}] /\ pipe \in BOOLEAN
  /\ pc \in [Side -> Nat]
  /\ reg \in [Side -> Vals \cup {NULL}] /\ mem \in [Side -> Vals]
  /\ memblock \in [Side -> BOOLEAN] /\ is_setup \in [Side -> BOOLEAN]

Types ==
  /\ MachineTypes
  /\ st \in [Side -> {"image", "header", "payload", "close", "exit"}]
  /\ out \in Seq(Cell) /\ file \in Seq(Cell) /\ off \in 0 .. Len(file)
  /\ DOMAIN res = Side
  /\ log \in [Side -> Seq(Cp)]
  /\ \A i \in 1 .. Len(log[MASTER]) :
       log[MASTER][i].op \in ZeroOps => log[MASTER][i].data = NULL
  /\ accepted \in Nat /\ lost \in BOOLEAN

MasterInv ==
  /\ st[MASTER] \in {"image", "close", "exit"}
  /\ st[MASTER] = "exit" => out = <<>>
  /\ st[MASTER] # "exit" => ~lost

\* Where the messages are.
StreamInv(pos) ==
  LET l == log[MASTER] IN
  /\ pos \in [0 .. Len(l) -> Nat] /\ pos[0] = 0
  /\ \A i \in 1 .. Len(l) : pos[i] = pos[i - 1] + MsgLen(l[i])
  /\ \A i \in 0 .. Len(l) : pos[i] <= pos[Len(l)]
  /\ \A i \in 1 .. Len(l) : \A k \in 1 .. MsgLen(l[i]) :
       pos[i - 1] + k <= Len(Written) => Written[pos[i - 1] + k] = MsgCell(l[i], k)
  /\ Len(Written) <= pos[Len(l)]
  /\ ~lost => Len(Written) = pos[Len(l)]

\* A failed playback has one of these reasons, and no later step of the
\* master takes it away.
Excused ==
  LET k == Len(log[APPRENTICE]) IN
  \/ regsize[MASTER] # regsize[APPRENTICE]
  \/ lost
  \/ pipe /\ res[APPRENTICE] = "RES_BAD_IO"
  \/ st[MASTER] = "exit" /\ k > Len(log[MASTER])
  \/ \E i \in 1 .. Len(log[MASTER]) :
       log[MASTER][i].op = OP_COMPAREMEM /\ log[MASTER][i].data = NULL
  \/ k \in 1 .. Len(log[MASTER]) /\ ~CpAgree(log[MASTER][k], log[APPRENTICE][k])

\* Where the apprentice is in the stream.
ReaderInv(pos) ==
  /\ accepted <= Len(log[MASTER]) /\ accepted <= Len(log[APPRENTICE])
  /\ st[APPRENTICE] \in {"image", "header", "payload", "exit"}
  /\ st[APPRENTICE] = "exit" <=> res[APPRENTICE] # "none"
  /\ st[APPRENTICE] = "image" =>
       Len(log[APPRENTICE]) = accepted /\ off = pos[accepted]
  /\ st[APPRENTICE] \in {"header", "payload"} =>
       /\ Len(log[APPRENTICE]) = accepted + 1
       /\ log[APPRENTICE][accepted + 1] = Met(APPRENTICE)
       /\ pipe \/ st[MASTER] = "exit"
  /\ st[APPRENTICE] = "header" => off = pos[accepted]
  /\ st[APPRENTICE] = "payload" =>
       /\ accepted < Len(log[MASTER]) /\ off = pos[accepted] + HeaderSize
       /\ header = Header(log[MASTER][accepted + 1].op,
                          PayloadSize(log[MASTER][accepted + 1].op))
       /\ HeaderResult(header) = "RES_OK" /\ header[2] > 0
  /\ res[APPRENTICE] \notin {"none", "RES_END", "killed", "returned"} => Excused

Inv == Types /\ MasterInv /\ \E pos \in [0 .. Len(log[MASTER]) -> Nat] :
                               StreamInv(pos) /\ ReaderInv(pos)

-----------------------------------------------------------------------------
(* The operators of the model.                                             *)

\* What the assumptions say of the sizes and of the contents.
LEMMA Constants ==
  /\ MEMBLOCKLEN \in Nat /\ MEMBLOCKLEN > 0
  /\ \A v \in Vals : v \in Nat /\ v # NULL /\ v # RISU_MAGIC
<1>1. MEMBLOCKLEN \in Nat /\ MEMBLOCKLEN > 0
  BY SizesAssumption
<1>. QED  BY <1>1, ValuesAssumption DEF NULL

\* The cells of a stream that is appended to.
LEMMA Appended ==
  ASSUME NEW a \in Seq(Cell), NEW b \in Seq(Cell)
  PROVE  /\ a \o b \in Seq(Cell) /\ Len(a \o b) = Len(a) + Len(b)
         /\ \A j \in 1 .. Len(a) : (a \o b)[j] = a[j]
         /\ \A k \in 1 .. Len(b) : (a \o b)[Len(a) + k] = b[k]
         /\ Len(a) \in Nat /\ Len(b) \in Nat
<1>1. a \o b \in Seq(Cell) /\ Len(a \o b) = Len(a) + Len(b) /\ Len(a) \in Nat /\ Len(b) \in Nat
  OBVIOUS
<1>2. \A j \in 1 .. Len(a) : (a \o b)[j] = a[j]
  BY <1>1
<1>3. ASSUME NEW k \in 1 .. Len(b)  PROVE (a \o b)[Len(a) + k] = b[k]
  BY <1>1
<1>. QED  BY Zenon, <1>1, <1>2, <1>3

LEMMA SameCells ==
  ASSUME NEW S, NEW a \in Seq(S), NEW b \in Seq(S),
         Len(a) = Len(b), \A i \in 1 .. Len(a) : a[i] = b[i]
  PROVE  a = b
OBVIOUS

LEMMA Reordered ==
  ASSUME NEW a \in Seq(Cell), NEW b \in Seq(Cell), NEW c \in Seq(Cell)
  PROVE  (a \o b) \o c = a \o (b \o c)
<1>. DEFINE x == (a \o b) \o c  y == a \o (b \o c)
<1>1. x \in Seq(Cell) /\ y \in Seq(Cell) /\ Len(x) = Len(y) /\ Len(x) = Len(a) + Len(b) + Len(c)
      /\ Len(a) \in Nat /\ Len(b) \in Nat /\ Len(c) \in Nat
  OBVIOUS
<1>2. ASSUME NEW j \in 1 .. Len(x)  PROVE x[j] = y[j]
  <2>1. CASE j <= Len(a)
    BY <2>1, <1>1
  <2>2. CASE Len(a) < j /\ j <= Len(a) + Len(b)
    BY <2>2, <1>1
  <2>3. CASE Len(a) + Len(b) < j
    BY <2>3, <1>1
  <2>. QED  BY <2>1, <2>2, <2>3, <1>1
<1>. HIDE DEF x, y
<1>3. x = y
  BY Zenon, <1>1, <1>2, SameCells
<1>. QED  BY Zenon, <1>3 DEF x, y

\* read_buffer returns the next cells of the file, at most as many as asked
\* for; from a file fewer only at its end.
LEMMA Reads ==
  ASSUME Types, NEW n \in Nat, NEW b \in read_buffer(n)
  PROVE  /\ b \in Seq(Cell) /\ Len(b) <= n /\ off + Len(b) <= Len(file)
         /\ \A k \in 1 .. Len(b) : b[k] = file[off + k]
         /\ ~pipe /\ Len(b) # n => off + Len(b) = Len(file)
<1>1. file \in Seq(Cell) /\ off \in Nat /\ off <= Len(file) /\ Len(file) \in Nat
  BY DEF Types, MachineTypes
<1>. DEFINE rest == SubSeq(file, off + 1, Len(file))
<1>2. /\ rest \in Seq(Cell) /\ Len(rest) = Len(file) - off
      /\ \A k \in 1 .. Len(rest) : rest[k] = file[off + k]
  BY <1>1, SMTT(30)
<1>3. \E m \in 0 .. Len(rest) : /\ b = SubSeq(rest, 1, m) /\ m <= n
                                /\ ~pipe /\ m # n => m = Len(rest)
  <2>1. CASE ~pipe
    <3>. DEFINE m == IF n < Len(rest) THEN n ELSE Len(rest)
    <3>1. b = SubSeq(rest, 1, m)
      BY Zenon, <2>1 DEF read_buffer
    <3>. HIDE DEF rest
    <3>2. m \in 0 .. Len(rest) /\ m <= n /\ (m # n => m = Len(rest))
      BY <1>1, <1>2
    <3>. HIDE DEF m
    <3>. QED  BY Zenon, <3>1, <3>2
  <2>2. CASE pipe /\ rest = <<>>
    <3>1. b = <<>>
      BY Zenon, <2>2 DEF read_buffer
    <3>2. b = SubSeq(rest, 1, 0)
      BY <3>1, <2>2, <1>2
    <3>. QED  BY <3>2, <2>2, <1>2
  <2>3. CASE pipe /\ rest # <<>>
    <3>1. PICK m \in 1 .. IF n < Len(rest) THEN n ELSE Len(rest) :
                 b = SubSeq(rest, 1, m)
      BY Zenon, <2>3 DEF read_buffer
    <3>. QED  BY <3>1, <1>1, <1>2, <2>3
  <2>. QED  BY Zenon, <2>1, <2>2, <2>3
<1>4. PICK m \in 0 .. Len(rest) : /\ b = SubSeq(rest, 1, m) /\ m <= n
                                  /\ ~pipe /\ m # n => m = Len(rest)
  BY Zenon, <1>3
<1>. HIDE DEF rest
<1>5. /\ b \in Seq(Cell) /\ Len(b) = m
      /\ \A k \in 1 .. Len(b) : b[k] = rest[k]
  BY <1>4, <1>2, <1>1, SMTT(30)
<1>6. \A k \in 1 .. Len(b) : b[k] = file[off + k]
  BY <1>5, <1>4, <1>2, <1>1
<1>. QED  BY <1>1, <1>2, <1>4, <1>5, <1>6

\* The operation a process is at is one of risu's.
LEMMA OpTyped ==
  ASSUME Types, NEW s \in Side
  PROVE  op(s) \in Ops /\ Met(s) \in Cp
<1>1. op(s) \in Ops
  BY DEF Types, MachineTypes, op
<1>2. reg[s] \in Vals \cup {NULL} /\ mem[s] \in Vals /\ is_setup[s] \in BOOLEAN
  BY Zenon DEF Types, MachineTypes
<1>. QED  BY Zenon, <1>1, <1>2 DEF Met, Cp, Ops

\* The length of a message, with and without its header.
LEMMA MsgLenTyped ==
  ASSUME Types, NEW c \in Cp
  PROVE  MsgLen(c) \in Nat /\ MsgLen(c) >= HeaderSize /\ PayloadSize(c.op) \in Nat
<1>1. regsize[MASTER] \in Nat /\ MEMBLOCKLEN \in Nat
  BY Zenon, SizesAssumption DEF Types, MachineTypes, Side
<1>. QED  BY <1>1 DEF MsgLen, PayloadSize, HeaderSize

\* What send_register_info hands to write_buffer is the message of the
\* checkpoint it is at.
LEMMA MessageWritten ==
  ASSUME Types
  PROVE  LET h == Header(op(MASTER), PayloadSize(op(MASTER)))
             c == Met(MASTER)
         IN /\ h \in Seq(Cell) /\ Len(h) = HeaderSize
            /\ Payload \in Seq(Cell)
            /\ Len(h) + Len(Payload) = MsgLen(c)
            /\ \A k \in 1 .. HeaderSize : h[k] = MsgCell(c, k)
            /\ \A k \in 1 .. Len(Payload) : Payload[k] = MsgCell(c, HeaderSize + k)
<1>. DEFINE o == op(MASTER)
            h == Header(o, PayloadSize(o))
            c == Met(MASTER)
<1>1. /\ o \in Ops /\ o \in Int /\ regsize[MASTER] \in Nat /\ MEMBLOCKLEN \in Nat
      /\ reg[MASTER] \in Int /\ mem[MASTER] \in Int /\ mem[MASTER] # NULL
  <2>1. o \in Ops
    BY Zenon, OpTyped DEF Side
  <2>2. o \in Int
    BY <2>1
       DEF Ops, RegOps, ZeroOps, OP_COMPARE, OP_TESTEND, OP_SIGILL, OP_SETMEMBLOCK,
           OP_GETMEMBLOCK, OP_SETUPBEGIN, OP_SETUPEND, OP_COMPAREMEM
  <2>3. regsize[MASTER] \in Nat /\ reg[MASTER] \in Vals \cup {NULL} /\ mem[MASTER] \in Vals
    BY Zenon DEF Types, MachineTypes, Side
  <2>. QED  BY <2>1, <2>2, <2>3, Constants DEF NULL
<1>2. /\ c.op = o
      /\ c.data = IF o \in RegOps THEN reg[MASTER]
                  ELSE IF o = OP_COMPAREMEM /\ memblock[MASTER] THEN mem[MASTER]
                  ELSE NULL
  BY Zenon DEF Met
<1>3. PayloadSize(o) \in Nat
  BY Zenon, <1>1 DEF PayloadSize
<1>. HIDE DEF o, c
<1>4. h \in Seq(Cell) /\ Len(h) = 3 /\ h[1] = RISU_MAGIC /\ h[2] = PayloadSize(o) /\ h[3] = o
  BY <1>1, <1>3 DEF Header, Cell
<1>5. \A k \in 1 .. HeaderSize : h[k] = MsgCell(c, k)
  BY <1>4, <1>2 DEF MsgCell, HeaderSize
<1>6. OP_COMPAREMEM \notin RegOps
  BY DEF RegOps, OP_COMPARE, OP_TESTEND, OP_SIGILL, OP_COMPAREMEM
<1>7. /\ Payload \in Seq(Cell) /\ Len(h) + Len(Payload) = MsgLen(c)
      /\ \A k \in 1 .. Len(Payload) : Payload[k] = MsgCell(c, HeaderSize + k)
  <2>1. CASE o \in RegOps
    <3>1. Payload = [i \in 1 .. regsize[MASTER] |-> IF i = 1 THEN reg[MASTER] ELSE 0]
      BY Zenon, <2>1 DEF Payload, reginfo, o
    <3>2. Payload \in Seq(Cell) /\ Len(Payload) = regsize[MASTER]
      BY <3>1, <1>1 DEF Cell
    <3>3. \A k \in 1 .. Len(Payload) : Payload[k] = IF k = 1 THEN reg[MASTER] ELSE 0
      BY Zenon, <3>1, <3>2
    <3>. QED  BY <3>2, <3>3, <2>1, <1>2, <1>4, <1>1, <1>6 DEF MsgLen, MsgCell, HeaderSize
  <2>2. CASE o = OP_COMPAREMEM /\ memblock[MASTER]
    <3>1. Payload = [i \in 1 .. MEMBLOCKLEN |-> mem[MASTER]]
      BY Zenon, <2>2, <1>6 DEF Payload, Block, o
    <3>2. Payload \in Seq(Cell) /\ Len(Payload) = MEMBLOCKLEN
      BY <3>1, <1>1 DEF Cell
    <3>3. \A k \in 1 .. Len(Payload) : Payload[k] = mem[MASTER]
      BY Zenon, <3>1, <3>2
    <3>. QED  BY <3>2, <3>3, <2>2, <1>2, <1>4, <1>1, <1>6 DEF MsgLen, MsgCell, HeaderSize
  <2>3. CASE o \notin RegOps /\ ~(o = OP_COMPAREMEM /\ memblock[MASTER])
    <3>1. Payload = <<>>
      BY Zenon, <2>3 DEF Payload, o
    <3>. QED  BY <3>1, <2>3, <1>2, <1>4 DEF MsgLen, HeaderSize
  <2>. QED  BY Zenon, <2>1, <2>2, <2>3
<1>. QED  BY Zenon, <1>4, <1>5, <1>7 DEF o, c, HeaderSize

\* What was written is what is in the file, then what has not left yet.
LEMMA WrittenIs ==
  ASSUME Types
  PROVE  /\ Written \in Seq(Cell) /\ Len(Written) = Len(file) + Len(out)
         /\ \A j \in 1 .. Len(file) : Written[j] = file[j]
         /\ \A j \in 1 .. Len(out) : Written[Len(file) + j] = out[j]
         /\ Len(file) \in Nat /\ Len(out) \in Nat
<1>1. file \in Seq(Cell) /\ out \in Seq(Cell)
  BY Zenon DEF Types, MachineTypes
<1>. QED  BY Zenon, <1>1, Appended DEF Written

LEMMA InFile ==
  ASSUME Types, NEW m \in Nat, NEW b, off + m <= Len(file),
         \A k \in 1 .. m : b[k] = file[off + k]
  PROVE  off + m <= Len(Written) /\ \A k \in 1 .. m : b[k] = Written[off + k]
<1>1. off \in Nat /\ Len(file) \in Nat /\ Len(out) \in Nat
  BY WrittenIs DEF Types, MachineTypes
<1>2. off + m <= Len(Written)
  BY <1>1, WrittenIs
<1>3. ASSUME NEW k \in 1 .. m  PROVE b[k] = Written[off + k]
  <2>1. off + k \in 1 .. Len(file)
    BY <1>1
  <2>2. Written[off + k] = file[off + k]
    BY <2>1, WrittenIs, Zenon
  <2>. QED  BY Zenon, <2>2
<1>. QED  BY Zenon, <1>2, <1>3

\* A whole header that is read is the header of the next message.
LEMMA HeaderRead ==
  ASSUME Types, NEW pos, StreamInv(pos), ReaderInv(pos), st[APPRENTICE] = "header",
         NEW b \in read_buffer(HeaderSize), Len(b) = HeaderSize
  PROVE  /\ accepted < Len(log[MASTER])
         /\ b = Header(log[MASTER][accepted + 1].op,
                       PayloadSize(log[MASTER][accepted + 1].op))
<1>. DEFINE l == log[MASTER]  a == accepted  r == l[a + 1]
<1>1. a \in Nat /\ l \in Seq(Cp) /\ Len(l) \in Nat /\ off \in Nat
  BY DEF Types, MachineTypes, Side
<1>2. a <= Len(l) /\ off = pos[a]
  BY Zenon DEF ReaderInv
<1>3. /\ b \in Seq(Cell) /\ off + 3 <= Len(file)
      /\ \A k \in 1 .. 3 : b[k] = file[off + k]
  BY Zenon, Reads, <1>1 DEF HeaderSize
<1>4. off + 3 <= Len(Written) /\ \A k \in 1 .. 3 : b[k] = Written[off + k]
  BY Zenon, <1>3, InFile
<1>5. a < Len(l)
  <2>1. Len(Written) <= pos[Len(l)] /\ Len(Written) \in Nat
    BY WrittenIs DEF StreamInv
  <2>. QED  BY <2>1, <1>1, <1>2, <1>4
<1>6. a + 1 \in 1 .. Len(l) /\ (a + 1) - 1 = a /\ r \in Cp
  BY <1>1, <1>5
<1>7. \A k \in 1 .. MsgLen(r) : pos[a] + k <= Len(Written) => Written[pos[a] + k] = MsgCell(r, k)
  BY Zenon, <1>6 DEF StreamInv
<1>8. MsgLen(r) \in Nat /\ MsgLen(r) >= 3 /\ PayloadSize(r.op) \in Nat
  BY Zenon, <1>6, MsgLenTyped DEF HeaderSize
<1>. HIDE DEF l, a, r
<1>9. \A k \in 1 .. 3 : b[k] = MsgCell(r, k)
  <2>. SUFFICES ASSUME NEW k \in 1 .. 3 PROVE b[k] = MsgCell(r, k)
    BY Zenon
  <2>1. k \in 1 .. MsgLen(r) /\ pos[a] + k <= Len(Written)
    <3>1. /\ MsgLen(r) \in Nat /\ MsgLen(r) >= 3 /\ off + 3 <= Len(Written)
          /\ off = pos[a] /\ off \in Nat /\ Len(Written) \in Nat
      BY <1>8, <1>4, <1>2, <1>1, WrittenIs
    <3>. QED  BY <3>1
  <2>. QED  BY Zenon, <2>1, <1>7, <1>4, <1>2
<1>10. b[1] = RISU_MAGIC /\ b[2] = PayloadSize(r.op) /\ b[3] = r.op
  BY <1>9 DEF MsgCell
<1>11. b = <<b[1], b[2], b[3]>>
  BY <1>3 DEF HeaderSize
<1>. QED  BY Zenon, <1>5, <1>10, <1>11 DEF l, a, r, Header

\* What the payload read behind the header of message r holds: the registers,
\* or the block.  Behind the header of a COMPAREMEM whose block was missing
\* comes the next message, and that begins with the magic.
Carries(p, r) ==
  /\ r.op \in RegOps => p[1] = r.data
  /\ r.op = OP_COMPAREMEM =>
       /\ p \in Seq(Cell) /\ Len(p) = MEMBLOCKLEN
       /\ \/ r.data # NULL /\ \A k \in 1 .. MEMBLOCKLEN : p[k] = r.data
          \/ r.data = NULL /\ p[1] = RISU_MAGIC

LEMMA PayloadRead ==
  ASSUME Types, NEW pos, StreamInv(pos), ReaderInv(pos), st[APPRENTICE] = "payload",
         NEW b \in read_buffer(header[2]), Len(b) = header[2]
  PROVE  Carries(b, log[MASTER][accepted + 1])
<1>. DEFINE l == log[MASTER]  a == accepted  r == l[a + 1]
<1>1. a \in Nat /\ l \in Seq(Cp) /\ Len(l) \in Nat /\ off \in Nat
  BY DEF Types, MachineTypes, Side
<1>2. /\ a < Len(l) /\ off = pos[a] + 3
      /\ header = Header(r.op, PayloadSize(r.op)) /\ header[2] > 0
  BY Zenon DEF ReaderInv, HeaderSize
<1>3. header[2] = PayloadSize(r.op)
  BY Zenon, <1>2 DEF Header
<1>4. a + 1 \in 1 .. Len(l) /\ (a + 1) - 1 = a /\ r \in Cp
  BY <1>1, <1>2
<1>5. /\ MsgLen(r) \in Nat /\ MsgLen(r) >= 3 /\ PayloadSize(r.op) \in Nat
  BY Zenon, <1>4, MsgLenTyped DEF HeaderSize
<1>6. /\ b \in Seq(Cell) /\ off + Len(b) <= Len(file)
      /\ \A k \in 1 .. Len(b) : b[k] = file[off + k]
  BY Zenon, Reads, <1>3, <1>5
<1>7. /\ off + Len(b) <= Len(Written)
      /\ \A k \in 1 .. Len(b) : b[k] = Written[off + k]
  <2>1. Len(b) \in Nat
    BY Zenon, <1>3, <1>5
  <2>. QED  BY Zenon, <2>1, <1>6, InFile
<1>8. /\ \A k \in 1 .. MsgLen(r) :
           pos[a] + k <= Len(Written) => Written[pos[a] + k] = MsgCell(r, k)
      /\ pos[a + 1] = pos[a] + MsgLen(r) /\ pos[a] \in Nat /\ pos[a + 1] \in Nat
  <2>1. pos \in [0 .. Len(l) -> Nat] /\ a \in 0 .. Len(l) /\ a + 1 \in 0 .. Len(l)
    BY <1>1, <1>2 DEF StreamInv
  <2>2. pos[a] \in Nat /\ pos[a + 1] \in Nat
    BY Zenon, <2>1
  <2>3. pos[a + 1] = pos[a] + MsgLen(r)
    BY Zenon, <1>4 DEF StreamInv
  <2>4. \A k \in 1 .. MsgLen(r) :
          pos[a] + k <= Len(Written) => Written[pos[a] + k] = MsgCell(r, k)
    BY Zenon, <1>4 DEF StreamInv
  <2>. QED  BY Zenon, <2>2, <2>3, <2>4
<1>9. Len(Written) <= pos[Len(l)] /\ Len(Written) \in Nat
  BY WrittenIs DEF StreamInv
<1>10. Len(b) \in Nat /\ Len(b) > 0 /\ Len(b) = PayloadSize(r.op)
  BY Zenon, <1>2, <1>3, <1>5
<1>11. ASSUME a + 1 < Len(l)
       PROVE  pos[a + 1] + 1 <= Len(Written) => Written[pos[a + 1] + 1] = RISU_MAGIC
  <2>1. a + 2 \in 1 .. Len(l) /\ (a + 2) - 1 = a + 1 /\ l[a + 2] \in Cp
    BY <1>11, <1>1
  <2>2. 1 \in 1 .. MsgLen(l[a + 2])
    BY <2>1, MsgLenTyped DEF HeaderSize
  <2>3. pos[a + 1] + 1 <= Len(Written) => Written[pos[a + 1] + 1] = MsgCell(l[a + 2], 1)
    BY Zenon, <2>1, <2>2 DEF StreamInv
  <2>. QED  BY Zenon, <2>3 DEF MsgCell
<1>. HIDE DEF l, a, r
<1>12. ASSUME MsgLen(r) = 3 + Len(b), NEW k \in 1 .. Len(b)
       PROVE  b[k] = MsgCell(r, 3 + k)
  <2>1. 3 + k \in 1 .. MsgLen(r) /\ pos[a] + (3 + k) <= Len(Written)
        /\ pos[a] + (3 + k) = off + k
    <3>1. /\ off + Len(b) <= Len(Written) /\ off = pos[a] + 3
          /\ pos[a] \in Nat /\ Len(Written) \in Nat /\ Len(b) \in Nat
      BY Zenon, <1>2, <1>7, <1>8, <1>9, <1>10
    <3>2. k \in Nat /\ 1 <= k /\ k <= Len(b)
      BY <3>1
    <3>3. 3 + k \in 1 .. MsgLen(r)
      BY <3>1, <3>2, <1>12
    <3>4. pos[a] + (3 + k) <= Len(Written) /\ pos[a] + (3 + k) = off + k
      BY SMTT(30), <3>1, <3>2
    <3>. QED  BY Zenon, <3>3, <3>4
  <2>2. Written[off + k] = MsgCell(r, 3 + k)
    BY Zenon, <2>1, <1>8
  <2>. QED  BY Zenon, <2>2, <1>7, <1>12
<1>13. OP_COMPAREMEM \notin RegOps
  BY DEF RegOps, OP_COMPARE, OP_TESTEND, OP_SIGILL, OP_COMPAREMEM
<1>14. r.op \in RegOps => b[1] = r.data
  <2>. HAVE r.op \in RegOps
  <2>1. MsgLen(r) = 3 + Len(b)
    BY Zenon, <1>10 DEF MsgLen, PayloadSize, HeaderSize
  <2>2. b[1] = MsgCell(r, 3 + 1)
    BY <2>1, <1>12, <1>10
  <2>. QED  BY <2>2 DEF MsgCell
<1>15. r.op = OP_COMPAREMEM =>
         /\ Len(b) = MEMBLOCKLEN
         /\ \/ r.data # NULL /\ \A k \in 1 .. MEMBLOCKLEN : b[k] = r.data
            \/ r.data = NULL /\ b[1] = RISU_MAGIC
  <2>. HAVE r.op = OP_COMPAREMEM
  <2>1. Len(b) = MEMBLOCKLEN
    BY Zenon, <1>10, <1>13 DEF PayloadSize
  <2>2. CASE r.data # NULL
    <3>1. MsgLen(r) = 3 + Len(b)
      BY Zenon, <2>1, <2>2, <1>13 DEF MsgLen, HeaderSize
    <3>2. \A k \in 1 .. Len(b) : b[k] = MsgCell(r, 3 + k)
      BY Zenon, <3>1, <1>12
    <3>3. \A k \in 1 .. Len(b) : MsgCell(r, 3 + k) = r.data
      BY <1>10 DEF MsgCell
    <3>. QED  BY Zenon, <3>2, <3>3, <2>1, <2>2
  <2>3. CASE r.data = NULL
    <3>1. MsgLen(r) = 3
      BY <2>3, <1>13 DEF MsgLen, HeaderSize
    <3>2. off = pos[a + 1] /\ off + 1 <= Len(Written) /\ b[1] = Written[off + 1]
      BY SMTT(30), <3>1, <1>2, <1>7, <1>8, <1>9, <1>10, <1>1 DEF a
    <3>3. a + 1 < Len(l)
      <4>1. a \in Nat /\ Len(l) \in Nat /\ a < Len(l) /\ pos[a + 1] \in Nat
        BY Zenon, <1>1, <1>2, <1>8 DEF a, l
      <4>2. pos[a + 1] < pos[Len(l)] \/ ~(pos[Len(l)] \in Nat)
        BY <3>2, <4>1, <1>9
      <4>3. pos[Len(l)] \in Nat
        <5>1. pos \in [0 .. Len(l) -> Nat]
          BY Zenon DEF StreamInv, l
        <5>. QED  BY <5>1, <4>1
      <4>4. a + 1 # Len(l)
        BY <4>1, <4>2, <4>3
      <4>. QED  BY <4>1, <4>4
    <3>. QED  BY Zenon, <3>2, <3>3, <1>11, <2>1, <2>3
  <2>. QED  BY Zenon, <2>2, <2>3
<1>. QED  BY Zenon, <1>6, <1>14, <1>15 DEF Carries, l, a, r

-----------------------------------------------------------------------------
(* What the apprentice makes of a message.                                 *)

\* What Conclude decides.
Verdict(h, p, r) ==
  IF r # "RES_OK" THEN r
  ELSE IF op(APPRENTICE) = h[3] /\ op(APPRENTICE) = OP_COMPAREMEM
            /\ ~memblock[APPRENTICE] THEN "killed"
  ELSE CompareResult(op(APPRENTICE), h, p)

LEMMA Concluded ==
  ASSUME NEW h, NEW p, NEW r, Conclude(h, p, r)
  PROVE  LET v == Verdict(h, p, r) IN
         /\ res' = [res EXCEPT ![APPRENTICE] = IF v = "RES_OK" THEN "none" ELSE v]
         /\ st' = [st EXCEPT ![APPRENTICE] = IF v = "RES_OK" THEN "image" ELSE "exit"]
         /\ accepted' = IF v \in {"RES_OK", "RES_END"} THEN accepted + 1 ELSE accepted
         /\ v = "RES_OK" =>
              /\ Effect(APPRENTICE)
              /\ reg' = IF op(APPRENTICE) = OP_COMPARE
                          THEN [reg EXCEPT ![APPRENTICE] = p[1]] ELSE reg
         /\ v # "RES_OK" => UNCHANGED machine
BY Zenon DEF Conclude, Verdict

Missing(r) == r.op = OP_COMPAREMEM /\ r.data = NULL

\* The comparison accepts message r only when the checkpoints agree, ends the
\* test only at its end, and refuses only when they disagree or the master had
\* no block to send.
LEMMA Judged ==
  ASSUME Types, NEW r \in Cp, NEW h, NEW p, h[3] = r.op, Carries(p, r),
         r.op \in ZeroOps => r.data = NULL
  PROVE  LET v == Verdict(h, p, "RES_OK")
             c == Met(APPRENTICE)
         IN /\ v \in {"RES_OK", "RES_END"} => CpAgree(r, c) /\ ~Missing(r)
            /\ v = "RES_END" => CpIsEnd(r)
            /\ v = "RES_OK" => ~CpIsEnd(r) /\ op(APPRENTICE) # OP_TESTEND
            /\ v \in {"RES_OK", "RES_END", "killed"} \/ Missing(r) \/ ~CpAgree(r, c)
            /\ v # "none" /\ v # "returned"
<1>. DEFINE o == op(APPRENTICE)  c == Met(APPRENTICE)  s == APPRENTICE
            v == Verdict(h, p, "RES_OK")
<1>1. o \in Ops /\ mem[s] \in Vals /\ is_setup[s] \in BOOLEAN /\ memblock[s] \in BOOLEAN
  BY Zenon, OpTyped DEF Types, MachineTypes, Side
<1>2. /\ c.op = o /\ c.setup = is_setup[s]
      /\ c.data = IF o \in RegOps THEN reg[s]
                  ELSE IF o = OP_COMPAREMEM /\ memblock[s] THEN mem[s]
                  ELSE NULL
  BY Zenon DEF Met
<1>3. /\ OP_COMPAREMEM \notin RegOps /\ OP_COMPAREMEM # OP_TESTEND
      /\ OP_TESTEND \in RegOps
      /\ \A x \in ZeroOps : x \notin RegOps /\ x # OP_TESTEND /\ x # OP_COMPAREMEM
  BY DEF RegOps, ZeroOps, OP_COMPARE, OP_TESTEND, OP_SIGILL, OP_COMPAREMEM, OP_SETMEMBLOCK,
         OP_GETMEMBLOCK, OP_SETUPBEGIN, OP_SETUPEND
<1>4. CpAgree(r, c) <=> r.op = o /\ ((is_setup[s] /\ o \in RegOps) \/ r.data = c.data)
  BY <1>2, Zenon DEF CpAgree
<1>5. CASE o \in RegOps
  <2>1. v = IF r.op \notin RegOps THEN "RES_MISMATCH_OP"
            ELSE IF ~is_setup[s] /\ p[1] # reg[s] THEN "RES_MISMATCH_REG"
            ELSE IF o # r.op THEN "RES_MISMATCH_OP"
            ELSE IF o = OP_TESTEND THEN "RES_END" ELSE "RES_OK"
    BY Zenon, <1>5, <1>3 DEF Verdict, CompareResult
  <2>2. c.data = reg[s] /\ (r.op \in RegOps => p[1] = r.data)
    BY Zenon, <1>2, <1>5 DEF Carries
  <2>. HIDE DEF v, c, o, s
  <2>3. /\ v \in {"RES_OK", "RES_END"} => CpAgree(r, c) /\ ~Missing(r)
        /\ v = "RES_END" => CpIsEnd(r)
        /\ v = "RES_OK" => ~CpIsEnd(r) /\ o # OP_TESTEND
        /\ v \in {"RES_OK", "RES_END", "killed"} \/ ~CpAgree(r, c)
        /\ v # "none" /\ v # "returned"
    BY Zenon, <2>1, <2>2, <1>4, <1>5, <1>1, <1>3 DEF CpIsEnd, Missing
  <2>. QED  BY Zenon, <2>3 DEF v, c, o
<1>6. CASE o = OP_COMPAREMEM
  <2>1. v = IF r.op = o /\ ~memblock[s] THEN "killed"
            ELSE IF o # r.op THEN "RES_MISMATCH_OP"
            ELSE IF p # Block(s) THEN "RES_MISMATCH_MEM" ELSE "RES_OK"
    BY Zenon, <1>6, <1>3 DEF Verdict, CompareResult
  <2>2. ASSUME r.op = o, memblock[s], ~Missing(r)
        PROVE  p = Block(s) <=> r.data = mem[s]
    <3>1. /\ p \in Seq(Cell) /\ Len(p) = MEMBLOCKLEN
          /\ \A k \in 1 .. MEMBLOCKLEN : p[k] = r.data
      BY Zenon, <2>2, <1>6 DEF Carries, Missing
    <3>2. Block(s) = [k \in 1 .. MEMBLOCKLEN |-> mem[s]]
      BY Zenon DEF Block
    <3>3. 1 \in 1 .. MEMBLOCKLEN
      BY Constants
    <3>4. r.data = mem[s] => p = Block(s)
      <4>1. DOMAIN p = 1 .. MEMBLOCKLEN /\ p = [k \in 1 .. MEMBLOCKLEN |-> p[k]]
        BY <3>1
      <4>. QED  BY Zenon, <4>1, <3>1, <3>2
    <3>5. p = Block(s) => r.data = mem[s]
      BY Zenon, <3>1, <3>2, <3>3
    <3>. QED  BY Zenon, <3>4, <3>5
  <2>3. ASSUME r.op = o, Missing(r)
        PROVE  p # Block(s)
    <3>1. p[1] = RISU_MAGIC
      BY Zenon, <2>3, <1>6 DEF Carries, Missing
    <3>2. Block(s)[1] = mem[s]
      BY Constants DEF Block
    <3>. QED  BY Zenon, <3>1, <3>2, <1>1, Constants
  <2>4. memblock[s] => c.data = mem[s]
    BY Zenon, <1>2, <1>3, <1>6
  <2>. HIDE DEF v, c, o, s
  <2>5. /\ v \in {"RES_OK", "RES_END"} => CpAgree(r, c) /\ ~Missing(r)
        /\ v \in {"RES_OK", "RES_END", "killed"} \/ Missing(r) \/ ~CpAgree(r, c)
    <3>1. CASE r.op = o /\ memblock[s] /\ ~Missing(r)
      BY Zenon, <3>1, <2>1, <2>2, <2>4, <1>4, <1>6, <1>3
    <3>2. CASE r.op = o /\ Missing(r)
      BY Zenon, <3>2, <2>1, <2>3
    <3>3. CASE r.op # o \/ ~memblock[s]
      BY Zenon, <3>3, <2>1, <1>4, <1>6 DEF Missing
    <3>. QED  BY Zenon, <3>1, <3>2, <3>3
  <2>6. v # "none" /\ v # "returned" /\ v # "RES_END"
    BY Zenon, <2>1
  <2>7. v = "RES_OK" => ~CpIsEnd(r) /\ o # OP_TESTEND
    BY Zenon, <2>1, <1>3, <1>6 DEF CpIsEnd
  <2>. QED  BY Zenon, <2>5, <2>6, <2>7 DEF v, c, o
<1>7. CASE o \in ZeroOps
  <2>1. v = IF o # r.op THEN "RES_MISMATCH_OP" ELSE "RES_OK"
    BY Zenon, <1>7, <1>3 DEF Verdict, CompareResult
  <2>2. c.data = NULL
    BY Zenon, <1>2, <1>3, <1>7
  <2>. HIDE DEF v, c, o, s
  <2>3. /\ v \in {"RES_OK", "RES_END"} => CpAgree(r, c) /\ ~Missing(r)
        /\ v = "RES_END" => CpIsEnd(r)
        /\ v = "RES_OK" => ~CpIsEnd(r) /\ o # OP_TESTEND
        /\ v \in {"RES_OK", "RES_END", "killed"} \/ ~CpAgree(r, c)
        /\ v # "none" /\ v # "returned"
    BY Zenon, <2>1, <2>2, <1>4, <1>7, <1>3 DEF CpIsEnd, Missing
  <2>. QED  BY Zenon, <2>3 DEF v, c, o
<1>. QED  BY Zenon, <1>1, <1>5, <1>6, <1>7 DEF Ops

-----------------------------------------------------------------------------
(* What each side leaves alone of the other's part of the invariant.       *)

\* A step that is not the apprentice's, and only adds to the master's log.
ApprenticeKept ==
  /\ UNCHANGED <<image, regsize, pipe, off, header, accepted>>
  /\ st'[APPRENTICE] = st[APPRENTICE] /\ res'[APPRENTICE] = res[APPRENTICE]
  /\ log'[APPRENTICE] = log[APPRENTICE]
  /\ pc'[APPRENTICE] = pc[APPRENTICE] /\ reg'[APPRENTICE] = reg[APPRENTICE]
  /\ mem'[APPRENTICE] = mem[APPRENTICE]
  /\ memblock'[APPRENTICE] = memblock[APPRENTICE]
  /\ is_setup'[APPRENTICE] = is_setup[APPRENTICE]

RecordGrows ==
  /\ st[MASTER] = "exit" => st'[MASTER] = "exit" /\ log'[MASTER] = log[MASTER]
  /\ lost => lost'
  /\ Len(log'[MASTER]) \in Nat /\ Len(log[MASTER]) <= Len(log'[MASTER])
  /\ \A i \in 1 .. Len(log[MASTER]) : log'[MASTER][i] = log[MASTER][i]

LEMMA ExcusedStays ==
  ASSUME Types, ApprenticeKept, RecordGrows, Excused
  PROVE  Excused'
<1>1. Len(log[MASTER]) \in Nat /\ Len(log[APPRENTICE]) \in Nat
  BY DEF Types, MachineTypes, Side
<1>2. CASE regsize[MASTER] # regsize[APPRENTICE] \/ lost \/ (pipe /\ res[APPRENTICE] = "RES_BAD_IO")
  BY Zenon, <1>2 DEF ApprenticeKept, RecordGrows, Excused
<1>3. CASE st[MASTER] = "exit" /\ Len(log[APPRENTICE]) > Len(log[MASTER])
  BY Zenon, <1>3 DEF ApprenticeKept, RecordGrows, Excused
<1>4. CASE \E i \in 1 .. Len(log[MASTER]) :
             log[MASTER][i].op = OP_COMPAREMEM /\ log[MASTER][i].data = NULL
  <2>1. PICK i \in 1 .. Len(log[MASTER]) :
               log[MASTER][i].op = OP_COMPAREMEM /\ log[MASTER][i].data = NULL
    BY Zenon, <1>4
  <2>2. i \in 1 .. Len(log'[MASTER]) /\ log'[MASTER][i] = log[MASTER][i]
    BY <1>1 DEF RecordGrows
  <2>3. log'[MASTER][i].op = OP_COMPAREMEM /\ log'[MASTER][i].data = NULL
    BY Zenon, <2>1, <2>2
  <2>. QED  BY Zenon, <2>2, <2>3 DEF Excused
<1>5. CASE /\ Len(log[APPRENTICE]) \in 1 .. Len(log[MASTER])
           /\ ~CpAgree(log[MASTER][Len(log[APPRENTICE])],
                       log[APPRENTICE][Len(log[APPRENTICE])])
  <2>. DEFINE k == Len(log[APPRENTICE])
  <2>1. k \in 1 .. Len(log'[MASTER]) /\ log'[MASTER][k] = log[MASTER][k]
    BY <1>1, <1>5 DEF RecordGrows
  <2>2. log'[APPRENTICE] = log[APPRENTICE]
    BY Zenon DEF ApprenticeKept
  <2>3. ~CpAgree(log'[MASTER][k], log'[APPRENTICE][k])
    BY Zenon, <1>5, <2>1, <2>2
  <2>4. k \in 1 .. Len(log'[MASTER]) /\ k = Len(log'[APPRENTICE])
    BY Zenon, <2>1, <2>2
  <2>. QED  BY Zenon, <2>3, <2>4 DEF Excused, CpAgree
<1>. QED  BY Zenon, <1>2, <1>3, <1>4, <1>5 DEF Excused

LEMMA ReaderKept ==
  ASSUME Types, NEW pos, NEW pos2, ReaderInv(pos), ApprenticeKept, RecordGrows,
         \A i \in 0 .. Len(log[MASTER]) : pos2[i] = pos[i]
  PROVE  ReaderInv(pos2)'
<1>0. /\ accepted' = accepted /\ off' = off /\ header' = header /\ pipe' = pipe
      /\ regsize' = regsize /\ log'[APPRENTICE] = log[APPRENTICE]
      /\ st'[APPRENTICE] = st[APPRENTICE] /\ res'[APPRENTICE] = res[APPRENTICE]
  BY Zenon DEF ApprenticeKept
<1>1. /\ accepted \in Nat /\ accepted <= Len(log[MASTER]) /\ Len(log[MASTER]) \in Nat
      /\ accepted <= Len(log[APPRENTICE])
  BY DEF Types, MachineTypes, Side, ReaderInv
<1>2. pos2[accepted] = pos[accepted]
  BY <1>1
<1>3. accepted' = accepted /\ accepted' <= Len(log'[MASTER])
  BY <1>0, <1>1 DEF RecordGrows
<1>4. Met(APPRENTICE)' = Met(APPRENTICE)
  BY Zenon DEF Met, op, ApprenticeKept
<1>5. accepted < Len(log[MASTER]) => /\ accepted < Len(log'[MASTER])
                                     /\ log'[MASTER][accepted + 1] = log[MASTER][accepted + 1]
  <2>. HAVE accepted < Len(log[MASTER])
  <2>1. accepted + 1 \in 1 .. Len(log[MASTER])
    BY <1>1
  <2>2. log'[MASTER][accepted + 1] = log[MASTER][accepted + 1]
    BY Zenon, <2>1 DEF RecordGrows
  <2>3. Len(log'[MASTER]) \in Nat /\ Len(log[MASTER]) <= Len(log'[MASTER])
    BY Zenon DEF RecordGrows
  <2>. QED  BY <2>2, <2>3, <1>1
<1>7. header' = header /\ HeaderResult(header)' = HeaderResult(header)
  BY Zenon, <1>0 DEF HeaderResult
<1>9. res[APPRENTICE] \notin {"none", "RES_END", "killed", "returned"} => Excused'
  BY Zenon, ExcusedStays DEF ReaderInv
<1>10. /\ accepted' <= Len(log'[MASTER]) /\ accepted' <= Len(log'[APPRENTICE])
       /\ st'[APPRENTICE] \in {"image", "header", "payload", "exit"}
       /\ st'[APPRENTICE] = "exit" <=> res'[APPRENTICE] # "none"
       /\ st'[APPRENTICE] = "image" =>
            Len(log'[APPRENTICE]) = accepted' /\ off' = pos2[accepted']
       /\ st'[APPRENTICE] = "header" => off' = pos2[accepted']
  BY Zenon, <1>0, <1>1, <1>2, <1>3 DEF ReaderInv
<1>11. st'[APPRENTICE] \in {"header", "payload"} =>
         /\ Len(log'[APPRENTICE]) = accepted' + 1
         /\ log'[APPRENTICE][accepted' + 1] = Met(APPRENTICE)'
         /\ pipe' \/ st'[MASTER] = "exit"
  BY Zenon, <1>0, <1>4 DEF ReaderInv, RecordGrows
<1>12. st'[APPRENTICE] = "payload" =>
         /\ accepted' < Len(log'[MASTER]) /\ off' = pos2[accepted'] + HeaderSize
         /\ header' = Header(log[MASTER][accepted + 1].op,
                             PayloadSize(log[MASTER][accepted + 1].op))'
         /\ HeaderResult(header)' = "RES_OK" /\ header'[2] > 0
  <2>. HAVE st'[APPRENTICE] = "payload"
  <2>1. /\ accepted < Len(log[MASTER]) /\ off = pos[accepted] + HeaderSize
        /\ header = Header(log[MASTER][accepted + 1].op,
                           PayloadSize(log[MASTER][accepted + 1].op))
        /\ HeaderResult(header) = "RES_OK" /\ header[2] > 0
    BY Zenon, <1>0 DEF ReaderInv
  <2>2. PayloadSize(log[MASTER][accepted + 1].op)' = PayloadSize(log[MASTER][accepted + 1].op)
    BY Zenon, <2>1, <1>0, <1>5 DEF PayloadSize
  <2>3. (log[MASTER][accepted + 1].op)' = log[MASTER][accepted + 1].op
    BY Zenon, <2>1, <1>0, <1>5
  <2>4. header' = Header(log[MASTER][accepted + 1].op,
                         PayloadSize(log[MASTER][accepted + 1].op))'
    BY Zenon, <2>1, <2>2, <2>3, <1>0 DEF Header
  <2>. QED  BY Zenon, <2>1, <2>4, <1>0, <1>2, <1>5, <1>7
<1>. QED  BY Zenon, <1>0, <1>9, <1>10, <1>11, <1>12 DEF ReaderInv

\* The messages stay where they are when nothing is written, and when the end
\* of the stream is lost.
LEMMA StreamKept ==
  ASSUME Types, NEW pos, StreamInv(pos), log'[MASTER] = log[MASTER], regsize' = regsize,
         Len(Written') \in Nat, Len(Written') <= Len(Written),
         \A j \in 1 .. Len(Written') : Written'[j] = Written[j],
         lost' \/ (~lost /\ Len(Written') = Len(Written))
  PROVE  StreamInv(pos)'
<1>. DEFINE l == log[MASTER]
<1>1. l \in Seq(Cp) /\ Len(l) \in Nat /\ Len(Written) \in Nat
  BY WrittenIs DEF Types, MachineTypes, Side
<1>2. pos \in [0 .. Len(l) -> Nat] /\ pos[Len(l)] \in Nat
  BY <1>1 DEF StreamInv
<1>3. \A c : MsgLen(c)' = MsgLen(c)
  BY Zenon DEF MsgLen
<1>4. ASSUME NEW i \in 1 .. Len(l), NEW k \in 1 .. MsgLen(l[i]),
             pos[i - 1] + k <= Len(Written')
      PROVE  Written'[pos[i - 1] + k] = MsgCell(l[i], k)'
  <2>1. pos[i - 1] \in Nat /\ MsgLen(l[i]) \in Nat
    <3>. HIDE DEF l
    <3>1. i - 1 \in 0 .. Len(l)
      BY <1>1
    <3>2. l[i] \in Cp
      BY <1>1
    <3>. QED  BY Zenon, <1>2, <3>1, <3>2, MsgLenTyped
  <2>2. pos[i - 1] + k <= Len(Written) /\ pos[i - 1] + k \in 1 .. Len(Written')
    BY <2>1, <1>4, <1>1
  <2>3. Written[pos[i - 1] + k] = MsgCell(l[i], k)
    BY Zenon, <2>2 DEF StreamInv
  <2>4. MsgCell(l[i], k)' = MsgCell(l[i], k)
    BY Zenon DEF MsgCell, PayloadSize
  <2>. QED  BY Zenon, <2>2, <2>3, <2>4
<1>5. Len(Written') <= pos[Len(l)] /\ (~lost' => Len(Written') = pos[Len(l)])
  BY <1>1, <1>2 DEF StreamInv
<1>. QED  BY Zenon, <1>2, <1>3, <1>4, <1>5 DEF StreamInv

-----------------------------------------------------------------------------
(* The machine of a process stays one.                                     *)

LEMMA Advances ==
  ASSUME MachineTypes, NEW s \in Side, op(s) # OP_TESTEND, image' = image,
         pc' = [pc EXCEPT ![s] = @ + 1]
  PROVE  /\ pc' \in [Side -> Nat]
         /\ \A t \in Side : /\ image'[t] \in Seq(Ops)
                            /\ image'[t][Len(image'[t])] = OP_TESTEND
                            /\ pc'[t] \in 1 .. Len(image'[t])
<1>1. /\ pc \in [Side -> Nat] /\ pc[s] \in 1 .. Len(image[s]) /\ Len(image[s]) \in Nat
      /\ image[s][pc[s]] # OP_TESTEND /\ image[s][Len(image[s])] = OP_TESTEND
  BY DEF MachineTypes, op
<1>2. pc[s] + 1 \in 1 .. Len(image[s])
  BY <1>1
<1>3. pc' \in [Side -> Nat] /\ \A t \in Side : pc'[t] = IF t = s THEN pc[s] + 1 ELSE pc[t]
  BY <1>1
<1>. QED  BY Zenon, <1>2, <1>3 DEF MachineTypes

LEMMA EffectTyped ==
  ASSUME MachineTypes, NEW s \in Side, op(s) # OP_TESTEND, Effect(s),
         reg' \in [Side -> Vals \cup {NULL}]
  PROVE  MachineTypes'
<1>1. /\ pc' \in [Side -> Nat]
      /\ \A t \in Side : /\ image'[t] \in Seq(Ops)
                         /\ image'[t][Len(image'[t])] = OP_TESTEND
                         /\ pc'[t] \in 1 .. Len(image'[t])
  BY Zenon, Advances DEF Effect
<1>2. memblock' \in [Side -> BOOLEAN]
  BY Zenon DEF MachineTypes, Effect
<1>3. is_setup' \in [Side -> BOOLEAN]
  BY Zenon DEF MachineTypes, Effect
<1>4. regsize' = regsize /\ pipe' = pipe /\ mem' = mem
  BY Zenon DEF Effect
<1>. QED  BY Zenon, <1>1, <1>2, <1>3, <1>4 DEF MachineTypes

LEMMA ExecuteTyped ==
  ASSUME MachineTypes, NEW s \in Side, Execute(s) \/ SkipIllegal(s)
  PROVE  MachineTypes'
<1>1. op(s) # OP_TESTEND /\ image' = image /\ pc' = [pc EXCEPT ![s] = @ + 1]
  BY DEF Execute, SkipIllegal, OP_SIGILL, OP_TESTEND
<1>2. /\ pc' \in [Side -> Nat]
      /\ \A t \in Side : /\ image'[t] \in Seq(Ops)
                         /\ image'[t][Len(image'[t])] = OP_TESTEND
                         /\ pc'[t] \in 1 .. Len(image'[t])
  BY Zenon, <1>1, Advances
<1>3. reg' \in [Side -> Vals \cup {NULL}] /\ mem' \in [Side -> Vals]
  <2>1. reg \in [Side -> Vals \cup {NULL}] /\ mem \in [Side -> Vals]
    BY Zenon DEF MachineTypes
  <2>2. \/ \E v, w \in Vals : reg' = [reg EXCEPT ![s] = v] /\ mem' = [mem EXCEPT ![s] = w]
        \/ reg' = reg /\ mem' = mem
    BY Zenon DEF Execute, SkipIllegal
  <2>. QED  BY Zenon, <2>1, <2>2
<1>4. UNCHANGED <<regsize, pipe, memblock, is_setup>>
  BY Zenon DEF Execute, SkipIllegal
<1>. QED  BY Zenon, <1>2, <1>3, <1>4 DEF MachineTypes

LEMMA MachineKept ==
  ASSUME MachineTypes, UNCHANGED machine
  PROVE  MachineTypes'
BY Zenon DEF MachineTypes, machine

-----------------------------------------------------------------------------
(* The steps of the master.                                                *)

LEMMA InvAgain ==
  ASSUME NEW pos, Types', MasterInv', StreamInv(pos)', ReaderInv(pos)'
  PROVE  Inv'
<1>1. pos \in [0 .. Len(log'[MASTER]) -> Nat]
  BY Zenon DEF StreamInv
<1>. QED  BY Zenon, <1>1 DEF Inv

\* A step of the master that enters no checkpoint.
LEMMA MasterQuiet ==
  ASSUME Inv, Types', MasterInv', ApprenticeKept, log'[MASTER] = log[MASTER],
         st[MASTER] = "exit" => st'[MASTER] = "exit",
         Len(Written') <= Len(Written),
         \A j \in 1 .. Len(Written') : Written'[j] = Written[j],
         lost' \/ (~lost /\ Len(Written') = Len(Written))
  PROVE  Inv'
<1>1. PICK pos : StreamInv(pos) /\ ReaderInv(pos)
  BY Zenon DEF Inv
<1>2. Types
  BY Zenon DEF Inv
<1>3. Len(Written') \in Nat
  <2>1. file' \in Seq(Cell) /\ out' \in Seq(Cell)
    BY Zenon DEF Types
  <2>2. Written' = file' \o out'
    BY Zenon DEF Written
  <2>. QED  BY <2>1, <2>2
<1>4. StreamInv(pos)'
  <2>1. regsize' = regsize
    BY Zenon DEF ApprenticeKept
  <2>. QED  BY Zenon, <1>1, <1>2, <1>3, <2>1, StreamKept
<1>5. RecordGrows
  <2>1. Len(log[MASTER]) \in Nat
    BY <1>2 DEF Types, Side
  <2>. QED  BY <2>1 DEF RecordGrows
<1>6. ReaderInv(pos)'
  BY Zenon, <1>1, <1>2, <1>5, ReaderKept
<1>. QED  BY Zenon, <1>4, <1>6, InvAgain

\* EXCEPT at the master leaves the apprentice's entry.
LEMMA MasterAlone ==
  ASSUME NEW f, NEW v
  PROVE  [f EXCEPT ![MASTER] = v][APPRENTICE] = f[APPRENTICE]
BY DEF MASTER, APPRENTICE

LEMMA MasterExecutes ==
  ASSUME Inv, Execute(MASTER) \/ SkipIllegal(MASTER)
  PROVE  Inv'
<1>1. Types /\ MasterInv
  BY Zenon DEF Inv
<1>2. UNCHANGED <<image, regsize, pipe, memblock, is_setup, st, stream, header, res, log,
                  accepted, lost>>
  BY Zenon DEF Execute, SkipIllegal
<1>3. Types'
  <2>1. MachineTypes'
    BY Zenon, <1>1, ExecuteTyped DEF Types, Side
  <2>. QED  BY Zenon, <2>1, <1>1, <1>2 DEF Types, stream
<1>4. MasterInv'
  BY Zenon, <1>1, <1>2 DEF MasterInv, stream
<1>5. ApprenticeKept
  <2>1. pc'[APPRENTICE] = pc[APPRENTICE] /\ reg'[APPRENTICE] = reg[APPRENTICE]
        /\ mem'[APPRENTICE] = mem[APPRENTICE]
    BY Zenon, MasterAlone DEF Execute, SkipIllegal
  <2>. QED  BY Zenon, <2>1, <1>2 DEF ApprenticeKept, stream
<1>6. Written' = Written /\ lost' = lost
  BY Zenon, <1>2 DEF Written, stream
<1>7. lost' \/ (~lost /\ Len(Written') = Len(Written))
  BY Zenon, <1>6, <1>1 DEF Types
<1>8. Len(Written') <= Len(Written)
  BY <1>6, <1>1, WrittenIs
<1>. QED  BY Zenon, <1>2, <1>3, <1>4, <1>5, <1>6, <1>7, <1>8, MasterQuiet

\* A message that is written goes to the end of the stream.
LEMMA Sends ==
  ASSUME Inv, send_register_info
  PROVE  Inv'
<1>1. Types /\ MasterInv
  BY Zenon DEF Inv
<1>2. PICK pos : StreamInv(pos) /\ ReaderInv(pos)
  BY Zenon DEF Inv
<1>3. PICK c : c = Met(MASTER)
  BY Zenon
<1>. DEFINE l == log[MASTER]  n == Len(l)
            h == Header(op(MASTER), PayloadSize(op(MASTER)))
<1>4. /\ st[MASTER] = "image" /\ log' = [log EXCEPT ![MASTER] = Append(l, c)]
  BY Zenon, <1>3 DEF send_register_info, Enters, Runs, Met
<1>5. out' = (out \o h) \o Payload /\ file' = file
  BY Zenon DEF send_register_info
<1>6. UNCHANGED <<image, regsize, pipe, mem, off, header, accepted, lost>> /\ ~lost
  BY Zenon, <1>1, <1>4 DEF send_register_info, Effect, machine, MasterInv
<1>7. c \in Cp /\ l \in Seq(Cp) /\ n \in Nat /\ MsgLen(c) \in Nat /\ MsgLen(c) >= HeaderSize
  BY <1>1, <1>3, OpTyped, MsgLenTyped DEF Types, Side
<1>8. /\ log'[MASTER] = Append(l, c) /\ log'[APPRENTICE] = log[APPRENTICE]
      /\ log' \in [Side -> Seq(Cp)]
  BY <1>1, <1>4, <1>7 DEF Types, Side, MASTER, APPRENTICE
<1>9. /\ Len(log'[MASTER]) = n + 1 /\ log'[MASTER][n + 1] = c
      /\ \A i \in 1 .. n : log'[MASTER][i] = l[i]
  BY <1>7, <1>8
<1>10. /\ h \in Seq(Cell) /\ Len(h) = HeaderSize
       /\ Payload \in Seq(Cell)
       /\ Len(h) + Len(Payload) = MsgLen(c)
       /\ \A k \in 1 .. HeaderSize : h[k] = MsgCell(c, k)
       /\ \A k \in 1 .. Len(Payload) : Payload[k] = MsgCell(c, HeaderSize + k)
  BY Zenon, <1>1, <1>3, MessageWritten
<1>. HIDE DEF h, l, n
<1>11. out' \in Seq(Cell)
  BY <1>1, <1>5, <1>10 DEF Types
<1>12. /\ Len(Written') = Len(Written) + MsgLen(c)
       /\ \A j \in 1 .. Len(Written) : Written'[j] = Written[j]
       /\ \A k \in 1 .. MsgLen(c) : Written'[Len(Written) + k] = MsgCell(c, k)
       /\ Len(Written) \in Nat
  <2>1. Written \in Seq(Cell) /\ Len(Written) \in Nat
    BY <1>1, WrittenIs
  <2>2. Written' = (Written \o h) \o Payload
    <3>1. file \in Seq(Cell) /\ out \in Seq(Cell)
      BY Zenon, <1>1 DEF Types
    <3>2. Written' = file \o ((out \o h) \o Payload)
      BY Zenon, <1>5 DEF Written
    <3>3. h \in Seq(Cell) /\ Payload \in Seq(Cell) /\ out \o h \in Seq(Cell)
      BY Zenon, <3>1, <1>10, Appended
    <3>4. file \o ((out \o h) \o Payload) = (file \o (out \o h)) \o Payload
      BY ZenonT(30), <3>1, <3>3, Reordered
    <3>5. file \o (out \o h) = (file \o out) \o h
      BY Zenon, <3>1, <3>3, Reordered
    <3>. QED  BY Zenon, <3>2, <3>4, <3>5 DEF Written
  <2>. DEFINE w == Written
  <2>3. w \o h \in Seq(Cell) /\ Len(w \o h) = Len(w) + 3
        /\ (\A j \in 1 .. Len(w) : (w \o h)[j] = w[j])
        /\ (\A k \in 1 .. 3 : (w \o h)[Len(w) + k] = h[k])
    <3>. HIDE DEF w
    <3>1. w \in Seq(Cell) /\ h \in Seq(Cell) /\ Len(h) = 3
      BY Zenon, <2>1, <1>10 DEF w, HeaderSize
    <3>2. /\ w \o h \in Seq(Cell) /\ Len(w \o h) = Len(w) + Len(h)
          /\ \A j \in 1 .. Len(w) : (w \o h)[j] = w[j]
          /\ \A k \in 1 .. Len(h) : (w \o h)[Len(w) + k] = h[k]
      BY Zenon, <3>1, Appended
    <3>. QED  BY Zenon, <3>1, <3>2
  <2>. DEFINE u == w \o h
  <2>4. Len(u \o Payload) = Len(u) + Len(Payload)
        /\ (\A j \in 1 .. Len(u) : (u \o Payload)[j] = u[j])
        /\ (\A k \in 1 .. Len(Payload) : (u \o Payload)[Len(u) + k] = Payload[k])
    <3>. HIDE DEF u
    <3>1. u \in Seq(Cell)
      BY Zenon, <2>3 DEF u
    <3>. QED  BY Zenon, <3>1, <1>10, Appended
  <2>5. Written' = u \o Payload
    BY Zenon, <2>2
  <2>6. Len(u) = Len(w) + 3 /\ Len(Payload) \in Nat /\ MsgLen(c) = 3 + Len(Payload)
    BY <2>3, <1>10 DEF HeaderSize
  <2>7. \A j \in 1 .. Len(w) : Written'[j] = w[j]
    <3>. SUFFICES ASSUME NEW j \in 1 .. Len(w) PROVE Written'[j] = w[j]
      BY Zenon
    <3>1. j \in 1 .. Len(u) /\ u[j] = w[j]
      BY <2>1, <2>3, <2>6
    <3>. QED  BY Zenon, <3>1, <2>4, <2>5
  <2>8. ASSUME NEW k \in 1 .. MsgLen(c)  PROVE Written'[Len(w) + k] = MsgCell(c, k)
    <3>1. CASE k <= 3
      <4>1. k \in 1 .. 3 /\ Len(w) + k \in 1 .. Len(u)
        BY <3>1, <2>6, <2>1, <1>7
      <4>2. Written'[Len(w) + k] = u[Len(w) + k] /\ u[Len(w) + k] = h[k]
        BY Zenon, <4>1, <2>3, <2>4, <2>5
      <4>. QED  BY Zenon, <4>1, <4>2, <1>10 DEF HeaderSize
    <3>2. CASE k > 3
      <4>. DEFINE m == k - 3
      <4>1. m \in 1 .. Len(Payload) /\ Len(u) + m = Len(w) + k /\ 3 + m = k
        BY <3>2, <2>6, <2>1, <1>7
      <4>2. Written'[Len(u) + m] = Payload[m]
        BY Zenon, <4>1, <2>4, <2>5
      <4>3. Payload[m] = MsgCell(c, 3 + m)
        BY Zenon, <4>1, <1>10 DEF HeaderSize
      <4>. QED  BY Zenon, <4>1, <4>2, <4>3
    <3>. QED  BY <3>1, <3>2, <1>7
  <2>. QED  BY <2>1, <2>4, <2>5, <2>6, <2>7, <2>8
<1>13. PICK pos2 : pos2 = [i \in 0 .. n + 1 |-> IF i <= n THEN pos[i] ELSE pos[n] + MsgLen(c)]
  BY Zenon
<1>14. pos \in [0 .. n -> Nat] /\ pos[n] \in Nat /\ pos[0] = 0 /\ Len(Written) = pos[n]
  BY <1>2, <1>6, <1>7 DEF StreamInv, l, n
<1>15. /\ pos2 \in [0 .. n + 1 -> Nat] /\ pos2[n + 1] = pos[n] + MsgLen(c)
       /\ \A i \in 0 .. n : pos2[i] = pos[i]
  BY <1>7, <1>13, <1>14
<1>16. \A x : MsgLen(x)' = MsgLen(x)
  BY Zenon, <1>6 DEF MsgLen
<1>17. \A x, k : MsgCell(x, k)' = MsgCell(x, k)
  BY Zenon, <1>6 DEF MsgCell, PayloadSize
<1>18. StreamInv(pos2)'
  <2>1. pos2 \in [0 .. Len(log'[MASTER]) -> Nat] /\ pos2[0] = 0
    BY <1>7, <1>9, <1>14, <1>15
  <2>2. \A i \in 1 .. n + 1 : pos2[i] = pos2[i - 1] + MsgLen(log'[MASTER][i])
    <3>1. ASSUME NEW i \in 1 .. n  PROVE pos2[i] = pos2[i - 1] + MsgLen(log'[MASTER][i])
      <4>1. pos[i] = pos[i - 1] + MsgLen(l[i])
        BY Zenon, <1>2 DEF StreamInv, l, n
      <4>2. i \in 0 .. n /\ i - 1 \in 0 .. n
        BY <1>7
      <4>. QED  BY Zenon, <4>1, <4>2, <1>15, <1>9
    <3>2. pos2[n + 1] = pos2[(n + 1) - 1] + MsgLen(log'[MASTER][n + 1])
      BY <1>15, <1>9, <1>7
    <3>. QED  BY <3>1, <3>2, <1>7
  <2>3. \A i \in 0 .. n + 1 : pos2[i] <= pos2[n + 1]
    <3>1. \A i \in 0 .. n : pos[i] <= pos[n] /\ pos[i] \in Nat
      BY Zenon, <1>2, <1>14 DEF StreamInv, l, n
    <3>. QED  BY <3>1, <1>15, <1>14, <1>7
  <2>4. ASSUME NEW i \in 1 .. n + 1, NEW k \in 1 .. MsgLen(log'[MASTER][i])
        PROVE  Written'[pos2[i - 1] + k] = MsgCell(log'[MASTER][i], k)
    <3>1. CASE i = n + 1
      <4>1. pos2[i - 1] = Len(Written) /\ log'[MASTER][i] = c
        BY <3>1, <1>7, <1>9, <1>14, <1>15
      <4>. QED  BY Zenon, <4>1, <2>4, <1>12
    <3>2. CASE i \in 1 .. n
      <4>1. log'[MASTER][i] = l[i] /\ l[i] \in Cp /\ MsgLen(l[i]) \in Nat
        <5>1. log'[MASTER][i] = l[i] /\ l[i] \in Cp
          BY <3>2, <1>9, <1>7 DEF n
        <5>. QED  BY Zenon, <5>1, <1>1, MsgLenTyped
      <4>2. /\ pos2[i - 1] = pos[i - 1] /\ pos[i - 1] \in Nat /\ pos[i] \in Nat
            /\ pos[i] = pos[i - 1] + MsgLen(l[i]) /\ pos[i] <= pos[n]
        <5>1. i - 1 \in 0 .. n /\ i \in 0 .. n
          BY <3>2, <1>7
        <5>2. pos[i] = pos[i - 1] + MsgLen(l[i]) /\ pos[i] <= pos[n]
          BY Zenon, <5>1, <3>2, <1>2 DEF StreamInv, l, n
        <5>. QED  BY Zenon, <5>1, <5>2, <1>14, <1>15
      <4>3. k \in 1 .. MsgLen(l[i])
        BY Zenon, <2>4, <4>1
      <4>4. pos[i - 1] + k \in 1 .. Len(Written)
        BY <4>1, <4>2, <4>3, <1>14
      <4>5. Written[pos[i - 1] + k] = MsgCell(l[i], k)
        <5>1. pos[i - 1] + k <= Len(Written)
          BY <4>4, <1>12
        <5>. QED  BY Zenon, <5>1, <4>3, <3>2, <1>2 DEF StreamInv, l, n
      <4>. QED  BY Zenon, <4>1, <4>2, <4>4, <4>5, <1>12
    <3>. QED  BY <3>1, <3>2, <1>7
  <2>5. Len(Written') = pos2[n + 1] /\ pos2[n + 1] \in Nat
    BY <1>12, <1>14, <1>15, <1>7
  <2>6. \A i \in 1 .. n + 1 : \A k \in 1 .. MsgLen(log'[MASTER][i]) :
          Written'[pos2[i - 1] + k] = MsgCell(log'[MASTER][i], k)
    BY Zenon, <2>4
  <2>7. \A i \in 1 .. n + 1 : /\ MsgLen(log[MASTER][i])' = MsgLen(log'[MASTER][i])
                              /\ \A k \in Nat : MsgCell(log[MASTER][i], k)' = MsgCell(log'[MASTER][i], k)
    BY Zenon, <1>6 DEF MsgLen, MsgCell, PayloadSize
  <2>8. \A i \in 1 .. n + 1 : log'[MASTER][i] \in Cp /\ MsgLen(log'[MASTER][i]) \in Nat
    <3>1. \A i \in 1 .. n + 1 : log'[MASTER][i] \in Cp
      <4>1. log'[MASTER] \in Seq(Cp) /\ Len(log'[MASTER]) = n + 1
        BY Zenon, <1>8, <1>9 DEF Side
      <4>. QED  BY <4>1
    <3>. QED  BY Zenon, <3>1, <1>1, MsgLenTyped
  <2>9. \A i \in 1 .. n + 1 : \A k \in 1 .. MsgLen(log[MASTER][i])' :
          Written'[pos2[i - 1] + k] = MsgCell(log[MASTER][i], k)'
    BY <2>6, <2>7, <2>8
  <2>10. \A i \in 1 .. n + 1 : pos2[i] = pos2[i - 1] + MsgLen(log[MASTER][i])'
    BY Zenon, <2>2, <2>7
  <2>11. Len(Written') <= pos2[n + 1]
    BY <2>5
  <2>. QED  BY Zenon, <1>9, <2>1, <2>3, <2>5, <2>9, <2>10, <2>11 DEF StreamInv
<1>19. op(MASTER) = OP_TESTEND => /\ UNCHANGED machine
                                  /\ st' = [st EXCEPT ![MASTER] = "close"]
                                  /\ res' = [res EXCEPT ![MASTER] = "RES_END"]
  BY Zenon DEF send_register_info
<1>20. op(MASTER) # OP_TESTEND => Effect(MASTER) /\ UNCHANGED <<st, res, reg>>
  BY Zenon DEF send_register_info
<1>21. MachineTypes'
  <2>1. CASE op(MASTER) = OP_TESTEND
    BY Zenon, <2>1, <1>1, <1>19, MachineKept DEF Types
  <2>2. CASE op(MASTER) # OP_TESTEND
    <3>1. MachineTypes /\ reg' \in [Side -> Vals \cup {NULL}]
      BY Zenon, <2>2, <1>1, <1>20 DEF Types, MachineTypes
    <3>. QED  BY Zenon, <3>1, <2>2, <1>20, EffectTyped DEF Side
  <2>. QED  BY Zenon, <2>1, <2>2
<1>22. Types'
  <2>1. /\ st' \in [Side -> {"image", "header", "payload", "close", "exit"}]
        /\ DOMAIN res' = Side
    BY Zenon, <1>1, <1>19, <1>20 DEF Types
  <2>2. \A i \in 1 .. Len(log'[MASTER]) :
          log'[MASTER][i].op \in ZeroOps => log'[MASTER][i].data = NULL
    <3>1. c.op \in ZeroOps => c.data = NULL
      BY <1>3 DEF Met, RegOps, ZeroOps, OP_COMPARE, OP_TESTEND, OP_SIGILL, OP_COMPAREMEM,
                  OP_SETMEMBLOCK, OP_GETMEMBLOCK, OP_SETUPBEGIN, OP_SETUPEND
    <3>2. \A i \in 1 .. n : l[i].op \in ZeroOps => l[i].data = NULL
      BY Zenon, <1>1 DEF Types, l, n
    <3>. QED  BY <3>1, <3>2, <1>9, <1>7
  <2>3. off' \in 0 .. Len(file') /\ accepted' \in Nat /\ lost' \in BOOLEAN /\ file' \in Seq(Cell)
    BY Zenon, <1>1, <1>5, <1>6 DEF Types
  <2>. QED  BY Zenon, <1>8, <1>11, <1>21, <2>1, <2>2, <2>3 DEF Types
<1>23. MasterInv'
  <2>1. st'[MASTER] \in {"image", "close"}
    BY Zenon, <1>1, <1>4, <1>19, <1>20 DEF Types, Side
  <2>. QED  BY Zenon, <2>1, <1>6 DEF MasterInv
<1>24. ApprenticeKept
  <2>1. CASE op(MASTER) = OP_TESTEND
    BY Zenon, <2>1, <1>19, <1>6, <1>8, MasterAlone DEF ApprenticeKept, machine
  <2>2. CASE op(MASTER) # OP_TESTEND
    <3>1. Effect(MASTER) /\ UNCHANGED <<st, res, reg>>
      BY Zenon, <2>2, <1>20
    <3>2. pc'[APPRENTICE] = pc[APPRENTICE]
      BY Zenon, <3>1, MasterAlone DEF Effect
    <3>3. memblock'[APPRENTICE] = memblock[APPRENTICE]
      BY Zenon, <3>1, MasterAlone DEF Effect
    <3>4. is_setup'[APPRENTICE] = is_setup[APPRENTICE]
      BY Zenon, <3>1, MasterAlone DEF Effect
    <3>. QED  BY Zenon, <3>1, <3>2, <3>3, <3>4, <1>6, <1>8 DEF ApprenticeKept
  <2>. QED  BY Zenon, <2>1, <2>2
<1>25. RecordGrows
  <2>1. Len(log'[MASTER]) \in Nat /\ Len(log[MASTER]) <= Len(log'[MASTER])
    BY <1>7, <1>9 DEF n, l
  <2>. QED  BY Zenon, <2>1, <1>4, <1>6, <1>9 DEF RecordGrows, l, n
<1>26. ReaderInv(pos2)'
  BY Zenon, <1>1, <1>2, <1>15, <1>24, <1>25, ReaderKept DEF n, l
<1>. QED  BY Zenon, <1>18, <1>22, <1>23, <1>26, InvAgain

\* Cells on their way: what is in the file and what is not changes, what was
\* written does not.
LEMMA MasterWrites ==
  ASSUME Inv, close_comm \/ BusError \/ \E n \in 1 .. Len(out) : Drain(n)
  PROVE  Inv'
<1>1. Types /\ MasterInv
  BY Zenon DEF Inv
<1>2. /\ UNCHANGED <<machine, off, header, log, accepted, lost>>
      /\ st[MASTER] # "exit"
      /\ st' = st \/ \E x \in {"close", "exit"} : st' = [st EXCEPT ![MASTER] = x]
      /\ res' = res \/ \E x : res' = [res EXCEPT ![MASTER] = x]
  <2>1. CASE close_comm
    BY Zenon, <2>1 DEF close_comm
  <2>2. CASE BusError
    BY Zenon, <2>2 DEF BusError, Runs, stream
  <2>3. CASE \E n \in 1 .. Len(out) : Drain(n)
    <3>1. st[MASTER] # "exit"
      <4>1. out # <<>>
        BY <2>3
      <4>. QED  BY Zenon, <4>1, <1>1 DEF MasterInv
    <3>. QED  BY Zenon, <3>1, <2>3 DEF Drain
  <2>. QED  BY Zenon, <2>1, <2>2, <2>3
<1>3. /\ file' \in Seq(Cell) /\ out' \in Seq(Cell) /\ Written' = Written
      /\ Len(file) <= Len(file')
  <2>0. file \in Seq(Cell) /\ out \in Seq(Cell)
    BY Zenon, <1>1 DEF Types
  <2>1. CASE close_comm
    <3>1. file' = file \o out /\ out' = <<>>
      BY Zenon, <2>1 DEF close_comm
    <3>2. file \o out \in Seq(Cell) /\ Len(file) <= Len(file \o out)
      BY <2>0, Appended
    <3>3. (file \o out) \o <<>> = file \o out
      BY <3>2
    <3>4. Written' = file' \o out'
      BY Zenon DEF Written
    <3>. QED  BY <3>1, <3>2, <3>3, <3>4 DEF Written
  <2>2. CASE BusError
    BY <2>0, <2>2 DEF BusError, stream, Written
  <2>3. CASE \E n \in 1 .. Len(out) : Drain(n)
    <3>1. PICK n \in 1 .. Len(out) : Drain(n)
      BY Zenon, <2>3
    <3>. DEFINE p == SubSeq(out, 1, n)  q == SubSeq(out, n + 1, Len(out))
    <3>2. file' = file \o p /\ out' = q
      BY Zenon, <3>1 DEF Drain
    <3>3. p \in Seq(Cell) /\ q \in Seq(Cell) /\ p \o q = out
      <4>1. Len(out) \in Nat /\ n \in Nat /\ 1 <= n /\ n <= Len(out)
        BY <2>0, <3>1
      <4>2. p \in Seq(Cell) /\ q \in Seq(Cell) /\ Len(p) = n /\ Len(q) = Len(out) - n
        BY <2>0, <4>1
      <4>3. \A j \in 1 .. n : p[j] = out[j]
        BY <2>0, <4>1
      <4>4. \A j \in 1 .. Len(out) - n : q[j] = out[n + j]
        BY <2>0, <4>1
      <4>. HIDE DEF p, q
      <4>5. p \o q \in Seq(Cell) /\ Len(p \o q) = Len(out)
        <5>1. p \o q \in Seq(Cell) /\ Len(p \o q) = Len(p) + Len(q)
          BY Zenon, <4>2, Appended
        <5>. QED  BY <5>1, <4>1, <4>2
      <4>6. ASSUME NEW j \in 1 .. Len(out)  PROVE (p \o q)[j] = out[j]
        <5>1. CASE j <= n
          BY <5>1, <4>1, <4>2, <4>3, Appended
        <5>2. CASE j > n
          <6>1. j - n \in 1 .. Len(q) /\ j = n + (j - n)
            BY <5>2, <4>1, <4>2
          <6>2. (p \o q)[n + (j - n)] = q[j - n]
            BY Zenon, <6>1, <4>2, Appended
          <6>. QED  BY Zenon, <6>1, <6>2, <4>4, <4>2
        <5>3. j <= n \/ j > n
          BY <4>1
        <5>. QED  BY Zenon, <5>1, <5>2, <5>3
      <4>. QED  BY Zenon, <4>2, <4>5, <4>6, <2>0, SameCells
    <3>. HIDE DEF p, q
    <3>4. (file \o p) \o q = file \o (p \o q)
      <4>1. p \in Seq(Cell) /\ q \in Seq(Cell)
        BY Zenon, <3>3
      <4>. QED  BY Zenon, <2>0, <4>1, Reordered
    <3>5. file \o p \in Seq(Cell) /\ Len(file) <= Len(file \o p)
      BY <2>0, <3>3, Appended
    <3>6. Written' = file' \o out'
      BY Zenon DEF Written
    <3>. QED  BY Zenon, <3>2, <3>3, <3>4, <3>5, <3>6 DEF Written
  <2>. QED  BY Zenon, <2>1, <2>2, <2>3
<1>4. Types'
  <2>1. MachineTypes'
    BY Zenon, <1>1, <1>2, MachineKept DEF Types
  <2>2. st' \in [Side -> {"image", "header", "payload", "close", "exit"}] /\ DOMAIN res' = Side
    BY Zenon, <1>1, <1>2 DEF Types
  <2>3. off' \in 0 .. Len(file')
    <3>1. Len(file) \in Nat /\ Len(file') \in Nat /\ off \in 0 .. Len(file) /\ off' = off
      BY <1>1, <1>2, <1>3 DEF Types
    <3>. QED  BY <3>1, <1>3
  <2>. QED  BY Zenon, <1>1, <1>2, <1>3, <2>1, <2>2, <2>3 DEF Types
<1>5. MasterInv'
  <2>1. st'[MASTER] \in {"image", "close", "exit"} /\ ~lost'
    BY Zenon, <1>1, <1>2 DEF Types, Side, MasterInv
  <2>2. st'[MASTER] = "exit" => out' = <<>>
    <3>1. CASE close_comm
      BY Zenon, <3>1 DEF close_comm
    <3>2. CASE BusError
      BY Zenon, <3>2, <1>1 DEF BusError, Types, Side
    <3>3. CASE \E n \in 1 .. Len(out) : Drain(n)
      BY Zenon, <3>3, <1>2 DEF Drain
    <3>. QED  BY Zenon, <3>1, <3>2, <3>3
  <2>. QED  BY Zenon, <2>1, <2>2 DEF MasterInv
<1>6. ApprenticeKept
  BY Zenon, <1>2, MasterAlone DEF ApprenticeKept, machine
<1>7. ~lost /\ Len(Written') <= Len(Written)
  BY <1>1, <1>2, <1>3, WrittenIs DEF MasterInv
<1>. QED  BY Zenon, <1>2, <1>3, <1>4, <1>5, <1>6, <1>7, MasterQuiet

\* What the master had buffered when it died is cut off.
LEMMA MasterLeaves ==
  ASSUME Inv, st[MASTER] # "exit", NEW r, Leave(MASTER, r)
  PROVE  Inv'
<1>1. Types /\ MasterInv
  BY Zenon DEF Inv
<1>2. /\ UNCHANGED <<machine, file, off, header, log, accepted>> /\ out' = <<>>
      /\ st' = [st EXCEPT ![MASTER] = "exit"] /\ res' = [res EXCEPT ![MASTER] = r]
      /\ lost' = (lost \/ out # <<>>)
  BY Zenon DEF Leave
<1>3. Types'
  <2>1. MachineTypes'
    BY Zenon, <1>1, <1>2, MachineKept DEF Types
  <2>2. st' \in [Side -> {"image", "header", "payload", "close", "exit"}] /\ DOMAIN res' = Side
    BY Zenon, <1>1, <1>2 DEF Types
  <2>3. out' \in Seq(Cell) /\ lost' \in BOOLEAN
    BY <1>2
  <2>. QED  BY Zenon, <1>1, <1>2, <2>1, <2>2, <2>3 DEF Types
<1>4. MasterInv' /\ st'[MASTER] = "exit"
  BY Zenon, <1>1, <1>2 DEF MasterInv, Types, Side
<1>5. ApprenticeKept
  BY Zenon, <1>2, MasterAlone DEF ApprenticeKept, machine
<1>6. Written' = file
  <2>1. Written' = file' \o out' /\ file \in Seq(Cell)
    BY Zenon, <1>1 DEF Written, Types
  <2>. QED  BY <2>1, <1>2
<1>7. /\ Len(Written') <= Len(Written)
      /\ \A j \in 1 .. Len(Written') : Written'[j] = Written[j]
      /\ out = <<>> => Len(Written') = Len(Written)
  BY <1>1, <1>6, WrittenIs
<1>8. lost' \/ (~lost /\ Len(Written') = Len(Written))
  BY Zenon, <1>1, <1>2, <1>7 DEF Types
<1>. QED  BY Zenon, <1>2, <1>3, <1>4, <1>5, <1>7, <1>8, MasterQuiet


-----------------------------------------------------------------------------
(* The steps of the apprentice.                                            *)

\* EXCEPT at the apprentice leaves the master's entry.
LEMMA ApprenticeAlone ==
  ASSUME NEW f, NEW v
  PROVE  [f EXCEPT ![APPRENTICE] = v][MASTER] = f[MASTER]
BY DEF MASTER, APPRENTICE

LEMMA StreamSame ==
  ASSUME Types, NEW pos, StreamInv(pos), log'[MASTER] = log[MASTER],
         UNCHANGED <<file, out, regsize, lost>>
  PROVE  StreamInv(pos)'
<1>1. Written' = Written
  BY Zenon DEF Written
<1>2. Len(Written') \in Nat /\ Len(Written') <= Len(Written)
  BY <1>1, WrittenIs
<1>3. lost' \/ (~lost /\ Len(Written') = Len(Written))
  BY Zenon, <1>1 DEF Types
<1>. QED  BY Zenon, <1>1, <1>2, <1>3, StreamKept

LEMMA MasterSame ==
  ASSUME MasterInv, st'[MASTER] = st[MASTER], UNCHANGED <<out, lost>>
  PROVE  MasterInv'
BY Zenon DEF MasterInv

LEMMA ApprenticeExecutes ==
  ASSUME Inv, Execute(APPRENTICE) \/ SkipIllegal(APPRENTICE)
  PROVE  Inv'
<1>1. Types /\ MasterInv
  BY Zenon DEF Inv
<1>2. PICK pos : StreamInv(pos) /\ ReaderInv(pos)
  BY Zenon DEF Inv
<1>3. /\ st[APPRENTICE] = "image"
      /\ UNCHANGED <<image, regsize, pipe, memblock, is_setup, st, stream, header, res, log,
                     accepted, lost>>
  BY Zenon DEF Execute, SkipIllegal, Runs
<1>4. Types'
  <2>1. MachineTypes'
    BY Zenon, <1>1, ExecuteTyped DEF Types, Side
  <2>. QED  BY Zenon, <2>1, <1>1, <1>3 DEF Types, stream
<1>5. MasterInv' /\ StreamInv(pos)'
  BY Zenon, <1>1, <1>2, <1>3, MasterSame, StreamSame DEF stream
<1>6. res[APPRENTICE] = "none"
  BY Zenon, <1>2, <1>3 DEF ReaderInv
<1>7. ReaderInv(pos)'
  BY Zenon, <1>2, <1>3, <1>6 DEF ReaderInv, stream
<1>. QED  BY Zenon, <1>4, <1>5, <1>7, InvAgain

LEMMA Awaits ==
  ASSUME Inv, AwaitHeader
  PROVE  Inv'
<1>1. Types /\ MasterInv
  BY Zenon DEF Inv
<1>2. PICK pos : StreamInv(pos) /\ ReaderInv(pos)
  BY Zenon DEF Inv
<1>. DEFINE l == log[APPRENTICE]
<1>3. /\ st[APPRENTICE] = "image" /\ (pipe \/ st[MASTER] = "exit")
      /\ log' = [log EXCEPT ![APPRENTICE] = Append(l, Met(APPRENTICE))]
      /\ st' = [st EXCEPT ![APPRENTICE] = "header"]
      /\ UNCHANGED <<machine, stream, header, res, accepted, lost>>
  BY Zenon DEF AwaitHeader, Enters, Runs, Met, MASTER, APPRENTICE
<1>4. Met(APPRENTICE) \in Cp /\ l \in Seq(Cp) /\ Len(l) \in Nat
  BY <1>1, OpTyped DEF Types, Side
<1>5. /\ log'[APPRENTICE] = Append(l, Met(APPRENTICE)) /\ log'[MASTER] = log[MASTER]
      /\ log' \in [Side -> Seq(Cp)]
  BY <1>1, <1>3, <1>4 DEF Types, Side, MASTER, APPRENTICE
<1>6. /\ st'[APPRENTICE] = "header" /\ st'[MASTER] = st[MASTER]
      /\ st' \in [Side -> {"image", "header", "payload", "close", "exit"}]
  BY Zenon, <1>1, <1>3 DEF Types, Side, MASTER, APPRENTICE
<1>7. Types'
  <2>1. MachineTypes'
    BY Zenon, <1>1, <1>3, MachineKept DEF Types
  <2>. QED  BY Zenon, <2>1, <1>1, <1>3, <1>5, <1>6 DEF Types, stream
<1>8. MasterInv' /\ StreamInv(pos)'
  BY Zenon, <1>1, <1>2, <1>3, <1>5, <1>6, MasterSame, StreamSame DEF stream, machine
<1>9. /\ accepted <= Len(log[MASTER]) /\ res[APPRENTICE] = "none" /\ Len(l) = accepted
      /\ off = pos[accepted] /\ accepted \in Nat
  BY Zenon, <1>1, <1>2, <1>3 DEF ReaderInv, Types
<1>10. Len(log'[APPRENTICE]) = accepted + 1
       /\ log'[APPRENTICE][accepted + 1] = Met(APPRENTICE)
  BY <1>4, <1>5, <1>9
<1>11. Met(APPRENTICE)' = Met(APPRENTICE)
  BY Zenon, <1>3 DEF Met, op, machine
<1>12. ReaderInv(pos)'
  <2>1. accepted' <= Len(log'[MASTER]) /\ accepted' <= Len(log'[APPRENTICE])
    BY <1>3, <1>5, <1>9, <1>10
  <2>2. /\ Len(log'[APPRENTICE]) = accepted' + 1
        /\ log'[APPRENTICE][accepted' + 1] = Met(APPRENTICE)'
        /\ pipe' \/ st'[MASTER] = "exit"
        /\ off' = pos[accepted'] /\ res'[APPRENTICE] = "none"
    BY Zenon, <1>3, <1>6, <1>9, <1>10, <1>11 DEF machine, stream
  <2>. QED  BY Zenon, <2>1, <2>2, <1>6 DEF ReaderInv
<1>. QED  BY Zenon, <1>7, <1>8, <1>12, InvAgain

LEMMA ApprenticeLeaves ==
  ASSUME Inv, st[APPRENTICE] # "exit", NEW r \in {"killed", "returned"}, Leave(APPRENTICE, r)
  PROVE  Inv'
<1>1. Types /\ MasterInv
  BY Zenon DEF Inv
<1>2. PICK pos : StreamInv(pos) /\ ReaderInv(pos)
  BY Zenon DEF Inv
<1>3. /\ UNCHANGED <<machine, out, file, off, header, log, accepted>>
      /\ st' = [st EXCEPT ![APPRENTICE] = "exit"] /\ res' = [res EXCEPT ![APPRENTICE] = r]
      /\ lost' = lost
  BY Zenon, <1>1 DEF Leave, MASTER, APPRENTICE, Types
<1>4. /\ st'[APPRENTICE] = "exit" /\ st'[MASTER] = st[MASTER] /\ res'[APPRENTICE] = r
      /\ st' \in [Side -> {"image", "header", "payload", "close", "exit"}]
      /\ DOMAIN res' = Side
  BY Zenon, <1>1, <1>3 DEF Types, Side, MASTER, APPRENTICE
<1>5. Types'
  <2>1. MachineTypes'
    BY Zenon, <1>1, <1>3, MachineKept DEF Types
  <2>. QED  BY Zenon, <2>1, <1>1, <1>3, <1>4 DEF Types
<1>6. MasterInv' /\ StreamInv(pos)'
  BY Zenon, <1>1, <1>2, <1>3, <1>4, MasterSame, StreamSame DEF machine
<1>7. ReaderInv(pos)'
  BY Zenon, <1>2, <1>3, <1>4 DEF ReaderInv
<1>. QED  BY Zenon, <1>5, <1>6, <1>7, InvAgain

\* What is known of a verdict v on the next message, read with payload p up to
\* place o.
Refused(v) ==
  \/ regsize[MASTER] # regsize[APPRENTICE]
  \/ lost
  \/ pipe /\ v = "RES_BAD_IO"
  \/ st[MASTER] = "exit" /\ accepted + 1 > Len(log[MASTER])
  \/ \E i \in 1 .. Len(log[MASTER]) : Missing(log[MASTER][i])
  \/ accepted < Len(log[MASTER])
       /\ ~CpAgree(log[MASTER][accepted + 1], Met(APPRENTICE))

Settled(pos, v, p, o) ==
  LET r == log[MASTER][accepted + 1] IN
  /\ v # "none"
  /\ v \in {"RES_OK", "RES_END"} =>
       accepted < Len(log[MASTER]) /\ CpAgree(r, Met(APPRENTICE))
  /\ v = "RES_END" => CpIsEnd(r)
  /\ v = "RES_OK" =>
       /\ ~CpIsEnd(r) /\ op(APPRENTICE) # OP_TESTEND /\ o = pos[accepted + 1]
       /\ op(APPRENTICE) = OP_COMPARE => p[1] \in Vals \cup {NULL}
  /\ v \notin {"RES_OK", "RES_END", "killed", "returned"} => Refused(v)

\* A read from a file comes short only at its end; with all cells written that
\* is where the last message ends.
LEMMA ShortRead ==
  ASSUME Types, MasterInv, NEW pos, StreamInv(pos), st[MASTER] = "exit", ~lost,
         NEW n \in Nat, NEW b \in read_buffer(n), Len(b) # n, ~pipe
  PROVE  off + n > pos[Len(log[MASTER])]
<1>1. b \in Seq(Cell) /\ Len(b) <= n /\ off + Len(b) = Len(file) /\ off \in Nat
  <2>1. off \in Nat
    BY DEF Types
  <2>. QED  BY Zenon, <2>1, Reads
<1>2. Len(file) = pos[Len(log[MASTER])] /\ Len(file) \in Nat
  <2>1. out = <<>> /\ Len(Written) = pos[Len(log[MASTER])]
    BY Zenon DEF MasterInv, StreamInv
  <2>. QED  BY <2>1, WrittenIs
<1>3. Len(b) \in Nat /\ Len(b) < n
  BY <1>1
<1>. QED  BY <1>1, <1>2, <1>3

\* The places around a message.
LEMMA Places ==
  ASSUME Types, NEW pos, StreamInv(pos), accepted < Len(log[MASTER])
  PROVE  /\ log[MASTER][accepted + 1] \in Cp
         /\ log[MASTER][accepted + 1].op \in Ops
         /\ log[MASTER][accepted + 1].op \in ZeroOps => log[MASTER][accepted + 1].data = NULL
         /\ accepted \in Nat /\ accepted + 1 \in 1 .. Len(log[MASTER])
         /\ pos[accepted] \in Nat /\ pos[accepted + 1] \in Nat
         /\ pos[Len(log[MASTER])] \in Nat
         /\ pos[accepted + 1] = pos[accepted] + MsgLen(log[MASTER][accepted + 1])
         /\ pos[accepted + 1] <= pos[Len(log[MASTER])]
<1>. DEFINE l == log[MASTER]  a == accepted
<1>1. l \in Seq(Cp) /\ Len(l) \in Nat /\ a \in Nat
  BY DEF Types, Side
<1>2. a + 1 \in 1 .. Len(l) /\ a \in 0 .. Len(l) /\ a + 1 \in 0 .. Len(l) /\ (a + 1) - 1 = a
      /\ Len(l) \in 0 .. Len(l)
  BY <1>1
<1>3. l[a + 1] \in Cp
  BY <1>1, <1>2
<1>4. l[a + 1].op \in Ops
  BY Zenon, <1>3 DEF Cp, Ops
<1>5. l[a + 1].op \in ZeroOps => l[a + 1].data = NULL
  BY Zenon, <1>2 DEF Types
<1>6. pos \in [0 .. Len(l) -> Nat]
  BY Zenon DEF StreamInv
<1>7. pos[a] \in Nat /\ pos[a + 1] \in Nat /\ pos[Len(l)] \in Nat
  BY Zenon, <1>2, <1>6
<1>8. pos[a + 1] = pos[a] + MsgLen(l[a + 1])
  BY Zenon, <1>2 DEF StreamInv
<1>9. pos[a + 1] <= pos[Len(l)]
  BY Zenon, <1>2 DEF StreamInv
<1>. QED  BY Zenon, <1>1, <1>2, <1>3, <1>4, <1>5, <1>7, <1>8, <1>9

LEMMA HeaderSettled ==
  ASSUME Types, MasterInv, NEW pos, StreamInv(pos), ReaderInv(pos),
         st[APPRENTICE] = "header", NEW b \in read_buffer(HeaderSize)
  PROVE  LET r == IF Len(b) = HeaderSize THEN HeaderResult(b) ELSE "RES_BAD_IO" IN
         IF r = "RES_OK" /\ b[2] > 0
         THEN /\ Len(b) = HeaderSize /\ accepted < Len(log[MASTER])
              /\ b = Header(log[MASTER][accepted + 1].op,
                            PayloadSize(log[MASTER][accepted + 1].op))
              /\ HeaderResult(b) = "RES_OK"
         ELSE Settled(pos, Verdict(b, <<>>, r), <<>>, off + Len(b))
<1>. DEFINE l == log[MASTER]  a == accepted  m == l[a + 1]
<1>1. a \in Nat /\ a <= Len(l) /\ Len(l) \in Nat /\ off = pos[a] /\ HeaderSize = 3
      /\ (pipe \/ st[MASTER] = "exit") /\ pipe \in BOOLEAN /\ lost \in BOOLEAN
  BY DEF Types, MachineTypes, Side, ReaderInv, HeaderSize
<1>2. CASE Len(b) # HeaderSize
  <2>1. Verdict(b, <<>>, "RES_BAD_IO") = "RES_BAD_IO"
    BY Zenon DEF Verdict
  <2>2. Refused("RES_BAD_IO")
    <3>1. CASE pipe \/ lost
      BY Zenon, <3>1 DEF Refused
    <3>2. CASE ~pipe /\ ~lost
      <4>1. st[MASTER] = "exit" /\ off + 3 > pos[Len(l)]
        BY Zenon, <3>2, <1>1, <1>2, ShortRead
      <4>2. ~(a < Len(l))
        <5>. SUFFICES ASSUME a < Len(l) PROVE FALSE
          BY Zenon
        <5>1. /\ pos[a] \in Nat /\ pos[a + 1] \in Nat /\ pos[Len(l)] \in Nat
              /\ pos[a + 1] = pos[a] + MsgLen(m) /\ pos[a + 1] <= pos[Len(l)] /\ m \in Cp
          BY Zenon, Places
        <5>2. MsgLen(m) \in Nat /\ MsgLen(m) >= 3
          BY Zenon, <5>1, <1>1, MsgLenTyped
        <5>. QED  BY <5>1, <5>2, <4>1, <1>1
      <4>3. accepted + 1 > Len(log[MASTER])
        BY <4>2, <1>1
      <4>. QED  BY Zenon, <4>1, <4>3 DEF Refused
    <3>. QED  BY Zenon, <3>1, <3>2, <1>1
  <2>. QED  BY Zenon, <1>2, <2>1, <2>2 DEF Settled
<1>3. CASE Len(b) = HeaderSize
  <2>1. a < Len(l) /\ b = Header(m.op, PayloadSize(m.op))
    BY Zenon, <1>3, HeaderRead
  <2>2. b[1] = RISU_MAGIC /\ b[2] = PayloadSize(m.op) /\ b[3] = m.op
    BY Zenon, <2>1 DEF Header
  <2>3. m \in Cp /\ m.op \in Ops /\ (m.op \in ZeroOps => m.data = NULL)
        /\ pos[a + 1] = pos[a] + MsgLen(m)
    BY Zenon, <2>1, Places
  <2>4. regsize[MASTER] \in Nat /\ regsize[MASTER] > 0 /\ regsize[APPRENTICE] \in Nat
    BY DEF Types, MachineTypes, Side
  <2>5. /\ OP_COMPAREMEM \notin RegOps
        /\ \A x \in ZeroOps : x \notin RegOps /\ x # OP_COMPAREMEM
    BY DEF RegOps, ZeroOps, OP_COMPARE, OP_TESTEND, OP_SIGILL, OP_COMPAREMEM, OP_SETMEMBLOCK,
           OP_GETMEMBLOCK, OP_SETUPBEGIN, OP_SETUPEND
  <2>6. /\ HeaderResult(b) \in {"RES_OK", "RES_BAD_SIZE_HEADER"}
        /\ HeaderResult(b) = "RES_BAD_SIZE_HEADER" => regsize[MASTER] # regsize[APPRENTICE]
        /\ b[2] \in Nat /\ (~(b[2] > 0) => m.op \in ZeroOps)
    <3>. HIDE DEF m
    <3>1. CASE m.op \in RegOps
      BY <3>1, <2>2, <2>4 DEF HeaderResult, PayloadSize
    <3>2. CASE m.op = OP_COMPAREMEM
      BY Zenon, <3>2, <2>2, <2>5, Constants DEF HeaderResult, PayloadSize
    <3>3. CASE m.op \in ZeroOps
      BY <3>3, <2>2, <2>5 DEF HeaderResult, PayloadSize
    <3>. QED  BY Zenon, <3>1, <3>2, <3>3, <2>3 DEF Ops
  <2>7. CASE HeaderResult(b) = "RES_OK" /\ b[2] > 0
    BY Zenon, <2>7, <2>1, <1>3
  <2>8. CASE HeaderResult(b) = "RES_BAD_SIZE_HEADER"
    <3>1. Verdict(b, <<>>, "RES_BAD_SIZE_HEADER") = "RES_BAD_SIZE_HEADER"
      BY Zenon DEF Verdict
    <3>2. Refused("RES_BAD_SIZE_HEADER")
      BY Zenon, <2>6, <2>8 DEF Refused
    <3>. QED  BY Zenon, <3>1, <3>2, <2>8, <1>3 DEF Settled
  <2>9. CASE HeaderResult(b) = "RES_OK" /\ ~(b[2] > 0)
    <3>. DEFINE v == Verdict(b, <<>>, "RES_OK")  c == Met(APPRENTICE)
    <3>1. m.op \in ZeroOps
      BY Zenon, <2>6, <2>9
    <3>2. Carries(<<>>, m)
      BY Zenon, <3>1, <2>5 DEF Carries
    <3>3. /\ v \in {"RES_OK", "RES_END"} => CpAgree(m, c) /\ ~Missing(m)
          /\ v = "RES_END" => CpIsEnd(m)
          /\ v = "RES_OK" => ~CpIsEnd(m) /\ op(APPRENTICE) # OP_TESTEND
          /\ v \in {"RES_OK", "RES_END", "killed"} \/ Missing(m) \/ ~CpAgree(m, c)
          /\ v # "none" /\ v # "returned"
      BY Zenon, <3>2, <2>2, <2>3, Judged
    <3>4. pos[a + 1] = off + Len(b)
      BY <3>1, <2>3, <2>5, <1>1, <1>3 DEF MsgLen
    <3>5. ~Missing(m)
      BY Zenon, <3>1, <2>5 DEF Missing
    <3>6. v = "RES_OK" => op(APPRENTICE) # OP_COMPARE
      <4>1. CpAgree(m, c) => op(APPRENTICE) = m.op
        BY Zenon DEF CpAgree, Met
      <4>2. OP_COMPARE \in RegOps
        BY Zenon DEF RegOps
      <4>. QED  BY Zenon, <4>1, <4>2, <3>1, <3>3, <2>5
    <3>7. v \in {"RES_OK", "RES_END", "killed", "returned"} \/ Refused(v)
      BY Zenon, <3>3, <3>5, <2>1 DEF Refused
    <3>. HIDE DEF v
    <3>8. Settled(pos, v, <<>>, off + Len(b))
      BY Zenon, <3>3, <3>4, <3>6, <3>7, <2>1 DEF Settled
    <3>. QED  BY Zenon, <3>8, <2>9, <1>3 DEF v
  <2>. QED  BY Zenon, <2>6, <2>7, <2>8, <2>9
<1>. QED  BY Zenon, <1>2, <1>3

LEMMA PayloadSettled ==
  ASSUME Types, MasterInv, NEW pos, StreamInv(pos), ReaderInv(pos),
         st[APPRENTICE] = "payload", NEW b \in read_buffer(header[2])
  PROVE  LET r == IF Len(b) # header[2] THEN "RES_BAD_IO"
                  ELSE IF header[3] \in RegOps /\ header[2] # regsize[APPRENTICE]
                       THEN "RES_BAD_SIZE_REGINFO" ELSE "RES_OK"
         IN Settled(pos, Verdict(header, b, r), b, off + Len(b))
<1>. DEFINE l == log[MASTER]  a == accepted  m == l[a + 1]
<1>1. /\ a < Len(l) /\ off = pos[a] + 3
      /\ header = Header(m.op, PayloadSize(m.op)) /\ header[2] > 0
      /\ (pipe \/ st[MASTER] = "exit") /\ pipe \in BOOLEAN /\ lost \in BOOLEAN
  BY Zenon DEF Types, MachineTypes, ReaderInv, HeaderSize
<1>2. header[2] = PayloadSize(m.op) /\ header[3] = m.op
  BY Zenon, <1>1 DEF Header
<1>3. /\ m \in Cp /\ m.op \in Ops /\ (m.op \in ZeroOps => m.data = NULL)
      /\ pos[a] \in Nat /\ pos[a + 1] \in Nat /\ pos[Len(l)] \in Nat
      /\ pos[a + 1] = pos[a] + MsgLen(m) /\ pos[a + 1] <= pos[Len(l)]
      /\ a + 1 \in 1 .. Len(l)
  BY Zenon, <1>1, Places
<1>4. PayloadSize(m.op) \in Nat /\ OP_COMPAREMEM \notin RegOps
  BY <1>3, MsgLenTyped DEF RegOps, OP_COMPARE, OP_TESTEND, OP_SIGILL, OP_COMPAREMEM
<1>5. ~Missing(m) => MsgLen(m) = 3 + header[2]
  <2>1. HeaderSize = 3
    BY Zenon DEF HeaderSize
  <2>. HIDE DEF m
  <2>. QED  BY Zenon, <2>1, <1>2, <1>4 DEF MsgLen, PayloadSize, Missing
<1>6. Missing(m) => \E i \in 1 .. Len(log[MASTER]) : Missing(log[MASTER][i])
  BY Zenon, <1>3
<1>. HIDE DEF m
<1>7. CASE Len(b) # header[2]
  <2>1. Verdict(header, b, "RES_BAD_IO") = "RES_BAD_IO"
    BY Zenon DEF Verdict
  <2>2. Refused("RES_BAD_IO")
    <3>1. CASE pipe \/ lost \/ Missing(m)
      BY Zenon, <3>1, <1>6 DEF Refused
    <3>2. CASE ~pipe /\ ~lost /\ ~Missing(m)
      <4>1. off + header[2] > pos[Len(l)]
        BY Zenon, <3>2, <1>1, <1>2, <1>4, <1>7, ShortRead
      <4>2. header[2] \in Nat
        BY Zenon, <1>2, <1>4
      <4>. QED  BY SMTT(30), <4>1, <4>2, <3>2, <1>1, <1>3, <1>5
    <3>. QED  BY Zenon, <3>1, <3>2, <1>1
  <2>. QED  BY Zenon, <1>7, <2>1, <2>2 DEF Settled
<1>8. CASE Len(b) = header[2] /\ header[3] \in RegOps /\ header[2] # regsize[APPRENTICE]
  <2>1. Verdict(header, b, "RES_BAD_SIZE_REGINFO") = "RES_BAD_SIZE_REGINFO"
    BY Zenon DEF Verdict
  <2>2. Refused("RES_BAD_SIZE_REGINFO")
    BY Zenon, <1>8, <1>2 DEF Refused, PayloadSize
  <2>. QED  BY Zenon, <1>8, <2>1, <2>2 DEF Settled
<1>9. CASE Len(b) = header[2] /\ ~(header[3] \in RegOps /\ header[2] # regsize[APPRENTICE])
  <2>. DEFINE v == Verdict(header, b, "RES_OK")  c == Met(APPRENTICE)
  <2>1. Carries(b, m)
    BY Zenon, <1>9, PayloadRead DEF m
  <2>2. /\ v \in {"RES_OK", "RES_END"} => CpAgree(m, c) /\ ~Missing(m)
        /\ v = "RES_END" => CpIsEnd(m)
        /\ v = "RES_OK" => ~CpIsEnd(m) /\ op(APPRENTICE) # OP_TESTEND
        /\ v \in {"RES_OK", "RES_END", "killed"} \/ Missing(m) \/ ~CpAgree(m, c)
        /\ v # "none" /\ v # "returned"
    BY Zenon, <2>1, <1>2, <1>3, Judged
  <2>3. v = "RES_OK" => pos[a + 1] = off + Len(b)
    <3>1. v = "RES_OK" => ~Missing(m)
      BY Zenon, <2>2
    <3>. HIDE DEF v
    <3>2. header[2] \in Nat
      BY Zenon, <1>2, <1>4
    <3>3. ~Missing(m) => pos[a + 1] = off + Len(b)
      BY <3>2, <1>1, <1>3, <1>5, <1>9
    <3>. QED  BY Zenon, <3>1, <3>3
  <2>4. v = "RES_OK" /\ op(APPRENTICE) = OP_COMPARE => b[1] \in Vals \cup {NULL}
    <3>. HAVE v = "RES_OK" /\ op(APPRENTICE) = OP_COMPARE
    <3>1. CpAgree(m, c) => op(APPRENTICE) = m.op
      BY Zenon DEF CpAgree, Met
    <3>2. OP_COMPARE \in RegOps
      BY Zenon DEF RegOps
    <3>3. b[1] = m.data
      BY Zenon, <3>1, <3>2, <2>1, <2>2 DEF Carries
    <3>. QED  BY Zenon, <3>3, <1>3 DEF Cp
  <2>5. v \in {"RES_OK", "RES_END", "killed", "returned"} \/ Refused(v)
    BY Zenon, <2>2, <1>6, <1>1 DEF Refused, m
  <2>. HIDE DEF v
  <2>6. Settled(pos, v, b, off + Len(b))
    BY Zenon, <2>2, <2>3, <2>4, <2>5, <1>1 DEF Settled, m
  <2>. QED  BY Zenon, <2>6, <1>9 DEF v
<1>. QED  BY Zenon, <1>7, <1>8, <1>9

\* The end of the handler, from what is known of its verdict.
LEMMA Settles ==
  ASSUME Types, MasterInv, NEW pos, StreamInv(pos), ReaderInv(pos),
         st[APPRENTICE] \in {"header", "payload"}, NEW h, NEW p, NEW r, Conclude(h, p, r),
         NEW o \in 0 .. Len(file), off' = o, Settled(pos, Verdict(h, p, r), p, o),
         UNCHANGED <<out, file, log, lost>>
  PROVE  Inv'
<1>. DEFINE l == log[MASTER]  a == accepted  m == l[a + 1]
<1>1. PICK v : v = Verdict(h, p, r)
  BY Zenon
<1>2. Settled(pos, v, p, o)
  BY Zenon, <1>1
<1>3. /\ res' = [res EXCEPT ![APPRENTICE] = IF v = "RES_OK" THEN "none" ELSE v]
      /\ st' = [st EXCEPT ![APPRENTICE] = IF v = "RES_OK" THEN "image" ELSE "exit"]
      /\ accepted' = IF v \in {"RES_OK", "RES_END"} THEN accepted + 1 ELSE accepted
      /\ v = "RES_OK" =>
           /\ Effect(APPRENTICE)
           /\ reg' = IF op(APPRENTICE) = OP_COMPARE
                       THEN [reg EXCEPT ![APPRENTICE] = p[1]] ELSE reg
      /\ v # "RES_OK" => UNCHANGED machine
  BY <1>1, Concluded
<1>4. /\ st' \in [Side -> {"image", "header", "payload", "close", "exit"}]
      /\ st'[MASTER] = st[MASTER]
      /\ st'[APPRENTICE] = IF v = "RES_OK" THEN "image" ELSE "exit"
      /\ DOMAIN res' = Side
      /\ res'[APPRENTICE] = IF v = "RES_OK" THEN "none" ELSE v
  BY Zenon, <1>3 DEF Types, Side, MASTER, APPRENTICE
<1>5. UNCHANGED <<image, regsize, pipe>>
  BY Zenon, <1>3 DEF Effect, machine
<1>6. /\ a \in Nat /\ a <= Len(l) /\ Len(l) \in Nat /\ Len(log[APPRENTICE]) = a + 1
      /\ log[APPRENTICE][a + 1] = Met(APPRENTICE) /\ res[APPRENTICE] = "none"
  BY DEF Types, Side, ReaderInv
<1>7. accepted' \in Nat /\ accepted' <= Len(l) /\ accepted' <= Len(log[APPRENTICE])
  <2>1. CASE v \in {"RES_OK", "RES_END"}
    <3>1. accepted' = a + 1 /\ a < Len(l)
      BY Zenon, <2>1, <1>2, <1>3 DEF Settled
    <3>. QED  BY <3>1, <1>6
  <2>2. CASE v \notin {"RES_OK", "RES_END"}
    <3>1. accepted' = a
      BY Zenon, <2>2, <1>3
    <3>. QED  BY <3>1, <1>6
  <2>. QED  BY Zenon, <2>1, <2>2
<1>8. MachineTypes'
  <2>1. CASE v = "RES_OK"
    <3>1. op(APPRENTICE) # OP_TESTEND
          /\ (op(APPRENTICE) = OP_COMPARE => p[1] \in Vals \cup {NULL})
      BY Zenon, <2>1, <1>2 DEF Settled
    <3>2. MachineTypes /\ reg \in [Side -> Vals \cup {NULL}]
      BY Zenon DEF Types, MachineTypes
    <3>3. reg' \in [Side -> Vals \cup {NULL}]
      BY Zenon, <3>1, <3>2, <2>1, <1>3
    <3>. QED  BY Zenon, <3>1, <3>2, <3>3, <2>1, <1>3, EffectTyped DEF Side
  <2>2. CASE v # "RES_OK"
    BY Zenon, <2>2, <1>3, MachineKept DEF Types
  <2>. QED  BY Zenon, <2>1, <2>2
<1>9. Types'
  BY Zenon, <1>4, <1>7, <1>8 DEF Types
<1>10. MasterInv' /\ StreamInv(pos)'
  BY Zenon, <1>4, <1>5, MasterSame, StreamSame
<1>11. v \notin {"RES_OK", "RES_END", "killed", "returned"} => Excused'
  <2>. HAVE v \notin {"RES_OK", "RES_END", "killed", "returned"}
  <2>1. Refused(v)
    BY Zenon, <1>2 DEF Settled
  <2>2. Len(log'[APPRENTICE]) = a + 1 /\ log'[MASTER] = l /\ res'[APPRENTICE] = v
        /\ log'[APPRENTICE][a + 1] = Met(APPRENTICE)
    BY Zenon, <1>4, <1>6
  <2>3. CASE a < Len(l) /\ ~CpAgree(m, Met(APPRENTICE))
    <3>1. a + 1 \in 1 .. Len(l)
      BY <2>3, <1>6
    <3>2. ~CpAgree(log'[MASTER][a + 1], log'[APPRENTICE][a + 1])
      BY Zenon, <2>2, <2>3
    <3>. QED  BY Zenon, <3>1, <3>2, <2>2 DEF Excused, CpAgree
  <2>4. CASE regsize[MASTER] # regsize[APPRENTICE] \/ lost \/ (pipe /\ v = "RES_BAD_IO")
    BY Zenon, <2>4, <2>2, <1>5 DEF Excused
  <2>5. CASE st[MASTER] = "exit" /\ accepted + 1 > Len(log[MASTER])
    BY Zenon, <2>5, <2>2, <1>4 DEF Excused
  <2>6. CASE \E i \in 1 .. Len(log[MASTER]) : Missing(log[MASTER][i])
    BY Zenon, <2>6, <2>2 DEF Excused, Missing
  <2>. QED  BY Zenon, <2>1, <2>3, <2>4, <2>5, <2>6 DEF Refused
<1>12. v = "RES_OK" => Len(log'[APPRENTICE]) = accepted' /\ off' = pos[accepted']
  BY Zenon, <1>2, <1>3, <1>6 DEF Settled
<1>13. ReaderInv(pos)'
  <2>1. v # "none"
    BY Zenon, <1>2 DEF Settled
  <2>. QED  BY Zenon, <2>1, <1>4, <1>7, <1>11, <1>12 DEF ReaderInv
<1>. QED  BY Zenon, <1>9, <1>10, <1>13, InvAgain

LEMMA ReceivesHeader ==
  ASSUME Inv, RecvHeader
  PROVE  Inv'
<1>1. Types /\ MasterInv
  BY Zenon DEF Inv
<1>2. PICK pos : StreamInv(pos) /\ ReaderInv(pos)
  BY Zenon DEF Inv
<1>3. PICK b \in read_buffer(HeaderSize) :
        LET r == IF Len(b) = HeaderSize THEN HeaderResult(b) ELSE "RES_BAD_IO" IN
        /\ off' = off + Len(b)
        /\ header' = b
        /\ IF r = "RES_OK" /\ b[2] > 0
             THEN /\ st' = [st EXCEPT ![APPRENTICE] = "payload"]
                  /\ UNCHANGED <<machine, res, accepted>>
             ELSE Conclude(b, <<>>, r)
  BY Zenon DEF RecvHeader
<1>4. st[APPRENTICE] = "header" /\ UNCHANGED <<out, file, log, lost>>
  BY Zenon DEF RecvHeader
<1>. DEFINE r == IF Len(b) = HeaderSize THEN HeaderResult(b) ELSE "RES_BAD_IO"
            m == log[MASTER][accepted + 1]
<1>5. IF r = "RES_OK" /\ b[2] > 0
      THEN /\ Len(b) = HeaderSize /\ accepted < Len(log[MASTER])
           /\ b = Header(m.op, PayloadSize(m.op)) /\ HeaderResult(b) = "RES_OK"
      ELSE Settled(pos, Verdict(b, <<>>, r), <<>>, off + Len(b))
  BY Zenon, <1>1, <1>2, <1>4, HeaderSettled
<1>6. off + Len(b) \in 0 .. Len(file)
  <2>1. HeaderSize \in Nat
    BY Zenon DEF HeaderSize
  <2>2. b \in Seq(Cell) /\ off + Len(b) <= Len(file)
    BY Zenon, <2>1, <1>1, Reads
  <2>3. off \in Nat /\ Len(file) \in Nat
    BY <1>1 DEF Types
  <2>. QED  BY <2>2, <2>3
<1>7. CASE r = "RES_OK" /\ b[2] > 0
  <2>1. /\ st' = [st EXCEPT ![APPRENTICE] = "payload"]
        /\ UNCHANGED <<machine, res, accepted>> /\ off' = off + Len(b) /\ header' = b
    BY Zenon, <1>3, <1>7
  <2>2. /\ st' \in [Side -> {"image", "header", "payload", "close", "exit"}]
        /\ st'[MASTER] = st[MASTER] /\ st'[APPRENTICE] = "payload"
    BY Zenon, <1>1, <2>1 DEF Types, Side, MASTER, APPRENTICE
  <2>3. MachineTypes'
    BY Zenon, <1>1, <2>1, MachineKept DEF Types
  <2>4. Types'
    BY Zenon, <1>1, <1>4, <1>6, <2>1, <2>2, <2>3 DEF Types
  <2>5. MasterInv' /\ StreamInv(pos)'
    BY Zenon, <1>1, <1>2, <1>4, <2>1, <2>2, MasterSame, StreamSame DEF machine
  <2>6. Met(APPRENTICE)' = Met(APPRENTICE) /\ PayloadSize(m.op)' = PayloadSize(m.op)
        /\ m' = m
    BY Zenon, <1>4, <2>1 DEF Met, op, machine, PayloadSize
  <2>7. /\ Len(b) = HeaderSize /\ accepted < Len(log[MASTER])
        /\ b = Header(m.op, PayloadSize(m.op)) /\ HeaderResult(b) = "RES_OK" /\ b[2] > 0
    BY Zenon, <1>5, <1>7
  <2>8. header' = Header(m.op, PayloadSize(m.op))'
    BY Zenon, <2>1, <2>6, <2>7 DEF Header
  <2>9. HeaderResult(header)' = "RES_OK" /\ header'[2] > 0
    BY Zenon, <2>1, <2>7 DEF HeaderResult, machine
  <2>10. off' = pos[accepted'] + HeaderSize /\ accepted' < Len(log'[MASTER])
    BY Zenon, <1>2, <1>4, <2>1, <2>7 DEF ReaderInv
  <2>11. /\ accepted' <= Len(log'[MASTER]) /\ accepted' <= Len(log'[APPRENTICE])
         /\ Len(log'[APPRENTICE]) = accepted' + 1
         /\ log'[APPRENTICE][accepted' + 1] = Met(APPRENTICE)'
         /\ pipe' \/ st'[MASTER] = "exit"
         /\ res'[APPRENTICE] = "none"
    BY Zenon, <1>2, <1>4, <2>1, <2>2, <2>6 DEF ReaderInv, machine
  <2>12. ReaderInv(pos)'
    BY Zenon, <2>2, <2>8, <2>9, <2>10, <2>11 DEF ReaderInv
  <2>. QED  BY Zenon, <2>4, <2>5, <2>12, InvAgain
<1>8. CASE ~(r = "RES_OK" /\ b[2] > 0)
  <2>1. Conclude(b, <<>>, r) /\ off' = off + Len(b)
    BY Zenon, <1>3, <1>8
  <2>2. Settled(pos, Verdict(b, <<>>, r), <<>>, off + Len(b))
    BY Zenon, <1>5, <1>8
  <2>. HIDE DEF r
  <2>. QED  BY Zenon, <1>1, <1>2, <1>4, <1>6, <2>1, <2>2, Settles
<1>. QED  BY Zenon, <1>7, <1>8

LEMMA ReceivesPayload ==
  ASSUME Inv, RecvPayload
  PROVE  Inv'
<1>1. Types /\ MasterInv
  BY Zenon DEF Inv
<1>2. PICK pos : StreamInv(pos) /\ ReaderInv(pos)
  BY Zenon DEF Inv
<1>3. PICK b \in read_buffer(header[2]) :
        /\ off' = off + Len(b)
        /\ Conclude(header, b,
             IF Len(b) # header[2] THEN "RES_BAD_IO"
             ELSE IF header[3] \in RegOps /\ header[2] # regsize[APPRENTICE]
                  THEN "RES_BAD_SIZE_REGINFO" ELSE "RES_OK")
  BY Zenon DEF RecvPayload
<1>4. st[APPRENTICE] = "payload" /\ UNCHANGED <<out, file, log, lost>>
  BY Zenon DEF RecvPayload
<1>. DEFINE r == IF Len(b) # header[2] THEN "RES_BAD_IO"
                 ELSE IF header[3] \in RegOps /\ header[2] # regsize[APPRENTICE]
                      THEN "RES_BAD_SIZE_REGINFO" ELSE "RES_OK"
            m == log[MASTER][accepted + 1]
<1>5. Settled(pos, Verdict(header, b, r), b, off + Len(b))
  BY Zenon, <1>1, <1>2, <1>4, PayloadSettled
<1>6. off + Len(b) \in 0 .. Len(file)
  <2>1. accepted < Len(log[MASTER]) /\ header = Header(m.op, PayloadSize(m.op))
    BY Zenon, <1>2, <1>4 DEF ReaderInv
  <2>2. m \in Cp
    BY Zenon, <1>1, <1>2, <2>1, Places
  <2>3. header[2] \in Nat
    BY Zenon, <2>1, <2>2, <1>1, MsgLenTyped DEF Header
  <2>4. b \in Seq(Cell) /\ off + Len(b) <= Len(file)
    BY Zenon, <2>3, <1>1, Reads
  <2>5. off \in Nat /\ Len(file) \in Nat
    BY <1>1 DEF Types
  <2>. QED  BY <2>4, <2>5
<1>7. Conclude(header, b, r) /\ off' = off + Len(b)
  BY Zenon, <1>3
<1>. HIDE DEF r
<1>. QED  BY Zenon, <1>1, <1>2, <1>4, <1>5, <1>6, <1>7, Settles

-----------------------------------------------------------------------------
(* The invariant, and what follows from it.                                *)

LEMMA Initially == Init => Inv
<1>. HAVE Init
<1>. USE DEF Init
<1>1. PICK u \in Setups : image = u.image /\ regsize = u.regsize /\ pipe = u.pipe
  BY Zenon
<1>2. regsize \in [Side -> Nat \ {0}] /\ pipe \in BOOLEAN
  BY Zenon, <1>1, SizesAssumption
<1>3. \A s \in Side : /\ image[s] \in Seq(Ops) \ {<<>>}
                      /\ image[s][Len(image[s])] = OP_TESTEND
  BY Zenon, <1>1, ImagesAssumption DEF Ops
<1>4. pc \in [Side -> Nat] /\ \A s \in Side : pc[s] \in 1 .. Len(image[s])
  BY <1>3
<1>5. MachineTypes
  <2>1. reg \in [Side -> Vals \cup {NULL}] /\ mem \in [Side -> Vals]
        /\ memblock \in [Side -> BOOLEAN] /\ is_setup \in [Side -> BOOLEAN]
    BY Zenon
  <2>. QED  BY Zenon, <1>2, <1>3, <1>4, <2>1 DEF MachineTypes
<1>6. log[MASTER] = <<>> /\ log[APPRENTICE] = <<>> /\ log \in [Side -> Seq(Cp)]
      /\ st[MASTER] = "image" /\ st[APPRENTICE] = "image" /\ res[APPRENTICE] = "none"
      /\ st \in [Side -> {"image", "header", "payload", "close", "exit"}]
  BY DEF Side
<1>7. Types
  <2>1. out \in Seq(Cell) /\ file \in Seq(Cell) /\ off \in 0 .. Len(file)
    OBVIOUS
  <2>2. DOMAIN res = Side /\ accepted \in Nat /\ lost \in BOOLEAN
    BY Zenon
  <2>3. \A i \in 1 .. Len(log[MASTER]) :
          log[MASTER][i].op \in ZeroOps => log[MASTER][i].data = NULL
    BY <1>6
  <2>. QED  BY Zenon, <1>5, <1>6, <2>1, <2>2, <2>3 DEF Types
<1>8. MasterInv
  BY Zenon, <1>6 DEF MasterInv
<1>9. PICK pos : pos = [i \in 0 .. 0 |-> 0]
  BY Zenon
<1>10. pos \in [0 .. 0 -> Nat] /\ pos[0] = 0 /\ Len(Written) = 0
  BY <1>9 DEF Written
<1>11. StreamInv(pos)
  BY <1>6, <1>10 DEF StreamInv
<1>12. ReaderInv(pos)
  BY <1>6, <1>10 DEF ReaderInv
<1>. QED  BY Zenon, <1>6, <1>7, <1>8, <1>10, <1>11, <1>12 DEF Inv

LEMMA Stutters == Inv /\ UNCHANGED vars => Inv'
<1>. SUFFICES ASSUME Inv, UNCHANGED vars PROVE Inv'
  BY Zenon
<1>1. Types /\ MasterInv
  BY Zenon DEF Inv
<1>2. PICK pos : StreamInv(pos) /\ ReaderInv(pos)
  BY Zenon DEF Inv
<1>3. UNCHANGED <<machine, st, out, file, off, header, res, log, accepted, lost>>
  BY Zenon DEF vars, stream
<1>4. Types'
  <2>1. MachineTypes'
    BY Zenon, <1>1, <1>3, MachineKept DEF Types
  <2>. QED  BY Zenon, <1>1, <1>3, <2>1 DEF Types
<1>5. MasterInv' /\ StreamInv(pos)'
  BY Zenon, <1>1, <1>2, <1>3, MasterSame, StreamSame DEF machine
<1>6. ApprenticeKept
  BY Zenon, <1>3 DEF ApprenticeKept, machine
<1>7. RecordGrows
  <2>1. Len(log[MASTER]) \in Nat
    BY <1>1 DEF Types, Side
  <2>. QED  BY <2>1, <1>3 DEF RecordGrows
<1>8. ReaderInv(pos)'
  BY Zenon, <1>1, <1>2, <1>6, <1>7, ReaderKept
<1>. QED  BY Zenon, <1>4, <1>5, <1>8, InvAgain

LEMMA Inductive == Inv /\ [Next]_vars => Inv'
<1>. SUFFICES ASSUME Inv, [Next]_vars PROVE Inv'
  BY Zenon
<1>1. CASE Execute(MASTER) \/ SkipIllegal(MASTER)
  BY Zenon, <1>1, MasterExecutes
<1>2. CASE send_register_info
  BY Zenon, <1>2, Sends
<1>3. CASE close_comm \/ BusError \/ \E n \in 1 .. Len(out) : Drain(n)
  BY Zenon, <1>3, MasterWrites
<1>4. CASE WriteFails \/ Crash(MASTER) \/ ImageReturns(MASTER)
  BY Zenon, <1>4, MasterLeaves DEF WriteFails, Crash, ImageReturns, Runs
<1>5. CASE Execute(APPRENTICE) \/ SkipIllegal(APPRENTICE)
  BY Zenon, <1>5, ApprenticeExecutes
<1>6. CASE AwaitHeader
  BY Zenon, <1>6, Awaits
<1>7. CASE RecvHeader
  BY Zenon, <1>7, ReceivesHeader
<1>8. CASE RecvPayload
  BY Zenon, <1>8, ReceivesPayload
<1>9. CASE Crash(APPRENTICE) \/ ImageReturns(APPRENTICE)
  BY Zenon, <1>9, ApprenticeLeaves DEF Crash, ImageReturns, Runs
<1>10. CASE Finished \/ UNCHANGED vars
  BY Zenon, <1>10, Stutters DEF Finished
<1>. QED  BY Zenon, <1>1, <1>2, <1>3, <1>4, <1>5, <1>6, <1>7, <1>8, <1>9, <1>10
          DEF Next, MasterStep, ApprenticeStep, Side

LEMMA InvHolds == Spec => []Inv
BY Initially, Inductive, PTL DEF Spec

\* When playback fails, something was really wrong (recv_register_info and
\* recv_and_compare_register_info): for every pair of images, every size and
\* content, every place where the stream is cut.
THEOREM AlwaysFailureIsGenuine == Spec => []FailureIsGenuine
<1>1. Inv => FailureIsGenuine
  <2>. SUFFICES ASSUME Inv PROVE FailureIsGenuine
    BY Zenon
  <2>1. PICK pos : ReaderInv(pos)
    BY Zenon DEF Inv
  <2>2. res[APPRENTICE] \notin {"none", "RES_END", "killed", "returned"} => Excused
    BY Zenon, <2>1 DEF ReaderInv
  <2>. QED  BY Zenon, <2>2 DEF FailureIsGenuine, Excused
<1>. QED  BY <1>1, InvHolds, PTL

-----------------------------------------------------------------------------
(* Trace implements Replay.                                                *)

LEMMA StaysSame ==
  ASSUME log'[MASTER] = log[MASTER], accepted' = accepted,
         res'[APPRENTICE] = res[APPRENTICE],
         SubSeq(log'[APPRENTICE], 1, accepted) = SubSeq(log[APPRENTICE], 1, accepted)
  PROVE  UNCHANGED R!vars
BY Zenon DEF R!vars

LEMMA FailStep ==
  ASSUME UNCHANGED <<log, accepted>>, res[APPRENTICE] = "none",
         res'[APPRENTICE] \notin {"none", "RES_END"}
  PROVE  R!Fail
BY Zenon DEF R!Fail

\* A verdict is an acceptance in agreement, or a failure.
LEMMA SettledStep ==
  ASSUME Types, NEW pos, ReaderInv(pos),
         st[APPRENTICE] \in {"header", "payload"}, NEW h, NEW p, NEW r, Conclude(h, p, r),
         NEW o, Settled(pos, Verdict(h, p, r), p, o), log' = log
  PROVE  R!Next
<1>. DEFINE l == log[MASTER]  q == log[APPRENTICE]  a == accepted  m == l[a + 1]
<1>1. PICK v : v = Verdict(h, p, r)
  BY Zenon
<1>2. Settled(pos, v, p, o)
  BY Zenon, <1>1
<1>3. /\ res' = [res EXCEPT ![APPRENTICE] = IF v = "RES_OK" THEN "none" ELSE v]
      /\ accepted' = IF v \in {"RES_OK", "RES_END"} THEN accepted + 1 ELSE accepted
  BY <1>1, Concluded
<1>4. res'[APPRENTICE] = IF v = "RES_OK" THEN "none" ELSE v
  BY Zenon, <1>3 DEF Types, Side
<1>5. /\ a \in Nat /\ l \in Seq(Cp) /\ q \in Seq(Cp) /\ Len(q) = a + 1
      /\ q[a + 1] = Met(APPRENTICE) /\ res[APPRENTICE] = "none"
  BY Zenon DEF Types, Side, ReaderInv
<1>6. v # "none"
  BY Zenon, <1>2 DEF Settled
<1>7. CASE v \notin {"RES_OK", "RES_END"}
  <2>1. R!Fail
    BY Zenon, <1>3, <1>4, <1>5, <1>6, <1>7, FailStep
  <2>. QED  BY Zenon, <2>1 DEF R!Next
<1>8. CASE v \in {"RES_OK", "RES_END"}
  <2>1. /\ a < Len(l) /\ CpAgree(m, q[a + 1])
        /\ (v = "RES_END" => CpIsEnd(m)) /\ (v = "RES_OK" => ~CpIsEnd(m))
    BY Zenon, <1>2, <1>5, <1>8 DEF Settled
  <2>. HIDE DEF q, m
  <2>2. q[a + 1] \in Cp
    <3>1. a \in Nat /\ q \in Seq(Cp) /\ Len(q) = a + 1
      BY Zenon, <1>5 DEF q
    <3>. QED  BY <3>1
  <2>3. accepted' = a + 1
    BY Zenon, <1>3, <1>8
  <2>4. /\ Len(SubSeq(q, 1, a)) = a
        /\ SubSeq(q, 1, a + 1) = Append(SubSeq(q, 1, a), q[a + 1])
    <3>1. SubSeq(q, 1, a) \in Seq(Cp) /\ Len(SubSeq(q, 1, a)) = a
          /\ SubSeq(q, 1, a + 1) \in Seq(Cp) /\ Len(SubSeq(q, 1, a + 1)) = a + 1
      BY <1>5
    <3>2. \A i \in 1 .. a + 1 : SubSeq(q, 1, a + 1)[i] = q[i]
      BY <1>5
    <3>3. \A i \in 1 .. a : SubSeq(q, 1, a)[i] = q[i]
      BY <1>5
    <3>. DEFINE u == SubSeq(q, 1, a)  w == SubSeq(q, 1, a + 1)
    <3>. HIDE DEF u, w
    <3>4. /\ Append(u, q[a + 1]) \in Seq(Cp) /\ Len(Append(u, q[a + 1])) = a + 1
          /\ \A i \in 1 .. a : Append(u, q[a + 1])[i] = u[i]
          /\ Append(u, q[a + 1])[a + 1] = q[a + 1]
      BY <3>1, <2>2, <1>5 DEF u
    <3>5. ASSUME NEW i \in 1 .. a + 1  PROVE w[i] = Append(u, q[a + 1])[i]
      <4>1. i \in 1 .. a \/ i = a + 1
        BY <1>5
      <4>2. w[i] = q[i]
        BY Zenon, <3>2 DEF w
      <4>3. CASE i \in 1 .. a
        BY Zenon, <4>2, <4>3, <3>3, <3>4 DEF u
      <4>4. CASE i = a + 1
        BY Zenon, <4>2, <4>4, <3>4
      <4>. QED  BY Zenon, <4>1, <4>3, <4>4
    <3>6. w \in Seq(Cp) /\ Len(w) = a + 1
      BY Zenon, <3>1 DEF w
    <3>7. w = Append(u, q[a + 1])
      BY Zenon, <3>4, <3>5, <3>6, SameCells
    <3>. QED  BY Zenon, <3>1, <3>7 DEF u, w
  <2>5. SubSeq(log[APPRENTICE], 1, accepted)' = SubSeq(q, 1, a + 1)
    BY Zenon, <2>3 DEF q
  <2>6. R!Accept(q[a + 1])
    BY Zenon, <2>1, <2>4, <2>5, <1>4, <1>5, <1>8 DEF R!Accept, q, m
  <2>. QED  BY Zenon, <2>2, <2>6 DEF R!Next
<1>. QED  BY Zenon, <1>7, <1>8

LEMMA ReplayStep == Inv /\ [Next]_vars => [R!Next]_(R!vars)
<1>. SUFFICES ASSUME Inv, [Next]_vars PROVE R!Next \/ UNCHANGED R!vars
  BY Zenon
<1>1. Types
  BY Zenon DEF Inv
<1>2. PICK pos : StreamInv(pos) /\ ReaderInv(pos)
  BY Zenon DEF Inv
<1>3. CASE \E s \in Side : Execute(s) \/ SkipIllegal(s)
  BY Zenon, <1>3, StaysSame DEF Execute, SkipIllegal
<1>4. CASE send_register_info
  <2>1. /\ log' = [log EXCEPT ![MASTER] = Append(log[MASTER], Met(MASTER))]
        /\ UNCHANGED accepted
    BY Zenon, <1>4 DEF send_register_info, Enters, Met
  <2>2. log'[MASTER] = Append(log[MASTER], Met(MASTER)) /\ log'[APPRENTICE] = log[APPRENTICE]
    BY Zenon, <2>1, <1>1 DEF Types, Side, MASTER, APPRENTICE
  <2>3. res'[APPRENTICE] = res[APPRENTICE]
    BY Zenon, <1>4, MasterAlone DEF send_register_info
  <2>4. Met(MASTER) \in Cp
    BY Zenon, <1>1, OpTyped DEF Side
  <2>5. R!Record(Met(MASTER))
    BY Zenon, <2>1, <2>2, <2>3 DEF R!Record
  <2>. QED  BY Zenon, <2>4, <2>5 DEF R!Next
<1>5. CASE close_comm \/ BusError \/ \E n \in 1 .. Len(out) : Drain(n)
  <2>1. UNCHANGED <<log, accepted>> /\ res'[APPRENTICE] = res[APPRENTICE]
    BY Zenon, <1>5, MasterAlone DEF close_comm, BusError, Drain
  <2>. QED  BY Zenon, <2>1, StaysSame
<1>6. CASE WriteFails \/ Crash(MASTER) \/ ImageReturns(MASTER)
  <2>1. UNCHANGED <<log, accepted>> /\ res'[APPRENTICE] = res[APPRENTICE]
    BY Zenon, <1>6, MasterAlone DEF WriteFails, Crash, ImageReturns, Leave
  <2>. QED  BY Zenon, <2>1, StaysSame
<1>7. CASE AwaitHeader
  <2>. DEFINE q == log[APPRENTICE]
  <2>1. /\ log' = [log EXCEPT ![APPRENTICE] = Append(q, Met(APPRENTICE))]
        /\ UNCHANGED <<accepted, res>>
    BY Zenon, <1>7 DEF AwaitHeader, Enters, Met
  <2>2. log'[APPRENTICE] = Append(q, Met(APPRENTICE)) /\ log'[MASTER] = log[MASTER]
    BY Zenon, <2>1, <1>1 DEF Types, Side, MASTER, APPRENTICE
  <2>3. q \in Seq(Cp) /\ accepted \in Nat /\ accepted <= Len(q) /\ Met(APPRENTICE) \in Cp
    BY Zenon, <1>1, <1>2, OpTyped DEF Types, Side, ReaderInv
  <2>. HIDE DEF q
  <2>4. SubSeq(Append(q, Met(APPRENTICE)), 1, accepted) = SubSeq(q, 1, accepted)
    BY <2>3
  <2>. QED  BY Zenon, <2>1, <2>2, <2>4, StaysSame DEF q
<1>8. CASE RecvHeader
  <2>1. PICK b \in read_buffer(HeaderSize) :
          LET r == IF Len(b) = HeaderSize THEN HeaderResult(b) ELSE "RES_BAD_IO" IN
          IF r = "RES_OK" /\ b[2] > 0 THEN UNCHANGED <<res, accepted>>
          ELSE Conclude(b, <<>>, r)
    BY Zenon, <1>8 DEF RecvHeader
  <2>2. st[APPRENTICE] = "header" /\ log' = log
    BY Zenon, <1>8 DEF RecvHeader
  <2>. DEFINE r == IF Len(b) = HeaderSize THEN HeaderResult(b) ELSE "RES_BAD_IO"
  <2>3. CASE r = "RES_OK" /\ b[2] > 0
    BY Zenon, <2>1, <2>2, <2>3, StaysSame
  <2>4. CASE ~(r = "RES_OK" /\ b[2] > 0)
    <3>1. Settled(pos, Verdict(b, <<>>, r), <<>>, off + Len(b))
      BY Zenon, <2>2, <2>4, <1>1, <1>2, HeaderSettled DEF Inv
    <3>2. Conclude(b, <<>>, r)
      BY Zenon, <2>1, <2>4
    <3>. HIDE DEF r
    <3>. QED  BY Zenon, <3>1, <3>2, <2>2, <1>1, <1>2, SettledStep
  <2>. QED  BY Zenon, <2>3, <2>4
<1>9. CASE RecvPayload
  <2>1. PICK b \in read_buffer(header[2]) :
          Conclude(header, b,
             IF Len(b) # header[2] THEN "RES_BAD_IO"
             ELSE IF header[3] \in RegOps /\ header[2] # regsize[APPRENTICE]
                  THEN "RES_BAD_SIZE_REGINFO" ELSE "RES_OK")
    BY Zenon, <1>9 DEF RecvPayload
  <2>2. st[APPRENTICE] = "payload" /\ log' = log
    BY Zenon, <1>9 DEF RecvPayload
  <2>. DEFINE r == IF Len(b) # header[2] THEN "RES_BAD_IO"
                   ELSE IF header[3] \in RegOps /\ header[2] # regsize[APPRENTICE]
                        THEN "RES_BAD_SIZE_REGINFO" ELSE "RES_OK"
  <2>3. Settled(pos, Verdict(header, b, r), b, off + Len(b))
    BY Zenon, <2>2, <1>1, <1>2, PayloadSettled DEF Inv
  <2>4. Conclude(header, b, r)
    BY Zenon, <2>1
  <2>. HIDE DEF r
  <2>. QED  BY Zenon, <2>2, <2>3, <2>4, <1>1, <1>2, SettledStep
<1>10. CASE Crash(APPRENTICE) \/ ImageReturns(APPRENTICE)
  <2>1. st[APPRENTICE] # "exit" /\ UNCHANGED <<log, accepted>>
        /\ \E x \in {"killed", "returned"} : res' = [res EXCEPT ![APPRENTICE] = x]
    BY Zenon, <1>10 DEF Crash, ImageReturns, Runs, Leave
  <2>2. res[APPRENTICE] = "none" /\ res'[APPRENTICE] \notin {"none", "RES_END"}
    BY Zenon, <2>1, <1>1, <1>2 DEF ReaderInv, Types, Side
  <2>. QED  BY Zenon, <2>1, <2>2, FailStep DEF R!Next
<1>11. CASE Finished \/ UNCHANGED vars
  BY Zenon, <1>11, StaysSame DEF Finished, vars
<1>. QED  BY Zenon, <1>3, <1>4, <1>5, <1>6, <1>7, <1>8, <1>9, <1>10, <1>11
          DEF Next, MasterStep, ApprenticeStep, Side

\* Recording and playing back is a replay: what the apprentice accepts is what
\* was recorded, in order and in agreement, and it ends well only at the
\* recorded end of the test (recv_and_compare_register_info with read_buffer).
THEOREM TraceImplementsReplay == Spec => ImplementsReplay
<1>1. Init => R!Init
  <2>. HAVE Init
  <2>1. log[MASTER] = <<>> /\ log[APPRENTICE] = <<>> /\ accepted = 0
        /\ res[APPRENTICE] = "none"
    BY Zenon DEF Init, Side
  <2>2. SubSeq(log[APPRENTICE], 1, accepted) = <<>>
    BY <2>1
  <2>. QED  BY Zenon, <2>1, <2>2 DEF R!Init
<1>. QED  BY <1>1, ReplayStep, InvHolds, PTL DEF Spec, ImplementsReplay, R!Spec

=============================================================================
