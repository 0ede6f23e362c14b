-------------------------------- MODULE Trace ---------------------------------
(***************************************************************************)
(* risu's trace mode (src/risu.c with trace set): the master writes what   *)
(* it would send to a file or to a pipe, the apprentice reads it back, now *)
(* or later.  There are no lengths in front of packets and no responses:   *)
(* both handlers run at their own pace, and what was cut off is found only *)
(* by a read that returns less than was asked for.                         *)
(*                                                                         *)
(* The stream is a sequence of cells, one per field: a header is magic,    *)
(* size and operation, a reginfo and a memory block are payloads of their  *)
(* size.  zlib, the file and the pipe are external: what gzwrite has taken *)
(* reaches the file some time before gzclose returns and is lost when the  *)
(* process ends before; write() to a pipe blocks until all is in the pipe; *)
(* gzread returns what was asked for or what is left of the file, read()   *)
(* from a pipe any part of what is there.                                  *)
(***************************************************************************)
EXTENDS Integers, Sequences

CONSTANTS
  Setups,         \* [image, regsize, pipe]: what the two sides are started with
  Vals,           \* contents of the compared registers, and of a memory block
  MEMBLOCKLEN,    \* cells of a memory block
  RISU_MAGIC

MASTER == "master"
APPRENTICE == "apprentice"
Side == {MASTER, APPRENTICE}

OP_SIGILL == -1
OP_COMPARE == 0
OP_TESTEND == 1
OP_SETMEMBLOCK == 2
OP_GETMEMBLOCK == 3
OP_COMPAREMEM == 4
OP_SETUPBEGIN == 5
OP_SETUPEND == 6

RegOps == {OP_COMPARE, OP_TESTEND, OP_SIGILL}
ZeroOps == {OP_SETMEMBLOCK, OP_GETMEMBLOCK, OP_SETUPBEGIN, OP_SETUPEND}
NULL == -1

ASSUME ImagesAssumption ==
  \A u \in Setups, s \in Side :
    /\ u.image[s] \in Seq(RegOps \cup ZeroOps \cup {OP_COMPAREMEM}) \ {<<>>}
    /\ u.image[s][Len(u.image[s])] = OP_TESTEND

ASSUME SizesAssumption ==
  /\ MEMBLOCKLEN \in Nat \ {0}
  /\ \A u \in Setups : u.regsize \in [Side -> Nat \ {0}] /\ u.pipe \in BOOLEAN

\* A memory block does not look like a header.
ASSUME ValuesAssumption == Vals \subseteq Nat /\ RISU_MAGIC \notin Vals

VARIABLES
  image, regsize,         \* of each side; cells of its struct reginfo
  pipe,                   \* "-t -": comm_fd is stdout of the master, stdin here
  st,                     \* where each process is
  pc, reg, mem,           \* the machine: place, registers, the memory block
  memblock, is_setup,     \* is memblock set; the setup phase
  out,                    \* cells written that have not left the master
  file, off,              \* cells in the file or pipe, how many were read
  header,                 \* the apprentice's last header
  res,                    \* how each process ended
  log, accepted,          \* history: checkpoints entered, and accepted
  lost                    \* history: cells the master took to its grave

machine == <<image, regsize, pipe, pc, reg, mem, memblock, is_setup>>
stream == <<out, file, off>>
vars == <<machine, st, stream, header, res, log, accepted, lost>>

Header(o, n) == <<RISU_MAGIC, n, o>>
HeaderSize == 3
reginfo(s) == [i \in 1 .. regsize[s] |-> IF i = 1 THEN reg[s] ELSE 0]
Block(s) == [i \in 1 .. MEMBLOCKLEN |-> mem[s]]

Init ==
  /\ \E u \in Setups : image = u.image /\ regsize = u.regsize /\ pipe = u.pipe
  /\ st = [s \in Side |-> "image"]
  /\ pc = [s \in Side |-> 1]
  /\ reg \in [Side -> Vals] /\ mem \in [Side -> Vals]
  /\ reg[MASTER] = reg[APPRENTICE] /\ mem[MASTER] = mem[APPRENTICE]
  /\ memblock = [s \in Side |-> FALSE] /\ is_setup = [s \in Side |-> FALSE]
  /\ out = <<>> /\ file = <<>> /\ off = 0
  /\ header = <<>>
  /\ res = [s \in Side |-> "none"]
  /\ log = [s \in Side |-> <<>>] /\ accepted = 0 /\ lost = FALSE

-----------------------------------------------------------------------------
(* Both sides.                                                             *)

op(s) == image[s][pc[s]]

\* A recording is played back when it is finished; a pipe is read at once.
\* write() to the pipe has not returned while cells are left.
Runs(s) == /\ st[s] = "image"
           /\ IF s = MASTER THEN pipe => out = <<>>
                            ELSE pipe \/ st[MASTER] = "exit"

\* An ordinary instruction: its effect on the two sides may be any.
Execute(s) ==
  /\ Runs(s) /\ op(s) = OP_SIGILL
  /\ \E v, w \in Vals : reg' = [reg EXCEPT ![s] = v] /\ mem' = [mem EXCEPT ![s] = w]
  /\ pc' = [pc EXCEPT ![s] = @ + 1]
  /\ UNCHANGED <<image, regsize, pipe, memblock, is_setup, st, stream, header, res,
                 log, accepted, lost>>

\* It traps in a setup phase: counted and stepped over.
SkipIllegal(s) ==
  /\ Runs(s) /\ op(s) = OP_SIGILL /\ is_setup[s]
  /\ pc' = [pc EXCEPT ![s] = @ + 1]
  /\ UNCHANGED <<image, regsize, pipe, reg, mem, memblock, is_setup, st, stream,
                 header, res, log, accepted, lost>>

Enters(s) ==
  /\ Runs(s) /\ ~(op(s) = OP_SIGILL /\ is_setup[s])
  /\ log' = [log EXCEPT ![s] = Append(@,
       [op |-> op(s), setup |-> is_setup[s],
        data |-> IF op(s) \in RegOps THEN reg[s]
                 ELSE IF op(s) = OP_COMPAREMEM /\ memblock[s] THEN mem[s]
                 ELSE NULL])]

\* What a handler does to its own process before it returns RES_OK.
Effect(s) ==
  /\ pc' = [pc EXCEPT ![s] = @ + 1]
  /\ memblock' = [memblock EXCEPT ![s] = @ \/ op(s) = OP_SETMEMBLOCK]
  /\ is_setup' = [is_setup EXCEPT ![s] = IF op(s) = OP_SETUPBEGIN THEN TRUE
                                         ELSE IF op(s) = OP_SETUPEND THEN FALSE
                                         ELSE @]
  /\ UNCHANGED <<image, regsize, pipe, mem>>

\* The process dies: what it had buffered is lost.
Leave(s, r) ==
  /\ st' = [st EXCEPT ![s] = "exit"]
  /\ res' = [res EXCEPT ![s] = r]
  /\ out' = IF s = MASTER THEN <<>> ELSE out
  /\ lost' = (lost \/ (s = MASTER /\ out # <<>>))
  /\ UNCHANGED <<machine, file, off, header, log, accepted>>

Crash(s) == st[s] # "exit" /\ Leave(s, "killed")

ImageReturns(s) == Runs(s) /\ op(s) = OP_SIGILL /\ Leave(s, "returned")

-----------------------------------------------------------------------------
(* The master.                                                             *)

Payload ==
  IF op(MASTER) \in RegOps THEN reginfo(MASTER)
  ELSE IF op(MASTER) = OP_COMPAREMEM /\ memblock[MASTER] THEN Block(MASTER)
  ELSE <<>>

\* A COMPAREMEM without a block announces a payload that is not written.
PayloadSize(o) == IF o \in RegOps THEN regsize[MASTER]
                  ELSE IF o = OP_COMPAREMEM THEN MEMBLOCKLEN ELSE 0

send_register_info ==
  /\ Enters(MASTER)
  /\ out' = out \o Header(op(MASTER), PayloadSize(op(MASTER))) \o Payload
  /\ IF op(MASTER) = OP_TESTEND
       THEN /\ st' = [st EXCEPT ![MASTER] = "close"]
            /\ res' = [res EXCEPT ![MASTER] = "RES_END"]
            /\ UNCHANGED machine
       ELSE Effect(MASTER) /\ UNCHANGED <<st, res, reg>>
  /\ UNCHANGED <<file, off, header, accepted, lost>>

BusError ==
  /\ Runs(MASTER) /\ op(MASTER) = OP_SIGILL
  /\ st' = [st EXCEPT ![MASTER] = "close"]
  /\ res' = [res EXCEPT ![MASTER] = "RES_SIGBUS"]
  /\ UNCHANGED <<machine, stream, header, log, accepted, lost>>

\* Cells on their way to the file (deflate, write) or into the pipe.
Drain(n) ==
  /\ n \in 1 .. Len(out)
  /\ file' = file \o SubSeq(out, 1, n)
  /\ out' = SubSeq(out, n + 1, Len(out))
  /\ UNCHANGED <<machine, st, off, header, res, log, accepted, lost>>

\* (Mutant: close() of the descriptor without gzclose.)
close_comm_NoFlush ==
  /\ st[MASTER] = "close" /\ (pipe => out = <<>>)
  /\ st' = [st EXCEPT ![MASTER] = "exit"]
  /\ out' = <<>>
  /\ UNCHANGED <<machine, file, off, header, res, log, accepted, lost>>

close_comm ==
  /\ st[MASTER] = "close" /\ (pipe => out = <<>>)
  /\ st' = [st EXCEPT ![MASTER] = "exit"]
  /\ file' = file \o out /\ out' = <<>>
  /\ UNCHANGED <<machine, off, header, res, log, accepted, lost>>

\* write_buffer returns RES_BAD_IO; master() does not close the trace then.
WriteFails == st[MASTER] # "exit" /\ out # <<>> /\ Leave(MASTER, "RES_BAD_IO")

-----------------------------------------------------------------------------
(* The apprentice.                                                         *)

\* read_buffer(n): what the calls of the build may return, given what is
\* left: <<>> at the end of the file, nothing at all from an empty pipe.
\* (Mutant: an empty pipe is waited on although its writer is gone.)
read_buffer_WaitsAtEnd(n) ==
  LET rest == SubSeq(file, off + 1, Len(file)) IN
  IF ~pipe THEN {SubSeq(rest, 1, IF n < Len(rest) THEN n ELSE Len(rest))}
  ELSE {SubSeq(rest, 1, i) : i \in 1 .. IF n < Len(rest) THEN n ELSE Len(rest)}

read_buffer(n) ==
  LET rest == SubSeq(file, off + 1, Len(file)) IN
  IF ~pipe THEN {SubSeq(rest, 1, IF n < Len(rest) THEN n ELSE Len(rest))}
  ELSE IF rest = <<>> THEN IF st[MASTER] = "exit" THEN {<<>>} ELSE {}
  ELSE {SubSeq(rest, 1, i) : i \in 1 .. IF n < Len(rest) THEN n ELSE Len(rest)}

AwaitHeader ==
  /\ Enters(APPRENTICE)
  /\ st' = [st EXCEPT ![APPRENTICE] = "header"]
  /\ UNCHANGED <<machine, stream, header, res, accepted, lost>>

\* The header does not fit the operation it names, or this build.
HeaderResult(h) ==
  IF h[1] # RISU_MAGIC THEN "RES_BAD_MAGIC"
  ELSE IF h[3] \in RegOps
    THEN IF h[2] > regsize[APPRENTICE] THEN "RES_BAD_SIZE_HEADER" ELSE "RES_OK"
  ELSE IF h[3] = OP_COMPAREMEM
    THEN IF h[2] # MEMBLOCKLEN THEN "RES_BAD_SIZE_MEMBLOCK" ELSE "RES_OK"
  ELSE IF h[3] \in ZeroOps
    THEN IF h[2] # 0 THEN "RES_BAD_SIZE_ZERO" ELSE "RES_OK"
  ELSE "RES_BAD_OP"

\* (Mutant: matching registers are enough.)
CompareResult_NoOp(o, h, p) ==
  IF o \in RegOps THEN
    IF h[3] \notin RegOps THEN "RES_MISMATCH_OP"
    ELSE IF ~is_setup[APPRENTICE] /\ p[1] # reg[APPRENTICE] THEN "RES_MISMATCH_REG"
    ELSE IF o = OP_TESTEND THEN "RES_END" ELSE "RES_OK"
  ELSE IF o # h[3] THEN "RES_MISMATCH_OP"
  ELSE IF o = OP_COMPAREMEM /\ p # Block(APPRENTICE) THEN "RES_MISMATCH_MEM"
  ELSE "RES_OK"

CompareResult(o, h, p) ==
  IF o \in RegOps THEN
    IF h[3] \notin RegOps THEN "RES_MISMATCH_OP"
    ELSE IF ~is_setup[APPRENTICE] /\ p[1] # reg[APPRENTICE] THEN "RES_MISMATCH_REG"
    ELSE IF o # h[3] THEN "RES_MISMATCH_OP"
    ELSE IF o = OP_TESTEND THEN "RES_END" ELSE "RES_OK"
  ELSE IF o # h[3] THEN "RES_MISMATCH_OP"
  ELSE IF o = OP_COMPAREMEM /\ p # Block(APPRENTICE) THEN "RES_MISMATCH_MEM"
  ELSE "RES_OK"

\* The end of recv_and_compare_register_info and of the handler.  memcmp of a
\* block that was never set faults.
Conclude(h, p, r) ==
  LET o == op(APPRENTICE)
      s == APPRENTICE
      c == IF r # "RES_OK" THEN r
           ELSE IF o = h[3] /\ o = OP_COMPAREMEM /\ ~memblock[s] THEN "killed"
           ELSE CompareResult(o, h, p)
  IN /\ res' = [res EXCEPT ![s] = IF c = "RES_OK" THEN "none" ELSE c]
     /\ st' = [st EXCEPT ![s] = IF c = "RES_OK" THEN "image" ELSE "exit"]
     /\ accepted' = IF c \in {"RES_OK", "RES_END"} THEN accepted + 1 ELSE accepted
     /\ IF c = "RES_OK"
          THEN /\ Effect(s)
               /\ reg' = IF o = OP_COMPARE THEN [reg EXCEPT ![s] = p[1]] ELSE reg
          ELSE UNCHANGED machine

RecvHeader ==
  /\ st[APPRENTICE] = "header"
  /\ \E b \in read_buffer(HeaderSize) :
       LET r == IF Len(b) = HeaderSize THEN HeaderResult(b) ELSE "RES_BAD_IO" IN
       /\ off' = off + Len(b)
       /\ header' = b
       /\ IF r = "RES_OK" /\ b[2] > 0
            THEN /\ st' = [st EXCEPT ![APPRENTICE] = "payload"]
                 /\ UNCHANGED <<machine, res, accepted>>
            ELSE Conclude(b, <<>>, r)
  /\ UNCHANGED <<out, file, log, lost>>

RecvPayload ==
  /\ st[APPRENTICE] = "payload"
  /\ \E b \in read_buffer(header[2]) :
       /\ off' = off + Len(b)
       /\ Conclude(header, b,
            IF Len(b) # header[2] THEN "RES_BAD_IO"
            ELSE IF header[3] \in RegOps /\ header[2] # regsize[APPRENTICE]
                 THEN "RES_BAD_SIZE_REGINFO" ELSE "RES_OK")
  /\ UNCHANGED <<out, file, header, log, lost>>

-----------------------------------------------------------------------------
Finished == (\A s \in Side : st[s] = "exit") /\ UNCHANGED vars

MasterStep == Execute(MASTER) \/ SkipIllegal(MASTER) \/ send_register_info
                \/ close_comm \/ \E n \in 1 .. Len(out) : Drain(n)
ApprenticeStep == Execute(APPRENTICE) \/ SkipIllegal(APPRENTICE) \/ AwaitHeader
                    \/ RecvHeader \/ RecvPayload

Next == \/ MasterStep \/ BusError \/ WriteFails
        \/ ApprenticeStep
        \/ \E s \in Side : Crash(s) \/ ImageReturns(s)
        \/ Finished

Spec == Init /\ [][Next]_vars
FairSpec == Spec /\ WF_vars(MasterStep) /\ WF_vars(ApprenticeStep)

-----------------------------------------------------------------------------
(* Properties.                                                             *)

\* Registers are not compared in a setup phase; a memory block always is.
CpAgree(r, c) == r.op = c.op /\ ((c.setup /\ c.op \in RegOps) \/ r.data = c.data)
CpIsEnd(r) == r.op = OP_TESTEND
Cp == [op : RegOps \cup ZeroOps \cup {OP_COMPAREMEM}, setup : BOOLEAN,
       data : Vals \cup {NULL}]

\* Recording and playing back is a replay: whatever is cut, buffered, lost or
\* read in pieces, the checkpoints the apprentice accepts are the recorded
\* ones, in order and in agreement, and RES_END needs all of them up to the
\* recorded end of test (recv_and_compare_register_info with read_buffer).
R == INSTANCE Replay WITH
       Checkpoint <- Cp, Agree <- CpAgree, IsEnd <- CpIsEnd,
       recorded <- log[MASTER],
       accepted <- SubSeq(log[APPRENTICE], 1, accepted),
       verdict <- IF res[APPRENTICE] = "none" THEN "none"
                  ELSE IF res[APPRENTICE] = "RES_END" THEN "match" ELSE "fail"
ImplementsReplay == R!Spec

\* When playback fails, something was really wrong: the builds differ in the
\* size of a reginfo, the master left cells unwritten, it never got to this
\* checkpoint, it compared a memory block it did not have, or the checkpoints
\* disagree.  A complete trace of an agreeing master never fails.  From a pipe
\* it may also fail to read: read_buffer takes a part of what it asked for as
\* an error.
FailureIsGenuine ==
  LET k == Len(log[APPRENTICE]) IN
  res[APPRENTICE] \notin {"none", "RES_END", "killed", "returned"} =>
    \/ regsize[MASTER] # regsize[APPRENTICE]
    \/ lost
    \/ pipe /\ res[APPRENTICE] = "RES_BAD_IO"
    \/ k > Len(log[MASTER])
    \/ \E i \in 1 .. Len(log[MASTER]) :
         log[MASTER][i].op = OP_COMPAREMEM /\ log[MASTER][i].data = NULL
    \/ ~CpAgree(log[MASTER][k], log[APPRENTICE][k])

\* Playback comes to an end, however the recording ended: every read returns,
\* at the latest at the end of the file or when the writer of the pipe is gone.
PlaybackEnds == <>(st[APPRENTICE] = "exit")
=============================================================================
