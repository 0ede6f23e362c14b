------------------------------- MODULE Lockstep -------------------------------
(***************************************************************************)
(* risu's test harness: a master and an apprentice process run the same    *)
(* test image on two implementations of an architecture.  Every risuop in  *)
(* the image, and every other instruction that traps, enters a SIGILL      *)
(* handler; the two handlers meet over a TCP connection, the master sends  *)
(* a header and, for some operations, a payload, the apprentice compares   *)
(* and answers each packet with one response byte.                         *)
(*                                                                         *)
(* Source: src/risu.c (handlers, master(), apprentice()), src/comms.c      *)
(* (packets, seen here as indivisible), src/risu_ppc64.c and               *)
(* src/risu_reginfo_ppc64.c (what the handlers ask of the architecture).   *)
(***************************************************************************)
EXTENDS Integers, Sequences

CONSTANTS
  Images,          \* the test images that may be loaded
  Conforming,      \* those on which the two implementations agree wherever
                   \* reginfo_is_eq compares them
  MaxImage,        \* bound: no image is longer
  Reg,             \* the comparable parts of struct reginfo
  ParamReg,        \* the register that carries a risuop's parameter (r0)
  LinkReg,         \* the link register, compared relative to the pc
  WordMod,         \* words are 0 .. WordMod - 1
  Mapped,          \* addresses get_arch_memory finds a memory block at
  StartRegs,       \* StartRegs[s]: register contents when s enters the image
  StartMem,        \* StartMem[s]: memory blocks of the image as s loads it
  RegSizes,        \* the pairs of builds: sizeof(struct reginfo) on each side
  HeaderSize,      \* sizeof(trace_header_t)
  MEMBLOCKLEN,
  Compared(_, _, _, _), \* Compared(mpc, mregs, apc, aregs): the parts of two
                   \* reginfos that reginfo_is_eq insists on
  Updated,         \* the parts reginfo_update writes
  Exec(_, _, _, _) \* Exec(s, p, r, m): what the instruction at p may do on s

MASTER == "master"
APPRENTICE == "apprentice"
Side == {MASTER, APPRENTICE}

OP_SIGILL == -1
OP_COMPARE == 0
OP_TESTEND == 1
OP_SETMEMBLOCK == 2
OP_GETMEMBLOCK == 3
OP_COMPAREMEM == 4
OP_SETUPBEGIN == 5
OP_SETUPEND == 6

\* get_risuop returns the low four bits of a risuop, so 7 .. 15 also occur.
RisuOp == OP_SIGILL .. 15

RegOps == {OP_COMPARE, OP_TESTEND, OP_SIGILL}
SetupOps == {OP_SETUPBEGIN, OP_SETUPEND}
ZeroOps == {OP_SETMEMBLOCK, OP_GETMEMBLOCK} \cup SetupOps
KnownOps == RegOps \cup ZeroOps \cup {OP_COMPAREMEM}

Mismatch == {"RES_MISMATCH_REG", "RES_MISMATCH_MEM", "RES_MISMATCH_OP"}
RisuResult == {"RES_OK", "RES_END", "RES_BAD_IO", "RES_BAD_SIZE_HEADER",
               "RES_BAD_SIZE_REGINFO", "RES_SIGBUS"} \cup Mismatch

Word == 0 .. WordMod - 1
NULL == -1
Regs == [Reg -> Word]
Mems == [Mapped -> Word]
Outcome == [trap : {"none", "SIGILL", "SIGBUS", "return"},
            pc : 1 .. MaxImage, regs : Regs, mem : Mems]

\* An image is the sequence of what get_risuop finds at each pc (OP_SIGILL
\* for an ordinary instruction); risugen ends every image with OP_TESTEND.
ASSUME ImagesAssumption ==
  \A im \in Images : /\ im \in Seq(RisuOp)
                     /\ Len(im) \in 1 .. MaxImage
                     /\ im[Len(im)] = OP_TESTEND

ASSUME MachineAssumption ==
  /\ MaxImage \in Nat
  /\ WordMod \in Nat \ {0}
  /\ ParamReg \in Reg /\ LinkReg \in Reg
  /\ Mapped \subseteq Word
  /\ StartRegs \in [Side -> Regs]
  /\ StartMem \in [Side -> Mems]
  /\ Updated \subseteq Reg

\* A header (16 or 24 bytes) is never as long as a payload.
ASSUME SizeAssumption ==
  /\ HeaderSize \in Nat /\ MEMBLOCKLEN \in Nat /\ HeaderSize # MEMBLOCKLEN
  /\ \A z \in RegSizes : z \in [Side -> Nat] /\ HeaderSize # z[MASTER]

ASSUME ExecAssumption ==
  \A s \in Side, p \in 1 .. MaxImage, r \in Regs, m \in Mems :
    Exec(s, p, r, m) \subseteq Outcome

VARIABLES
  image,                \* load_image
  regsize,              \* sizeof(struct reginfo), fixed by the builds
  st,                   \* where each process is: in the image, blocked, gone
  pc, regs,             \* the ucontext of each process
  mem,                  \* the memory blocks of each process
  memblock, arch_memblock, is_setup,
  signal_count, illegal_instructions,
  header,               \* the apprentice's copy of the last header
  res, code,            \* result handed to siglongjmp, exit status
  toApprentice,         \* packets in flight
  toMaster,             \* response bytes in flight
  log,                  \* history: the checkpoints each process has entered
  accepted              \* history: how many of them the apprentice accepted

cpu == <<pc, regs, mem>>
blocks == <<memblock, arch_memblock, is_setup>>
counts == <<signal_count, illegal_instructions>>
wire == <<toApprentice, toMaster>>
ending == <<res, code>>
history == <<log, accepted>>
given == <<image, regsize>>
vars == <<given, st, cpu, blocks, counts, header, wire, ending, history>>

-----------------------------------------------------------------------------
(* Packets.  send_data_pkt puts the length in front of the data.           *)

HeaderPkt(o, n) == [len |-> HeaderSize, op |-> o, size |-> n]
ReginfoPkt(p, r) == [len |-> regsize[MASTER], pc |-> p, regs |-> r]
MemPkt(m) == [len |-> MEMBLOCKLEN, data |-> m]
Responses == {"RES_OK", "RES_END"}

(* The architecture.                                                       *)

get_risuop(s) == image[pc[s]]
get_arch_memory(a) == IF a \in Mapped THEN a ELSE NULL
BlockData(s) == IF memblock[s] = NULL THEN NULL ELSE mem[s][memblock[s]]

PayloadSize(o) == IF o \in RegOps THEN regsize[MASTER]
                  ELSE IF o = OP_COMPAREMEM THEN MEMBLOCKLEN ELSE 0

reginfo_is_eq(m, a) ==
  /\ \A r \in Compared(m.pc, m.regs, a.pc, a.regs) : m.regs[r] = a.regs[r]
  /\ (m.regs[LinkReg] - m.pc) % WordMod = (a.regs[LinkReg] - a.pc) % WordMod

\* (Mutant: nothing is written back.)
reginfo_update_Nothing(m, r) == r

reginfo_update(m, r) == [x \in Reg |-> IF x \in Updated THEN m[x] ELSE r[x]]

\* What the image may do next on s, when the instruction is no risuop.
Outcomes(s) == {o \in Exec(s, pc[s], regs[s], mem[s]) : get_risuop(s) = OP_SIGILL}

\* s takes a SIGILL: a risuop always does, another instruction may.
Illegal(s) ==
  /\ st[s] = "image"
  /\ \/ get_risuop(s) # OP_SIGILL
     \/ \E o \in Outcomes(s) : o.trap = "SIGILL"

advance_pc(s) == pc' = [pc EXCEPT ![s] = @ + 1]

\* The ways a process ends: siglongjmp to master()/apprentice() with a
\* result, exit() from a failed read or write, or death by a signal.
longjmp(s, r) ==
  /\ st' = [st EXCEPT ![s] = "exit"]
  /\ res' = [res EXCEPT ![s] = r]
  /\ code' = [code EXCEPT ![s] = IF r = "RES_END" THEN "EXIT_SUCCESS"
                                                  ELSE "EXIT_FAILURE"]

Stop(s, c) ==
  /\ st' = [st EXCEPT ![s] = "exit"]
  /\ code' = [code EXCEPT ![s] = c]
  /\ res' = res

\* The state a process brings to a checkpoint, for the history: count is
\* the number of checkpoints print_stats would report before this one.
Checkpoint(s) ==
  [op |-> get_risuop(s), pc |-> pc[s], regs |-> regs[s], data |-> BlockData(s),
   setup |-> is_setup[s],
   count |-> signal_count[s] - illegal_instructions[s]]

Enter(s) == log' = [log EXCEPT ![s] = Append(@, Checkpoint(s))]

\* (Mutant: an illegal instruction of a setup phase is not counted.)
CountSignal_AfterSetupReturn(s) ==
  /\ signal_count' = [signal_count EXCEPT ![s] = @ + 1]
  /\ illegal_instructions' =
       [illegal_instructions EXCEPT
          ![s] = IF get_risuop(s) = OP_SIGILL /\ ~is_setup[s] THEN @ + 1 ELSE @]

\* signal_count++ at the start of a handler, illegal_instructions++ when the
\* operation is OP_SIGILL.
CountSignal(s) ==
  /\ signal_count' = [signal_count EXCEPT ![s] = @ + 1]
  /\ illegal_instructions' =
       [illegal_instructions EXCEPT ![s] = IF get_risuop(s) = OP_SIGILL
                                             THEN @ + 1 ELSE @]

Init ==
  /\ image \in Images
  /\ regsize \in RegSizes
  /\ st = [s \in Side |-> "image"]
  /\ pc = [s \in Side |-> 1]
  /\ regs = StartRegs
  /\ mem = StartMem
  /\ memblock = [s \in Side |-> NULL]
  /\ arch_memblock = [s \in Side |-> 0]
  /\ is_setup = [s \in Side |-> FALSE]
  /\ signal_count = [s \in Side |-> 0]
  /\ illegal_instructions = [s \in Side |-> 0]
  /\ header = [len |-> HeaderSize, op |-> OP_COMPARE, size |-> 0]
  /\ res = [s \in Side |-> "RES_OK"]
  /\ code = [s \in Side |-> "running"]
  /\ toApprentice = <<>>
  /\ toMaster = <<>>
  /\ log = [s \in Side |-> <<>>]
  /\ accepted = 0

-----------------------------------------------------------------------------
(* Steps either process takes.                                             *)

Execute(s) ==
  /\ st[s] = "image"
  /\ \E o \in Outcomes(s) :
       /\ o.trap = "none"
       /\ o.pc \in DOMAIN image
       /\ pc' = [pc EXCEPT ![s] = o.pc]
       /\ regs' = [regs EXCEPT ![s] = o.regs]
       /\ mem' = [mem EXCEPT ![s] = o.mem]
  /\ UNCHANGED <<given, st, blocks, counts, header, wire, ending, history>>

ImageReturns(s) ==
  /\ st[s] = "image"
  /\ \E o \in Outcomes(s) : o.trap = "return"
  /\ Stop(s, "EXIT_FAILURE")
  /\ UNCHANGED <<given, cpu, blocks, counts, header, wire, history>>

BusError(s) ==
  /\ st[s] = "image"
  /\ \E o \in Outcomes(s) : o.trap = "SIGBUS"
  /\ signal_count' = [signal_count EXCEPT ![s] = @ + 1]
  /\ longjmp(s, "RES_SIGBUS")
  /\ UNCHANGED <<given, cpu, blocks, illegal_instructions, header, wire, history>>

\* An illegal instruction inside a setup phase is stepped over in silence.
SkipIllegal(s) ==
  /\ Illegal(s)
  /\ get_risuop(s) = OP_SIGILL
  /\ is_setup[s]
  /\ CountSignal(s)
  /\ advance_pc(s)
  /\ UNCHANGED <<given, st, regs, mem, blocks, header, wire, ending, history>>

\* The process is killed: SIGSEGV, which has no handler, or from outside.
Crash(s) ==
  /\ st[s] # "exit"
  /\ Stop(s, "killed")
  /\ UNCHANGED <<given, cpu, blocks, counts, header, wire, history>>

\* A checkpoint both processes must reach.
Meets(s) == Illegal(s) /\ ~(get_risuop(s) = OP_SIGILL /\ is_setup[s])

\* (Mutant: OP_SETUPEND does not reset is_setup.)
Effect_SetupStays(s, r) ==
  /\ arch_memblock' = [arch_memblock EXCEPT
       ![s] = IF get_risuop(s) = OP_SETMEMBLOCK THEN regs[s][ParamReg] ELSE @]
  /\ memblock' = [memblock EXCEPT
       ![s] = IF get_risuop(s) = OP_SETMEMBLOCK
                THEN get_arch_memory(regs[s][ParamReg]) ELSE @]
  /\ is_setup' = [is_setup EXCEPT ![s] = @ \/ get_risuop(s) = OP_SETUPBEGIN]
  /\ regs' = [regs EXCEPT ![s] = r]
  /\ advance_pc(s)
  /\ mem' = mem

\* What the operation does once it is accepted; TESTEND never gets here.
Effect(s, r) ==
  /\ arch_memblock' = [arch_memblock EXCEPT
       ![s] = IF get_risuop(s) = OP_SETMEMBLOCK THEN regs[s][ParamReg] ELSE @]
  /\ memblock' = [memblock EXCEPT
       ![s] = IF get_risuop(s) = OP_SETMEMBLOCK
                THEN get_arch_memory(regs[s][ParamReg]) ELSE @]
  /\ is_setup' = [is_setup EXCEPT
       ![s] = IF get_risuop(s) \in SetupOps
                THEN get_risuop(s) = OP_SETUPBEGIN ELSE @]
  /\ regs' = [regs EXCEPT
       ![s] = IF get_risuop(s) = OP_GETMEMBLOCK
                THEN [r EXCEPT ![ParamReg] = (@ + arch_memblock[s]) % WordMod]
                ELSE r]
  /\ advance_pc(s)
  /\ mem' = mem

-----------------------------------------------------------------------------
(* The master: master_sigill and send_register_info.  send_data_pkt blocks *)
(* on the response byte, so the handler is cut in three.                   *)

SendHeader ==
  LET op == get_risuop(MASTER) IN
  /\ Meets(MASTER)
  /\ op \in KnownOps
  /\ CountSignal(MASTER)
  /\ Enter(MASTER)
  /\ toApprentice' = Append(toApprentice, HeaderPkt(op, PayloadSize(op)))
  /\ st' = [st EXCEPT ![MASTER] = "header"]
  /\ UNCHANGED <<given, cpu, blocks, header, toMaster, ending, accepted>>

\* default: abort() in send_register_info.
UnknownOp ==
  /\ Meets(MASTER)
  /\ get_risuop(MASTER) \notin KnownOps
  /\ CountSignal(MASTER)
  /\ Stop(MASTER, "killed")
  /\ UNCHANGED <<given, cpu, blocks, header, wire, history>>

\* (Mutants: no payload for OP_SIGILL, or for OP_TESTEND.)
HasPayload_NotSigill ==
  \/ get_risuop(MASTER) \in RegOps \ {OP_SIGILL}
  \/ get_risuop(MASTER) = OP_COMPAREMEM /\ memblock[MASTER] # NULL

HasPayload_NotTestend ==
  \/ get_risuop(MASTER) \in RegOps \ {OP_TESTEND}
  \/ get_risuop(MASTER) = OP_COMPAREMEM /\ memblock[MASTER] # NULL

\* "extra" in send_register_info: COMPAREMEM before SETMEMBLOCK has none.
HasPayload ==
  \/ get_risuop(MASTER) \in RegOps
  \/ get_risuop(MASTER) = OP_COMPAREMEM /\ memblock[MASTER] # NULL

Payload == IF get_risuop(MASTER) \in RegOps
             THEN ReginfoPkt(pc[MASTER], regs[MASTER])
             ELSE MemPkt(BlockData(MASTER))

SendPayload ==
  /\ st[MASTER] = "header"
  /\ toMaster # <<>> /\ Head(toMaster) = "RES_OK"
  /\ HasPayload
  /\ toMaster' = Tail(toMaster)
  /\ toApprentice' = Append(toApprentice, Payload)
  /\ st' = [st EXCEPT ![MASTER] = "payload"]
  /\ UNCHANGED <<given, cpu, blocks, counts, header, ending, history>>

\* The last write_buffer came back RES_OK: the second switch of
\* send_register_info, then advance_pc in master_sigill.
MasterResumes ==
  /\ \/ st[MASTER] = "header" /\ ~HasPayload
     \/ st[MASTER] = "payload"
  /\ toMaster # <<>> /\ Head(toMaster) = "RES_OK"
  /\ toMaster' = Tail(toMaster)
  /\ IF get_risuop(MASTER) = OP_TESTEND
       THEN /\ longjmp(MASTER, "RES_END")
            /\ UNCHANGED <<cpu, blocks>>
       ELSE /\ Effect(MASTER, regs[MASTER])
            /\ st' = [st EXCEPT ![MASTER] = "image"]
            /\ UNCHANGED ending
  /\ UNCHANGED <<given, counts, header, toApprentice, history>>

\* Any other response byte is the result of write_buffer.
MasterStops ==
  /\ st[MASTER] \in {"header", "payload"}
  /\ toMaster # <<>> /\ Head(toMaster) # "RES_OK"
  /\ toMaster' = Tail(toMaster)
  /\ longjmp(MASTER, Head(toMaster))
  /\ UNCHANGED <<given, cpu, blocks, counts, header, toApprentice, history>>

\* read() != 1 in send_data_pkt: the apprentice has closed the connection.
MasterReadFails ==
  /\ st[MASTER] \in {"header", "payload"}
  /\ toMaster = <<>>
  /\ st[APPRENTICE] = "exit"
  /\ Stop(MASTER, "EXIT_FAILURE")
  /\ UNCHANGED <<given, cpu, blocks, counts, header, wire, history>>

-----------------------------------------------------------------------------
(* The apprentice: apprentice_sigill, recv_and_compare_register_info and   *)
(* recv_register_info, cut where read_buffer blocks.                       *)

AwaitHeader ==
  /\ Meets(APPRENTICE)
  /\ CountSignal(APPRENTICE)
  /\ Enter(APPRENTICE)
  /\ st' = [st EXCEPT ![APPRENTICE] = "header"]
  /\ UNCHANGED <<given, cpu, blocks, header, wire, ending, accepted>>

respond(r) ==
  toMaster' = Append(toMaster, IF r = "RES_OK" THEN "RES_OK" ELSE "RES_END")

\* (Mutants of the switch: the operations are not compared; OP_TESTEND wins
\* before they are; registers are compared in setup phases too.)
CompareResult_NoOpCheck(o, m, d) ==
  IF get_risuop(APPRENTICE) = OP_TESTEND THEN "RES_END" ELSE "RES_OK"

CompareResult_EndFirst(o, m, d) ==
  LET op == get_risuop(APPRENTICE)
      a == [pc |-> pc[APPRENTICE], regs |-> regs[APPRENTICE]]
  IN IF {op, o} \subseteq RegOps /\ ~is_setup[APPRENTICE] /\ ~reginfo_is_eq(m, a)
       THEN "RES_MISMATCH_REG"
     ELSE IF op = OP_TESTEND THEN "RES_END"
     ELSE IF op # o THEN "RES_MISMATCH_OP" ELSE "RES_OK"

CompareResult_InSetup(o, m, d) ==
  LET op == get_risuop(APPRENTICE)
      a == [pc |-> pc[APPRENTICE], regs |-> regs[APPRENTICE]]
  IN IF {op, o} \subseteq RegOps /\ ~reginfo_is_eq(m, a) THEN "RES_MISMATCH_REG"
     ELSE IF op # o THEN "RES_MISMATCH_OP"
     ELSE IF op = OP_TESTEND THEN "RES_END" ELSE "RES_OK"

\* The switch of recv_and_compare_register_info: m is the master's reginfo,
\* d its memory block, o the operation of the header.
CompareResult(o, m, d) ==
  LET op == get_risuop(APPRENTICE)
      a == [pc |-> pc[APPRENTICE], regs |-> regs[APPRENTICE]]
  IN IF {op, o} \subseteq RegOps /\ ~is_setup[APPRENTICE] /\ ~reginfo_is_eq(m, a)
       THEN "RES_MISMATCH_REG"
     ELSE IF op # o THEN "RES_MISMATCH_OP"
     ELSE IF op = OP_TESTEND THEN "RES_END"
     ELSE IF op = OP_COMPAREMEM /\ BlockData(APPRENTICE) # d
       THEN "RES_MISMATCH_MEM"
     ELSE "RES_OK"

\* abort() on an unknown operation of its own; memcmp on a null memblock.
Faults(o) ==
  \/ get_risuop(APPRENTICE) \notin KnownOps
  \/ /\ get_risuop(APPRENTICE) = OP_COMPAREMEM
     /\ o = OP_COMPAREMEM
     /\ memblock[APPRENTICE] = NULL

\* "done:", with r the result: answer the master, then resume the image or
\* leave through apprentice().
Done(r, newregs) ==
  /\ respond(r)
  /\ accepted' = IF r \in {"RES_OK", "RES_END"} THEN accepted + 1 ELSE accepted
  /\ IF r = "RES_OK"
       THEN /\ Effect(APPRENTICE, newregs)
            /\ st' = [st EXCEPT ![APPRENTICE] = "image"]
            /\ UNCHANGED ending
       ELSE /\ longjmp(APPRENTICE, r)
            /\ UNCHANGED <<cpu, blocks>>
  /\ UNCHANGED <<given, counts, log>>

\* The result is known: finish the handler, unless it faults on the way.
Conclude(o, m, d) ==
  LET r == CompareResult(o, m, d) IN
  IF Faults(o)
    THEN /\ Stop(APPRENTICE, "killed")
         /\ UNCHANGED <<given, cpu, blocks, counts, toMaster, history>>
    ELSE Done(r, IF r = "RES_OK" /\ get_risuop(APPRENTICE) = OP_COMPARE
                   THEN reginfo_update(m.regs, regs[APPRENTICE])
                   ELSE regs[APPRENTICE])

\* recv_register_info up to its first return or its second read_buffer.
RecvHeader ==
  /\ st[APPRENTICE] = "header"
  /\ toApprentice # <<>>
  /\ toApprentice' = Tail(toApprentice)
  /\ header' = Head(toApprentice)
  /\ LET h == Head(toApprentice)
         none == [pc |-> pc[APPRENTICE], regs |-> regs[APPRENTICE]]
     IN \/ /\ h.op \in RegOps /\ h.size > regsize[APPRENTICE]
           /\ Done("RES_BAD_SIZE_HEADER", regs[APPRENTICE])
        \/ /\ \/ h.op \in RegOps /\ h.size <= regsize[APPRENTICE]
              \/ h.op = OP_COMPAREMEM
           /\ respond("RES_OK")
           /\ st' = [st EXCEPT ![APPRENTICE] = "payload"]
           /\ UNCHANGED <<given, cpu, blocks, counts, ending, history>>
        \/ /\ h.op \in ZeroOps
           /\ Conclude(h.op, none, NULL)

\* The payload's own length must be the one the header announced; then its
\* size must be the receiver's reginfo_size.
RecvPayload ==
  /\ st[APPRENTICE] = "payload"
  /\ toApprentice # <<>>
  /\ toApprentice' = Tail(toApprentice)
  /\ header' = header
  /\ LET p == Head(toApprentice)
         none == [pc |-> pc[APPRENTICE], regs |-> regs[APPRENTICE]]
     IN \/ /\ p.len # header.size
           /\ Done("RES_BAD_IO", regs[APPRENTICE])
        \/ /\ p.len = header.size
           /\ header.op \in RegOps /\ header.size # regsize[APPRENTICE]
           /\ Done("RES_BAD_SIZE_REGINFO", regs[APPRENTICE])
        \/ /\ p.len = header.size
           /\ header.op \in RegOps /\ header.size = regsize[APPRENTICE]
           /\ Conclude(header.op, [pc |-> p.pc, regs |-> p.regs], NULL)
        \/ /\ p.len = header.size
           /\ header.op = OP_COMPAREMEM
           /\ Conclude(header.op, none, p.data)

\* (Mutant: the read is tried again.)
ApprenticeReadFails_Retries ==
  /\ st[APPRENTICE] \in {"header", "payload"}
  /\ toApprentice = <<>>
  /\ st[MASTER] = "exit"
  /\ UNCHANGED vars

\* read() <= 0 in recv_bytes: the master has closed the connection.
ApprenticeReadFails ==
  /\ st[APPRENTICE] \in {"header", "payload"}
  /\ toApprentice = <<>>
  /\ st[MASTER] = "exit"
  /\ Stop(APPRENTICE, "EXIT_FAILURE")
  /\ UNCHANGED <<given, cpu, blocks, counts, header, wire, history>>

\* write() != 1 in send_response_byte, after a packet of a master that has
\* closed the connection since: the result of the comparison is lost.
RespondFails ==
  /\ st[APPRENTICE] \in {"header", "payload"}
  /\ toApprentice # <<>>
  /\ st[MASTER] = "exit"
  /\ toApprentice' = Tail(toApprentice)
  /\ Stop(APPRENTICE, "EXIT_FAILURE")
  /\ UNCHANGED <<given, cpu, blocks, counts, header, toMaster, history>>

-----------------------------------------------------------------------------

RunsImage(s) == Execute(s) \/ ImageReturns(s) \/ BusError(s) \/ SkipIllegal(s)

MasterStep ==
  \/ RunsImage(MASTER)
  \/ SendHeader \/ UnknownOp \/ SendPayload
  \/ MasterResumes \/ MasterStops \/ MasterReadFails

ApprenticeStep ==
  \/ RunsImage(APPRENTICE)
  \/ AwaitHeader \/ RecvHeader \/ RecvPayload
  \/ ApprenticeReadFails \/ RespondFails

\* Both processes are gone: nothing is left to happen.
BothExited == \A s \in Side : st[s] = "exit"
Finished == BothExited /\ UNCHANGED vars

Next ==
  \/ MasterStep
  \/ ApprenticeStep
  \/ \E s \in Side : Crash(s)
  \/ Finished

Spec == Init /\ [][Next]_vars

FairSpec == Spec /\ WF_vars(MasterStep) /\ WF_vars(ApprenticeStep)

-----------------------------------------------------------------------------
(* Properties.                                                             *)

Outgoing == [len : {HeaderSize}, op : RisuOp, size : Nat]
              \cup [len : {regsize[MASTER]}, pc : 1 .. MaxImage, regs : Regs]
              \cup [len : {MEMBLOCKLEN}, data : Word]

Checkpoints == [op : RisuOp, pc : 1 .. MaxImage, regs : Regs,
                data : Word \cup {NULL}, setup : BOOLEAN, count : Int]

\* Every variable has its type; in particular no process runs past the
\* OP_TESTEND that ends its image, because no handler returns RES_OK for it
\* (the switches of send_register_info and recv_and_compare_register_info).
TypeOK ==
  /\ image \in Images
  /\ regsize \in RegSizes
  /\ st \in [Side -> {"image", "header", "payload", "exit"}]
  /\ pc \in [Side -> 1 .. Len(image)]
  /\ regs \in [Side -> Regs]
  /\ mem \in [Side -> Mems]
  /\ memblock \in [Side -> Mapped \cup {NULL}]
  /\ arch_memblock \in [Side -> Word]
  /\ is_setup \in [Side -> BOOLEAN]
  /\ signal_count \in [Side -> Nat]
  /\ illegal_instructions \in [Side -> Nat]
  /\ header \in [len : {HeaderSize}, op : RisuOp, size : Nat]
  /\ res \in [Side -> RisuResult]
  /\ code \in [Side -> {"running", "EXIT_SUCCESS", "EXIT_FAILURE", "killed"}]
  /\ toApprentice \in Seq(Outgoing)
  /\ toMaster \in Seq(Responses)
  /\ log \in [Side -> Seq(Checkpoints)]
  /\ accepted \in Nat

\* The two states a pair of checkpoints may be in for the apprentice to go on.
Agree(m, a) ==
  /\ m.op = a.op
  /\ m.setup = a.setup
  /\ m.count = a.count
  /\ m.op \in RegOps /\ ~m.setup => reginfo_is_eq(m, a)
  /\ m.op = OP_COMPAREMEM => m.data = a.data /\ m.data # NULL

\* The n-th checkpoint the apprentice accepts is compared with the n-th the
\* master entered, whatever the two images did in between and however many
\* illegal instructions either stepped over: same operation, same phase, same
\* count, equal registers outside setup, equal memory.  Nothing is ever
\* compared with a stale header or payload (recv_and_compare_register_info).
AcceptedAgree ==
  /\ \A s \in Side : accepted <= Len(log[s])
  /\ \A n \in 1 .. accepted : Agree(log[MASTER][n], log[APPRENTICE][n])

\* When the apprentice exits with success it has accepted every checkpoint
\* that either process entered, and the last one ended the test on both
\* (apprentice(), RES_END).
SuccessIsEarned ==
  code[APPRENTICE] = "EXIT_SUCCESS" =>
    /\ \A s \in Side : Len(log[s]) = accepted
    /\ accepted > 0
    /\ log[MASTER][accepted].op = OP_TESTEND
    /\ log[APPRENTICE][accepted].op = OP_TESTEND

\* A mismatch is reported only for the two checkpoints that the processes
\* really brought to the same place in their sequences, and they do differ in
\* what the report names; both operations have a name for op_name to print
\* (apprentice(), RES_MISMATCH_*).
AlarmIsGenuine ==
  res[APPRENTICE] \in Mismatch =>
    /\ \A s \in Side : Len(log[s]) = accepted + 1
    /\ LET m == log[MASTER][accepted + 1]
           a == log[APPRENTICE][accepted + 1]
       IN /\ res[APPRENTICE] = "RES_MISMATCH_OP" =>
               m.op # a.op /\ m.op \in KnownOps /\ a.op \in KnownOps
          /\ res[APPRENTICE] = "RES_MISMATCH_REG" =>
               /\ ~a.setup
               /\ m.op \in RegOps /\ a.op \in RegOps
               /\ ~reginfo_is_eq(m, a)
          /\ res[APPRENTICE] = "RES_MISMATCH_MEM" =>
               m.op = OP_COMPAREMEM /\ a.op = OP_COMPAREMEM /\ m.data # a.data

\* The length in front of a packet does its job: a size disagreement happens
\* only when the builds differ or when the master compares memory it never
\* set up, and it ends the apprentice rather than shifting the stream
\* (recv_data_pkt, recv_register_info).
SizeErrorsExplained ==
  /\ res[APPRENTICE] = "RES_BAD_IO" =>
       \E n \in 1 .. Len(log[MASTER]) :
          log[MASTER][n].op = OP_COMPAREMEM /\ log[MASTER][n].data = NULL
  /\ res[APPRENTICE] \in {"RES_BAD_SIZE_HEADER", "RES_BAD_SIZE_REGINFO"} =>
       regsize[MASTER] # regsize[APPRENTICE]

\* While both processes are in their images with nothing in flight they have
\* met equally often and agree on the setup phase and on the number of
\* checkpoints that print_stats reports.
InStep ==
  (/\ \A s \in Side : st[s] = "image"
   /\ toApprentice = <<>> /\ toMaster = <<>>) =>
    /\ Len(log[MASTER]) = Len(log[APPRENTICE])
    /\ is_setup[MASTER] = is_setup[APPRENTICE]
    /\ signal_count[MASTER] - illegal_instructions[MASTER]
         = signal_count[APPRENTICE] - illegal_instructions[APPRENTICE]

\* When the master says "done" the apprentice has already decided (or was
\* killed after answering); the master is never done by itself (master(),
\* RES_END).
DoneTogether == res[MASTER] = "RES_END" => st[APPRENTICE] = "exit"

\* Whatever the images do, short of looping forever, both processes stop:
\* no handler waits for a byte that nobody will send (respond, recv_data_pkt).
BothStop == <>BothExited

\* Two implementations that agree wherever reginfo_is_eq compares pass the
\* test unless one is killed: what is tolerated at an OP_COMPARE is healed by
\* reginfo_update and never comes back as a mismatch, and illegal instructions
\* that only one of them has are harmless in a setup phase.
ConformingPasses ==
  image \in Conforming /\ regsize[MASTER] = regsize[APPRENTICE] =>
  <>(\/ \A s \in Side : code[s] = "EXIT_SUCCESS"
     \/ \E s \in Side : code[s] = "killed")

\* "When the test ends the master will print ... the match or mismatch
\* status" (src/README:113-115): a master that ends with success is one whose
\* apprentice found no mismatch.
MasterKnowsVerdict ==
  code[MASTER] = "EXIT_SUCCESS" => res[APPRENTICE] \notin Mismatch
=============================================================================
