---------------------------- MODULE LockstepProofs ----------------------------
(***************************************************************************)
(* Lockstep keeps its promises for all images, machines and sizes: the     *)
(* initial states, lemmas about histories, counters and effects, the steps *)
(* either process takes, those of the master's handler, and those of the   *)
(* apprentice's with what the result of a comparison means; then that each *)
(* step keeps the invariant, and the theorems.                             *)
(***************************************************************************)
EXTENDS LockstepInv, TLAPS

\* No process that resumes its image runs off its end: only the OP_TESTEND
\* that risugen writes last is there, and no handler returns RES_OK for it.
LEMMA NotLast ==
  ASSUME TypeOK, NEW s \in Side, get_risuop(s) # OP_TESTEND
  PROVE pc[s] + 1 \in 1 .. Len(image)
<1>1. image \in Seq(RisuOp) /\ image[Len(image)] = OP_TESTEND
  BY Zenon, ImagesAssumption DEF TypeOK
<1>2. pc[s] \in 1 .. Len(image) /\ Len(image) \in Nat
  BY <1>1 DEF TypeOK
<1>3. pc[s] # Len(image)
  BY Zenon, <1>1 DEF get_risuop
<1> QED
  BY <1>2, <1>3

\* The invariant holds when risu_main has loaded the image and reset its
\* counters and both processes are about to enter the image.
LEMMA InitInductive == Init => Inductive
<1> SUFFICES ASSUME Init PROVE Inductive
  BY Zenon
<1> USE ImagesAssumption, MachineAssumption, SizeAssumption DEF Init
<1>1. TypeOK
  BY DEF TypeOK, Side, MASTER, APPRENTICE, NULL, Word, RisuOp, RisuResult,
    Responses, OP_COMPARE, OP_SIGILL
<1>2. HistoryInv /\ Verdicts
  BY DEF HistoryInv, Verdicts, AcceptedAgree, SuccessIsEarned, AlarmIsGenuine,
    SizeErrorsExplained, Side, MASTER, APPRENTICE, Mismatch
<1>3. ApprenticeInv /\ MasterInv
  BY DEF ApprenticeInv, MasterInv, Between, SetupAfter, CountAfter, LM, LA,
    Side, MASTER, APPRENTICE
<1>4. PacketInv /\ ResponseInv /\ EndInv
  BY Zenon DEF PacketInv, ResponseInv, EndInv, DoneTogether, LM, Side, MASTER,
    APPRENTICE, Mismatch
<1> QED
  BY Zenon, <1>1, <1>2, <1>3, <1>4 DEF Inductive

-----------------------------------------------------------------------------
(* What leaves the histories alone, and what entering a checkpoint does.   *)

\* Steps that enter no checkpoint leave both histories chained.
LEMMA HistoryFrame ==
  ASSUME HistoryInv, log' = log
  PROVE HistoryInv'
BY Zenon DEF HistoryInv, SetupAfter, CountAfter

\* Steps that neither compare nor end the apprentice leave every verdict as it
\* is.
LEMMA VerdictsFrame ==
  ASSUME Verdicts, UNCHANGED <<log, accepted, res, code, regsize>>
  PROVE Verdicts'
<1>1. AcceptedAgree' /\ SuccessIsEarned'
  BY Zenon DEF Verdicts, AcceptedAgree, SuccessIsEarned, Agree, reginfo_is_eq
<1>2. AlarmIsGenuine' /\ SizeErrorsExplained'
  BY Zenon DEF Verdicts, AlarmIsGenuine, SizeErrorsExplained, reginfo_is_eq
<1> QED
  BY Zenon, <1>1, <1>2 DEF Verdicts

\* The same for a step that ends s with a result that reports nothing about
\* the comparison.
LEMMA VerdictsStop ==
  ASSUME Verdicts, UNCHANGED <<log, accepted, regsize>>, NEW s \in Side,
         TypeOK, NEW c \in {"EXIT_FAILURE", "killed"},
         code' = [code EXCEPT ![s] = c],
         res' = res \/ res' = [res EXCEPT ![s] = "RES_SIGBUS"]
  PROVE Verdicts'
<1>1. AcceptedAgree'
  BY Zenon DEF Verdicts, AcceptedAgree, Agree, reginfo_is_eq
<1>2. SuccessIsEarned'
  BY DEF Verdicts, SuccessIsEarned, TypeOK
<1>3. res'[APPRENTICE] = res[APPRENTICE] \/ res'[APPRENTICE] = "RES_SIGBUS"
  BY Zenon DEF TypeOK, Side
<1>4. AlarmIsGenuine' /\ SizeErrorsExplained'
  BY Zenon, <1>3 DEF Verdicts, AlarmIsGenuine, SizeErrorsExplained, reginfo_is_eq, Mismatch
<1> QED
  BY Zenon, <1>1, <1>2, <1>4 DEF Verdicts

\* What a handler records of its process is a checkpoint.
LEMMA CheckpointType ==
  ASSUME TypeOK, NEW s \in Side
  PROVE Checkpoint(s) \in Checkpoints
<1>1. get_risuop(s) \in RisuOp /\ pc[s] \in 1 .. MaxImage
  BY ImagesAssumption, MachineAssumption DEF TypeOK, get_risuop
<1>2. BlockData(s) \in Word \cup {NULL}
  BY MachineAssumption DEF TypeOK, BlockData, Mems
<1> QED
  BY <1>1, <1>2 DEF Checkpoint, Checkpoints, TypeOK

\* Entering a checkpoint appends it to one history and leaves the other alone.
LEMMA EnterFacts ==
  ASSUME TypeOK, NEW s \in Side, Enter(s)
  PROVE /\ log' \in [Side -> Seq(Checkpoints)]
        /\ Len(log'[s]) = Len(log[s]) + 1
        /\ \A i \in 1 .. Len(log[s]) : log'[s][i] = log[s][i]
        /\ log'[s][Len(log[s]) + 1] = Checkpoint(s)
        /\ \A t \in Side : t # s => log'[t] = log[t]
BY SMTT(30), CheckpointType DEF Enter, TypeOK

\* Phase and count after n checkpoints only depend on the n-th.
LEMMA AfterEqual ==
  ASSUME NEW l, NEW k, NEW n, n # 0 => k[n] = l[n]
  PROVE SetupAfter(k, n) = SetupAfter(l, n) /\ CountAfter(k, n) = CountAfter(l, n)
<1>1. CASE n = 0
  BY Zenon, <1>1 DEF SetupAfter, CountAfter
<1>2. CASE n # 0
  BY <1>2, Zenon DEF SetupAfter, CountAfter
<1> QED
  BY Zenon, <1>1, <1>2

\* Entering a checkpoint from between checkpoints keeps the histories chained:
\* phase and count of the new entry follow from the one before it.
LEMMA HistoryEnter ==
  ASSUME TypeOK, HistoryInv, NEW s \in Side, Enter(s), Between(s, Len(log[s]))
  PROVE HistoryInv'
<1> SUFFICES ASSUME NEW t \in Side, NEW i \in 1 .. Len(log'[t])
             PROVE /\ log'[t][i].setup = SetupAfter(log'[t], i - 1)
                   /\ log'[t][i].count = CountAfter(log'[t], i - 1)
  BY Zenon DEF HistoryInv, SetupAfter, CountAfter
<1>1. CASE t # s
  BY <1>1, EnterFacts DEF HistoryInv
<1>2. CASE t = s /\ i <= Len(log[s])
  <2>1. i \in 1 .. Len(log[s]) /\ Len(log[s]) \in Nat
    BY <1>2, EnterFacts DEF TypeOK
  <2>2. log'[s][i] = log[s][i] /\ (i - 1 # 0 => log'[s][i - 1] = log[s][i - 1])
    <3>1. i - 1 # 0 => i - 1 \in 1 .. Len(log[s])
      BY <2>1
    <3> QED
      BY Zenon, <2>1, <3>1, EnterFacts
  <2>3. /\ SetupAfter(log'[s], i - 1) = SetupAfter(log[s], i - 1)
        /\ CountAfter(log'[s], i - 1) = CountAfter(log[s], i - 1)
    BY Zenon, <2>2, AfterEqual
  <2> QED
    BY Zenon, <1>2, <2>1, <2>2, <2>3 DEF HistoryInv
<1>3. CASE t = s /\ i = Len(log[s]) + 1
  <2>1. i - 1 = Len(log[s]) /\ Len(log[s]) \in Nat
    BY <1>3 DEF TypeOK
  <2>2. i - 1 # 0 => log'[s][i - 1] = log[s][i - 1]
    BY <2>1, EnterFacts
  <2>3. /\ SetupAfter(log'[s], i - 1) = SetupAfter(log[s], i - 1)
        /\ CountAfter(log'[s], i - 1) = CountAfter(log[s], i - 1)
    BY Zenon, <2>2, AfterEqual
  <2>4. log'[s][i] = Checkpoint(s)
    BY Zenon, <1>3, EnterFacts
  <2> QED
    BY <1>3, <2>1, <2>3, <2>4 DEF Between, Checkpoint
<1>4. Len(log[s]) \in Nat /\ Len(log'[s]) = Len(log[s]) + 1
  <2>1. Len(log'[s]) = Len(log[s]) + 1
    BY Zenon, EnterFacts
  <2>2. log[s] \in Seq(Checkpoints)
    BY Zenon DEF TypeOK
  <2> QED
    BY <2>1, <2>2
<1> QED
  BY <1>1, <1>2, <1>3, <1>4

\* The counters of a handler stay natural numbers and those of the other
\* process stay the same.
LEMMA CountSignalType ==
  ASSUME TypeOK, NEW s \in Side, CountSignal(s)
  PROVE /\ signal_count' \in [Side -> Nat]
        /\ illegal_instructions' \in [Side -> Nat]
        /\ signal_count'[s] - illegal_instructions'[s] =
             IF get_risuop(s) = OP_SIGILL
               THEN signal_count[s] - illegal_instructions[s]
               ELSE signal_count[s] - illegal_instructions[s] + 1
        /\ \A t \in Side : t # s =>
             /\ signal_count'[t] = signal_count[t]
             /\ illegal_instructions'[t] = illegal_instructions[t]
BY SMTT(30) DEF TypeOK, CountSignal

\* A process that enters a checkpoint is inside it.
LEMMA EnterInside ==
  ASSUME TypeOK, NEW s \in Side, Enter(s), CountSignal(s),
         UNCHANGED <<image, cpu, blocks>>
  PROVE Inside(s)'
<1>1. /\ Len(log'[s]) = Len(log[s]) + 1 /\ Len(log[s]) \in Nat
      /\ log'[s][Len(log'[s])] = Checkpoint(s)
  BY SMTT(30), EnterFacts DEF TypeOK
<1>2. CountAfter(log'[s], Len(log'[s])) =
        IF get_risuop(s) = OP_SIGILL
          THEN signal_count[s] - illegal_instructions[s]
          ELSE signal_count[s] - illegal_instructions[s] + 1
  BY <1>1 DEF CountAfter, Checkpoint
<1>3. signal_count'[s] - illegal_instructions'[s] = CountAfter(log'[s], Len(log'[s]))
  BY Zenon, <1>2, CountSignalType
<1>4. get_risuop(s)' = get_risuop(s) /\ BlockData(s)' = BlockData(s)
  BY Zenon DEF get_risuop, BlockData, cpu, blocks
<1>5. CountAfter(log[s], Len(log[s]))' = CountAfter(log'[s], Len(log'[s]))
  BY Zenon DEF CountAfter
<1> QED
  BY <1>1, <1>3, <1>4, <1>5 DEF Inside, Checkpoint, cpu, blocks

\* The operations that carry a payload and those that never do are disjoint.
LEMMA PayloadOps ==
  ASSUME NEW o \in RegOps \cup {OP_COMPAREMEM}
  PROVE o \notin ZeroOps
BY DEF RegOps, ZeroOps, SetupOps, OP_COMPARE, OP_TESTEND, OP_SIGILL,
   OP_COMPAREMEM, OP_SETMEMBLOCK, OP_GETMEMBLOCK, OP_SETUPBEGIN, OP_SETUPEND

-----------------------------------------------------------------------------
(* Leaving a checkpoint.                                                   *)

\* The second switch of send_register_info, and its twin in the apprentice,
\* keep every register, memory block and pc in its type.
LEMMA EffectType ==
  ASSUME TypeOK, NEW s \in Side, NEW r \in Regs, Effect(s, r),
         get_risuop(s) # OP_TESTEND
  PROVE /\ pc' \in [Side -> 1 .. Len(image)]
        /\ regs' \in [Side -> Regs]
        /\ mem' \in [Side -> Mems]
        /\ memblock' \in [Side -> Mapped \cup {NULL}]
        /\ arch_memblock' \in [Side -> Word]
        /\ is_setup' \in [Side -> BOOLEAN]
<1>1. pc' \in [Side -> 1 .. Len(image)]
  BY Zenon, NotLast DEF Effect, advance_pc, TypeOK
<1>2. regs[s][ParamReg] \in Word
  BY MachineAssumption DEF TypeOK, Regs
<1>3. arch_memblock' \in [Side -> Word]
  BY Zenon, <1>2 DEF Effect, TypeOK
<1>4. memblock' \in [Side -> Mapped \cup {NULL}]
  BY Zenon, <1>2 DEF Effect, TypeOK, get_arch_memory
<1>5. is_setup' \in [Side -> BOOLEAN]
  BY Zenon DEF Effect, TypeOK
<1>6. regs' \in [Side -> Regs]
  <2>1. (r[ParamReg] + arch_memblock[s]) % WordMod \in Word
    <3>1. r[ParamReg] \in Word
      BY Zenon, MachineAssumption DEF Regs
    <3>2. arch_memblock[s] \in Word
      BY Zenon DEF TypeOK
    <3> QED
      BY <3>1, <3>2, MachineAssumption DEF Word
  <2>2. [r EXCEPT ![ParamReg] = (r[ParamReg] + arch_memblock[s]) % WordMod] \in Regs
    BY Zenon, <2>1, MachineAssumption DEF Regs
  <2> QED
    BY Zenon, <2>2 DEF Effect, TypeOK
<1> QED
  BY Zenon, <1>1, <1>3, <1>4, <1>5, <1>6 DEF Effect, TypeOK

\* They leave the other process alone.
LEMMA EffectOther ==
  ASSUME TypeOK, NEW s \in Side, NEW r, Effect(s, r), NEW t \in Side, t # s
  PROVE /\ pc'[t] = pc[t] /\ regs'[t] = regs[t] /\ mem'[t] = mem[t]
        /\ memblock'[t] = memblock[t] /\ is_setup'[t] = is_setup[t]
BY Zenon DEF Effect, advance_pc, TypeOK

\* A process that leaves its last checkpoint is between checkpoints.
LEMMA EffectBetween ==
  ASSUME TypeOK, NEW s \in Side, NEW r, Effect(s, r), Inside(s),
         UNCHANGED <<log, signal_count, illegal_instructions>>
  PROVE Between(s, Len(log[s]))'
<1>1. is_setup'[s] = IF get_risuop(s) \in SetupOps
                       THEN get_risuop(s) = OP_SETUPBEGIN ELSE is_setup[s]
  BY Zenon DEF Effect, TypeOK
<1>2. SetupAfter(log[s], Len(log[s])) = is_setup'[s]
  <2>1. /\ Len(log[s]) # 0
        /\ log[s][Len(log[s])].op = get_risuop(s)
        /\ log[s][Len(log[s])].setup = is_setup[s]
    BY DEF Inside
  <2> QED
    BY <1>1, <2>1, Zenon DEF SetupAfter
<1>3. SetupAfter(log[s], Len(log[s]))' = SetupAfter(log[s], Len(log[s]))
      /\ CountAfter(log[s], Len(log[s]))' = CountAfter(log[s], Len(log[s]))
  BY Zenon DEF SetupAfter, CountAfter
<1> QED
  BY Zenon, <1>2, <1>3 DEF Between, Inside

-----------------------------------------------------------------------------
(* Steps of either process.                                                *)

\* A process may be killed at any moment.
LEMMA CrashStep ==
  ASSUME Inductive, NEW s \in Side, Crash(s)
  PROVE Inductive'
<1> USE DEF Inductive, Crash, Stop, cpu, given, blocks, counts, wire, history, ending
<1>1. TypeOK'
  BY Zenon DEF TypeOK, Outgoing
<1>2. HistoryInv'
  BY Zenon, HistoryFrame
<1>3. ApprenticeInv'
  BY Zenon DEF ApprenticeInv, Between, Inside, SetupAfter, CountAfter, LA, get_risuop,
     BlockData, TypeOK, Side, MASTER, APPRENTICE
<1>4. MasterInv'
  BY Zenon DEF MasterInv, Between, Inside, SetupAfter, CountAfter, LM, get_risuop,
     BlockData, HasPayload, TypeOK, Side, MASTER, APPRENTICE
<1>5. PacketInv'
  BY Zenon DEF PacketInv, LM, LastHeader, LastPayload, HeaderPkt, ReginfoPkt, MemPkt,
    Announced, Unbacked, PayloadSize, TypeOK, Side, MASTER, APPRENTICE
<1>6. ResponseInv'
  BY Zenon DEF ResponseInv, LM, TypeOK, Side, MASTER, APPRENTICE
<1>7. EndInv'
  BY Zenon DEF EndInv, DoneTogether, TypeOK, Side, MASTER, APPRENTICE
<1>8. Verdicts'
  BY Zenon, VerdictsStop
<1> QED
  BY Zenon, <1>1, <1>2, <1>3, <1>4, <1>5, <1>6, <1>7, <1>8 DEF Inductive

\* The image returns to master() or apprentice(), which then fails.
LEMMA ImageReturnsStep ==
  ASSUME Inductive, NEW s \in Side, ImageReturns(s)
  PROVE Inductive'
<1> USE ImagesAssumption, MachineAssumption, ExecAssumption
    DEF Inductive, ImageReturns, Stop, cpu, given, blocks, counts, wire, history, ending
<1>1. TypeOK'
  BY Zenon DEF TypeOK, Outgoing, Side
<1>2. HistoryInv'
  BY Zenon, HistoryFrame
<1>3. ApprenticeInv'
  BY Zenon DEF ApprenticeInv, Between, Inside, SetupAfter, CountAfter, LA, get_risuop,
     BlockData, TypeOK, Side, MASTER, APPRENTICE
<1>4. MasterInv'
  BY ZenonT(30) DEF MasterInv, Between, Inside, SetupAfter, CountAfter, LM, get_risuop,
     BlockData, HasPayload, TypeOK, Side, MASTER, APPRENTICE
<1>5. PacketInv'
  BY Zenon DEF PacketInv, LM, LastHeader, LastPayload, HeaderPkt, ReginfoPkt, MemPkt,
    Announced, Unbacked, PayloadSize, TypeOK, Side, MASTER, APPRENTICE
<1>6. ResponseInv'
  BY Zenon DEF ResponseInv, LM, TypeOK, Side, MASTER, APPRENTICE
<1>7. EndInv'
  BY Zenon DEF EndInv, DoneTogether, TypeOK, Side, MASTER, APPRENTICE
<1>8. Verdicts'
  BY Zenon, VerdictsStop
<1> QED
  BY Zenon, <1>1, <1>2, <1>3, <1>4, <1>5, <1>6, <1>7, <1>8 DEF Inductive

\* master_sigbus and apprentice_sigbus: the handler leaves with RES_SIGBUS.
LEMMA BusErrorStep ==
  ASSUME Inductive, NEW s \in Side, BusError(s)
  PROVE Inductive'
<1> USE ImagesAssumption, MachineAssumption, ExecAssumption
    DEF Inductive, BusError, longjmp, cpu, given, blocks, counts, wire, history, ending
<1>1. TypeOK'
  BY SMTT(30) DEF TypeOK, Outgoing, Side, RisuResult
<1>2. HistoryInv'
  BY Zenon, HistoryFrame
<1>3. ApprenticeInv'
  BY Zenon DEF ApprenticeInv, Between, Inside, SetupAfter, CountAfter, LA, get_risuop,
     BlockData, TypeOK, Side, MASTER, APPRENTICE
<1>4. MasterInv'
  BY Zenon DEF MasterInv, Between, Inside, SetupAfter, CountAfter, LM, get_risuop,
     BlockData, HasPayload, TypeOK, Side, MASTER, APPRENTICE
<1>5. PacketInv'
  BY Zenon DEF PacketInv, LM, LastHeader, LastPayload, HeaderPkt, ReginfoPkt, MemPkt,
    Announced, Unbacked, PayloadSize, TypeOK, Side, MASTER, APPRENTICE
<1>6. ResponseInv'
  BY Zenon DEF ResponseInv, LM, TypeOK, Side, MASTER, APPRENTICE
<1>7. EndInv'
  BY Zenon DEF EndInv, DoneTogether, Mismatch, TypeOK, Side, MASTER, APPRENTICE
<1>8. Verdicts'
  BY Zenon, VerdictsStop
<1> QED
  BY Zenon, <1>1, <1>2, <1>3, <1>4, <1>5, <1>6, <1>7, <1>8 DEF Inductive

\* An instruction that does not trap moves its own machine only.
LEMMA ExecuteStep ==
  ASSUME Inductive, NEW s \in Side, Execute(s)
  PROVE Inductive'
<1> USE ImagesAssumption, MachineAssumption, ExecAssumption
    DEF Inductive, Execute, Outcomes, Outcome, get_risuop, cpu, given, blocks, counts, wire, history, ending
<1>1. TypeOK'
  BY SMTT(30) DEF TypeOK, Outgoing, Side
<1>2. HistoryInv'
  BY Zenon, HistoryFrame
<1>3. ApprenticeInv'
  BY Zenon DEF ApprenticeInv, Between, Inside, SetupAfter, CountAfter, LA, get_risuop,
     BlockData, TypeOK, Side, MASTER, APPRENTICE
<1>4. MasterInv'
  BY Zenon DEF MasterInv, Between, Inside, SetupAfter, CountAfter, LM, get_risuop,
     BlockData, HasPayload, TypeOK, Side, MASTER, APPRENTICE
<1>5. PacketInv'
  BY Zenon DEF PacketInv, LM, LastHeader, LastPayload, HeaderPkt, ReginfoPkt, MemPkt,
    Announced, Unbacked, PayloadSize, TypeOK, Side, MASTER, APPRENTICE
<1>6. ResponseInv'
  BY Zenon DEF ResponseInv, LM, TypeOK, Side, MASTER, APPRENTICE
<1>7. EndInv'
  BY Zenon DEF EndInv, DoneTogether, TypeOK, Side, MASTER, APPRENTICE
<1>8. Verdicts'
  BY ZenonT(30), VerdictsFrame
<1> QED
  BY Zenon, <1>1, <1>2, <1>3, <1>4, <1>5, <1>6, <1>7, <1>8 DEF Inductive

\* An illegal instruction of a setup phase counts in signal_count and in
\* illegal_instructions, so the number of checkpoints stands still.
LEMMA SkipIllegalStep ==
  ASSUME Inductive, NEW s \in Side, SkipIllegal(s)
  PROVE Inductive'
<1>a. pc[s] + 1 \in 1 .. Len(image)
  <2>1. TypeOK /\ get_risuop(s) # OP_TESTEND
    BY DEF Inductive, SkipIllegal, OP_SIGILL, OP_TESTEND
  <2> QED
    BY Zenon, <2>1, NotLast
<1> USE DEF Inductive, SkipIllegal, Illegal, CountSignal, advance_pc, get_risuop,
            cpu, given, blocks, counts, wire, history, ending
<1>b. \A t \in Side : signal_count'[t] - illegal_instructions'[t]
                          = signal_count[t] - illegal_instructions[t]
  BY DEF TypeOK
<1>1. TypeOK'
  <2>1. pc' \in [Side -> 1 .. Len(image)]
    BY Zenon, <1>a DEF TypeOK
  <2>2. /\ signal_count' \in [Side -> Nat]
        /\ illegal_instructions' \in [Side -> Nat]
    BY SMTT(30) DEF TypeOK
  <2> QED
    BY Zenon, <2>1, <2>2 DEF TypeOK, Outgoing
<1>2. HistoryInv'
  BY Zenon, HistoryFrame
<1>3. ApprenticeInv'
  BY Zenon, <1>b DEF ApprenticeInv, Between, Inside, SetupAfter, CountAfter, LA, get_risuop,
     BlockData, TypeOK, Side, MASTER, APPRENTICE
<1>4. MasterInv'
  BY Zenon, <1>b DEF MasterInv, Between, Inside, SetupAfter, CountAfter, LM, get_risuop,
     BlockData, HasPayload, TypeOK, Side, MASTER, APPRENTICE
<1>5. PacketInv'
  BY Zenon DEF PacketInv, LM, LastHeader, LastPayload, HeaderPkt, ReginfoPkt, MemPkt,
    Announced, Unbacked, PayloadSize, TypeOK, Side, MASTER, APPRENTICE
<1>6. ResponseInv'
  BY Zenon DEF ResponseInv, LM, TypeOK, Side, MASTER, APPRENTICE
<1>7. EndInv'
  BY Zenon DEF EndInv, DoneTogether, TypeOK, Side, MASTER, APPRENTICE
<1>8. Verdicts'
  BY Zenon, VerdictsFrame
<1> QED
  BY Zenon, <1>1, <1>2, <1>3, <1>4, <1>5, <1>6, <1>7, <1>8 DEF Inductive

\* Nothing happens.
LEMMA StutterStep ==
  ASSUME Inductive, UNCHANGED vars
  PROVE Inductive'
<1>1. /\ image' = image /\ regsize' = regsize /\ st' = st
      /\ pc' = pc /\ regs' = regs /\ mem' = mem
      /\ memblock' = memblock /\ arch_memblock' = arch_memblock
      /\ is_setup' = is_setup
      /\ signal_count' = signal_count
      /\ illegal_instructions' = illegal_instructions
      /\ header' = header /\ toApprentice' = toApprentice
      /\ toMaster' = toMaster
      /\ res' = res /\ code' = code /\ log' = log /\ accepted' = accepted
  BY Zenon DEF vars, given, cpu, blocks, counts, wire, ending, history
<1>2. TypeOK'
  BY Zenon, <1>1 DEF Inductive, TypeOK, Outgoing, Responses
<1>3. HistoryInv'
  BY Zenon, <1>1, HistoryFrame DEF Inductive
<1>4. ApprenticeInv'
  BY Zenon, <1>1 DEF Inductive, ApprenticeInv, LA, Inside, Between, SetupAfter,
              CountAfter, get_risuop, BlockData
<1>5. MasterInv'
  BY Zenon, <1>1 DEF Inductive, MasterInv, LM, Inside, Between, SetupAfter, CountAfter,
              get_risuop, BlockData, HasPayload
<1>6. PacketInv'
  BY Zenon, <1>1 DEF Inductive, PacketInv, LM, Announced, Unbacked, LastHeader,
              LastPayload, HeaderPkt, ReginfoPkt, MemPkt, PayloadSize
<1>7. ResponseInv'
  BY Zenon, <1>1 DEF Inductive, ResponseInv, LM
<1>8. EndInv'
  BY Zenon, <1>1 DEF Inductive, EndInv, DoneTogether
<1>9. Verdicts'
  BY Zenon, <1>1, VerdictsFrame DEF Inductive
<1> QED
  BY Zenon, <1>2, <1>3, <1>4, <1>5, <1>6, <1>7, <1>8, <1>9 DEF Inductive

-----------------------------------------------------------------------------
(* The steps of the master's handler keep the invariant.                   *)

\* The default case of send_register_info aborts the master.
LEMMA UnknownOpStep ==
  ASSUME Inductive, UnknownOp
  PROVE Inductive'
<1> USE DEF Inductive, UnknownOp, Meets, Illegal, CountSignal, Stop, cpu, given, blocks,
            wire, history
<1>1. TypeOK'
  <2>1. signal_count' \in [Side -> Nat] /\ illegal_instructions' \in [Side -> Nat]
    BY SMTT(30) DEF TypeOK, Side
  <2> QED
    BY Zenon, <2>1 DEF TypeOK, Outgoing
<1>2. HistoryInv'
  BY Zenon, HistoryFrame
<1>3. ApprenticeInv'
  BY Zenon DEF ApprenticeInv, Between, Inside, SetupAfter, CountAfter, LA, get_risuop,
     BlockData, TypeOK, Side, MASTER, APPRENTICE
<1>4. MasterInv'
  BY Zenon DEF MasterInv, TypeOK, Side, MASTER, APPRENTICE
<1>5. PacketInv'
  BY Zenon DEF PacketInv, LM, LastHeader, LastPayload, HeaderPkt, ReginfoPkt, MemPkt,
    Announced, Unbacked, PayloadSize, TypeOK, Side, MASTER, APPRENTICE
<1>6. ResponseInv'
  BY Zenon DEF ResponseInv, LM, TypeOK, Side, MASTER, APPRENTICE
<1>7. EndInv'
  BY Zenon DEF EndInv, DoneTogether, TypeOK, Side, MASTER, APPRENTICE
<1>8. Verdicts'
  BY Zenon, VerdictsStop DEF Side
<1> QED
  BY Zenon, <1>1, <1>2, <1>3, <1>4, <1>5, <1>6, <1>7, <1>8 DEF Inductive

\* send_data_pkt finds the connection closed and exits.
LEMMA MasterReadFailsStep ==
  ASSUME Inductive, MasterReadFails
  PROVE Inductive'
<1> USE DEF Inductive, MasterReadFails, Stop, cpu, given, blocks, counts, wire, history
<1>1. TypeOK'
  BY Zenon DEF TypeOK, Outgoing
<1>2. HistoryInv'
  BY Zenon, HistoryFrame
<1>3. ApprenticeInv' /\ MasterInv'
  BY Zenon DEF ApprenticeInv, MasterInv, TypeOK, Side, MASTER, APPRENTICE
<1>4. LM' = LM /\ LastHeader' = LastHeader /\ LastPayload' = LastPayload
      /\ Unbacked(LM)' = Unbacked(LM)
  BY Zenon DEF LM, LastHeader, LastPayload, HeaderPkt, ReginfoPkt, MemPkt, PayloadSize, Unbacked
<1>5. PacketInv'
  BY Zenon, <1>4 DEF PacketInv, TypeOK, Side, MASTER, APPRENTICE
<1>6. ResponseInv'
  BY Zenon DEF ResponseInv, LM, TypeOK, Side, MASTER, APPRENTICE
<1>7. EndInv'
  BY Zenon DEF EndInv, DoneTogether, TypeOK, Side, MASTER, APPRENTICE
<1>8. Verdicts'
  BY Zenon, VerdictsStop DEF Side
<1> QED
  BY Zenon, <1>1, <1>2, <1>3, <1>5, <1>6, <1>7, <1>8 DEF Inductive

\* send_register_info sends the payload of the checkpoint whose header was
\* answered with RES_OK.
LEMMA SendPayloadStep ==
  ASSUME Inductive, SendPayload
  PROVE Inductive'
<1> USE DEF Inductive, SendPayload, cpu, given, blocks, counts, history, ending
<1>1. /\ toMaster = <<"RES_OK">> /\ toMaster' = <<>>
      /\ toApprentice = <<>>
      /\ Inside(MASTER)
  BY DEF ResponseInv, MasterInv
<1>2. log[MASTER][LM].op \in RegOps \cup {OP_COMPAREMEM} /\ ~Unbacked(LM)
  <2>1. memblock[MASTER] # NULL => BlockData(MASTER) # NULL
    BY MachineAssumption DEF BlockData, TypeOK, Side, Mems, Word, NULL
  <2> QED
    BY <1>1, <2>1 DEF HasPayload, Inside, Unbacked, LM, RegOps, OP_COMPARE,
      OP_TESTEND, OP_SIGILL, OP_COMPAREMEM
<1>3. Payload = LastPayload /\ toApprentice' = <<LastPayload>>
  BY <1>1 DEF Payload, LastPayload, Inside, LM, ReginfoPkt, MemPkt
<1>4. st[APPRENTICE] \in {"payload", "exit"} /\ LM = accepted + 1
  BY Zenon, <1>1, <1>2, PayloadOps DEF ResponseInv
<1>5. LastPayload \in Outgoing
  <2>1. log[MASTER][LM] \in Checkpoints
    BY <1>1 DEF TypeOK, Inside, LM, Side
  <2> QED
    BY Zenon, <1>2, <2>1 DEF LastPayload, Outgoing, ReginfoPkt, MemPkt, Checkpoints, Unbacked
<1>6. TypeOK'
  BY <1>1, <1>3, <1>5 DEF TypeOK, Outgoing, Side
<1>7. HistoryInv'
  BY Zenon, HistoryFrame
<1>8. ApprenticeInv' /\ MasterInv'
  BY ZenonT(30), <1>1, <1>3 DEF ApprenticeInv, MasterInv, Between, Inside, SetupAfter,
    CountAfter, LA, LM, get_risuop, BlockData, HasPayload, TypeOK, Side,
    MASTER, APPRENTICE
<1>9. PacketInv'
  BY SMTT(30), <1>1, <1>2, <1>3, <1>4 DEF PacketInv, LM, LastPayload, ReginfoPkt, MemPkt,
    Announced, Unbacked, PayloadSize, TypeOK, Side, MASTER, APPRENTICE
<1>10. ResponseInv'
  BY <1>1, <1>3 DEF ResponseInv, TypeOK, Side, MASTER, APPRENTICE
<1>11. EndInv'
  BY Zenon, <1>1 DEF EndInv, DoneTogether, TypeOK, Side, MASTER, APPRENTICE
<1>12. Verdicts'
  BY Zenon, VerdictsFrame
<1> QED
  BY Zenon, <1>6, <1>7, <1>8, <1>9, <1>10, <1>11, <1>12 DEF Inductive

\* A response other than RES_OK takes the master back to master().
LEMMA MasterStopsStep ==
  ASSUME Inductive, MasterStops
  PROVE Inductive'
<1> USE DEF Inductive, MasterStops, cpu, given, blocks, counts, history
<1>1. /\ toMaster = <<"RES_END">> /\ toMaster' = <<>>
      /\ st[APPRENTICE] = "exit"
  BY DEF ResponseInv
<1>2. TypeOK'
  BY <1>1 DEF TypeOK, Outgoing, Side, RisuResult, longjmp
<1>3. HistoryInv'
  BY Zenon, HistoryFrame
<1>4. ApprenticeInv' /\ MasterInv'
  BY Zenon, <1>1 DEF ApprenticeInv, MasterInv, TypeOK, Side, MASTER, APPRENTICE, longjmp
<1>5. PacketInv'
  BY Zenon, <1>1 DEF PacketInv, TypeOK, Side, MASTER, APPRENTICE, longjmp
<1>6. ResponseInv'
  BY Zenon, <1>1 DEF ResponseInv, TypeOK, Side, MASTER, APPRENTICE, longjmp
<1>7. EndInv'
  BY Zenon, <1>1 DEF EndInv, DoneTogether, TypeOK, Side, MASTER, APPRENTICE, longjmp
<1>8. Verdicts'
  <2>1. res'[APPRENTICE] = res[APPRENTICE] /\ code'[APPRENTICE] = code[APPRENTICE]
    BY Zenon DEF TypeOK, Side, MASTER, APPRENTICE, longjmp
  <2>2. AcceptedAgree' /\ SuccessIsEarned'
    BY Zenon, <2>1 DEF Verdicts, AcceptedAgree, SuccessIsEarned, Agree, reginfo_is_eq
  <2>3. AlarmIsGenuine' /\ SizeErrorsExplained'
    BY Zenon, <2>1 DEF Verdicts, AlarmIsGenuine, SizeErrorsExplained, reginfo_is_eq
  <2> QED
    BY Zenon, <2>2, <2>3 DEF Verdicts
<1> QED
  BY Zenon, <1>2, <1>3, <1>4, <1>5, <1>6, <1>7, <1>8 DEF Inductive

\* master_sigill enters a checkpoint and sends its header.
LEMMA SendHeaderStep ==
  ASSUME Inductive, SendHeader
  PROVE Inductive'
<1> USE DEF Inductive
<1>0. /\ Enter(MASTER) /\ CountSignal(MASTER)
      /\ get_risuop(MASTER) \in KnownOps
      /\ toApprentice' = Append(toApprentice,
            HeaderPkt(get_risuop(MASTER), PayloadSize(get_risuop(MASTER))))
      /\ st' = [st EXCEPT ![MASTER] = "header"]
      /\ UNCHANGED <<image, regsize, pc, regs, mem, memblock, arch_memblock,
                    is_setup, header, toMaster, res, code, accepted>>
  BY Zenon DEF SendHeader, cpu, given, blocks, ending
<1>1. /\ MASTER \in Side /\ APPRENTICE \in Side /\ MASTER # APPRENTICE
      /\ st[MASTER] = "image"
      /\ toApprentice = <<>> /\ toMaster = <<>> /\ toMaster' = <<>>
      /\ Between(MASTER, LM) /\ LM \in Nat
  BY <1>0 DEF SendHeader, Meets, Illegal, MasterInv, Side, MASTER, APPRENTICE, TypeOK, LM
<1>2. /\ log' \in [Side -> Seq(Checkpoints)]
      /\ LM' = LM + 1
      /\ \A i \in 1 .. LM : log'[MASTER][i] = log[MASTER][i]
      /\ log'[MASTER][LM + 1] = Checkpoint(MASTER)
      /\ log'[APPRENTICE] = log[APPRENTICE]
  BY Zenon, <1>0, <1>1, EnterFacts DEF LM
<1>3. log'[MASTER][LM'].op = get_risuop(MASTER)
  BY <1>2 DEF Checkpoint
<1>4. toApprentice' = <<LastHeader'>>
  BY <1>0, <1>1, <1>3 DEF LastHeader, HeaderPkt, PayloadSize
<1>5. TypeOK'
  <2>1. LastHeader' \in Outgoing'
    <3>1. get_risuop(MASTER) \in RisuOp
      BY Zenon, <1>1, CheckpointType DEF Checkpoint, Checkpoints
    <3>2. PayloadSize(get_risuop(MASTER)) \in Nat
      BY <1>1, SizeAssumption DEF PayloadSize, TypeOK
    <3> QED
      BY Zenon, <1>0, <1>3, <3>1, <3>2 DEF LastHeader, HeaderPkt, PayloadSize, Outgoing
  <2>2. st' \in [Side -> {"image", "header", "payload", "exit"}]
    BY Zenon, <1>0, <1>1 DEF TypeOK
  <2>3. signal_count' \in [Side -> Nat] /\ illegal_instructions' \in [Side -> Nat]
    BY Zenon, <1>0, <1>1, CountSignalType
  <2>4. toApprentice' \in Seq(Outgoing')
    BY <1>4, <2>1
  <2> QED
    BY Zenon, <1>0, <1>1, <1>2, <2>2, <2>3, <2>4 DEF TypeOK
<1>6. HistoryInv'
  BY Zenon, <1>0, <1>1, HistoryEnter DEF LM
<1>7. ApprenticeInv'
  <2>1. /\ LA' = LA /\ st'[APPRENTICE] = st[APPRENTICE]
        /\ signal_count'[APPRENTICE] = signal_count[APPRENTICE]
        /\ illegal_instructions'[APPRENTICE] = illegal_instructions[APPRENTICE]
    BY ZenonT(30), <1>0, <1>1, <1>2, CountSignalType DEF LA, TypeOK
  <2>2. Between(APPRENTICE, accepted)' <=> Between(APPRENTICE, accepted)
    BY Zenon, <1>0, <1>2, <2>1 DEF Between, SetupAfter, CountAfter
  <2>3. Inside(APPRENTICE)' <=> Inside(APPRENTICE)
    BY Zenon, <1>0, <1>2, <2>1 DEF Inside, CountAfter, get_risuop, BlockData
  <2> QED
    BY ZenonT(30), <1>0, <2>1, <2>2, <2>3 DEF ApprenticeInv
<1>8. MasterInv'
  <2>1. Inside(MASTER)'
    BY Zenon, <1>0, <1>1, EnterInside DEF cpu, blocks
  <2> QED
    BY Zenon, <1>0, <1>1, <2>1 DEF MasterInv, get_risuop, TypeOK
<1>9. PacketInv'
  <2>0. TypeOK /\ PacketInv
    BY Zenon
  <2> HIDE DEF Inductive
  <2>1. toMaster' = <<>> /\ LM' > 0 /\ log'[MASTER][LM'].op \in KnownOps
    BY <1>0, <1>1, <1>2, <1>3
  <2>2. /\ st'[MASTER] = "header" /\ st'[APPRENTICE] = st[APPRENTICE]
        /\ accepted' = accepted /\ accepted \in Nat
    BY Zenon, <1>0, <1>1, <2>0 DEF TypeOK
  <2>3. st'[APPRENTICE] \in {"image", "header"} => LM' = accepted' + 1
    <3>1. st[APPRENTICE] \in {"image", "header"} => LM = accepted
      BY Zenon, <1>1, <2>0 DEF PacketInv
    <3> QED
      BY Zenon, <1>2, <2>2, <3>1
  <2>4. ASSUME st'[APPRENTICE] = "payload"
        PROVE LM' = accepted' + 2 /\ Announced(LM - 1)' /\ Unbacked(LM - 1)'
    <3>1. LM = accepted + 1 /\ Announced(LM) /\ Unbacked(LM)
      BY Zenon, <1>1, <2>0, <2>2, <2>4 DEF PacketInv
    <3>2. LM' = accepted' + 2 /\ LM' - 1 = LM /\ LM \in 1 .. LM
      BY <1>1, <1>2, <2>2, <3>1
    <3>3. log'[MASTER][LM' - 1] = log[MASTER][LM]
      BY ZenonT(30), <1>2, <3>2
    <3> QED
      BY Zenon, <1>0, <3>1, <3>2, <3>3 DEF Announced, Unbacked, PayloadSize
  <2> QED
    BY Zenon, <1>4, <2>1, <2>2, <2>3, <2>4 DEF PacketInv
<1>10. ResponseInv'
  BY <1>0, <1>1, <1>4 DEF ResponseInv
<1>11. EndInv'
  BY Zenon, <1>0, <1>1 DEF EndInv, DoneTogether, TypeOK
<1>12. Verdicts'
  <2>1. /\ accepted <= LM /\ accepted \in Nat
        /\ res[APPRENTICE] \notin {"RES_END"} \cup Mismatch
    BY Zenon, <1>1 DEF Verdicts, AcceptedAgree, EndInv, LM, TypeOK
  <2>2. AcceptedAgree'
    <3>1. \A s \in Side : accepted <= Len(log'[s])
      BY <1>1, <1>2, <2>1 DEF Verdicts, AcceptedAgree, LM, Side
    <3>2. \A n \in 1 .. accepted : log'[MASTER][n] = log[MASTER][n]
      BY <1>1, <1>2, <2>1
    <3>3. ASSUME NEW n \in 1 .. accepted
          PROVE Agree(log'[MASTER][n], log'[APPRENTICE][n])
      <4>1. Agree(log[MASTER][n], log[APPRENTICE][n])
        BY Zenon DEF Verdicts, AcceptedAgree
      <4> QED
        BY Zenon, <1>2, <3>2, <4>1
    <3> QED
      BY Zenon, <1>0, <3>1, <3>3 DEF AcceptedAgree, Agree, reginfo_is_eq
  <2>3. SuccessIsEarned' /\ AlarmIsGenuine'
    BY Zenon, <1>0, <1>1, <2>1 DEF SuccessIsEarned, AlarmIsGenuine, EndInv
  <2>4. SizeErrorsExplained'
    <3>1. ASSUME NEW n \in 1 .. LM
          PROVE n \in 1 .. LM' /\ log'[MASTER][n] = log[MASTER][n]
      BY <1>1, <1>2
    <3> QED
      BY Zenon, <1>0, <3>1 DEF Verdicts, SizeErrorsExplained, LM
  <2> QED
    BY Zenon, <2>2, <2>3, <2>4 DEF Verdicts
<1> QED
  BY Zenon, <1>5, <1>6, <1>7, <1>8, <1>9, <1>10, <1>11, <1>12 DEF Inductive

\* The last packet of a checkpoint was answered with RES_OK: the master
\* resumes its image.
LEMMA MasterResumesStep ==
  ASSUME Inductive, MasterResumes
  PROVE Inductive'
<1> USE DEF Inductive
<1>0. /\ MASTER \in Side /\ APPRENTICE \in Side /\ MASTER # APPRENTICE
      /\ \/ st[MASTER] = "header" /\ ~HasPayload
         \/ st[MASTER] = "payload"
      /\ Inside(MASTER) /\ get_risuop(MASTER) \in KnownOps
      /\ log[MASTER][LM].op = get_risuop(MASTER)
  BY Zenon DEF MasterResumes, Side, MASTER, APPRENTICE, MasterInv, Inside, LM
<1>1. /\ toMaster = <<"RES_OK">> /\ toMaster' = <<>>
      /\ toApprentice = <<>> /\ toApprentice' = <<>>
  BY SMTT(30) DEF MasterResumes, ResponseInv
<1>2. \/ accepted = LM /\ st[APPRENTICE] # "payload"
      \/ Unbacked(LM) /\ st[APPRENTICE] \in {"payload", "exit"} /\ LM = accepted + 1
  <2>1. CASE st[MASTER] = "payload"
    BY Zenon, <1>1, <2>1 DEF ResponseInv, PacketInv
  <2>2. CASE st[MASTER] = "header" /\ get_risuop(MASTER) \in ZeroOps
    <3>1. accepted = LM
      BY Zenon, <1>0, <1>1, <2>2 DEF ResponseInv
    <3> QED
      BY SMTT(30), <1>1, <3>1 DEF PacketInv, TypeOK
  <2>3. CASE st[MASTER] = "header" /\ ~HasPayload /\ get_risuop(MASTER) \notin ZeroOps
    <3>1. get_risuop(MASTER) = OP_COMPAREMEM /\ memblock[MASTER] = NULL
      BY Zenon, <1>0, <2>3 DEF HasPayload, KnownOps
    <3>2. Unbacked(LM)
      BY Zenon, <1>0, <3>1 DEF Unbacked, Inside, LM, BlockData
    <3> QED
      BY Zenon, <1>0, <1>1, <2>3, <3>2 DEF ResponseInv
  <2> QED
    BY Zenon, <1>0, <2>1, <2>2, <2>3
<1>3. get_risuop(MASTER) # OP_TESTEND
  BY Zenon, <1>0, <1>1 DEF ResponseInv, HasPayload, RegOps
<1>4. /\ Effect(MASTER, regs[MASTER])
      /\ st' = [st EXCEPT ![MASTER] = "image"]
      /\ UNCHANGED <<image, regsize, signal_count, illegal_instructions, header,
                    res, code, log, accepted>>
  BY Zenon, <1>3 DEF MasterResumes, ending, given, counts, history
<1>5. regs[MASTER] \in Regs /\ st'[MASTER] = "image" /\ st'[APPRENTICE] = st[APPRENTICE]
  BY Zenon, <1>0, <1>4 DEF TypeOK
<1>6. TypeOK'
  <2>1. toApprentice' \in Seq(Outgoing') /\ toMaster' \in Seq(Responses)
    BY <1>1
  <2> QED
    BY Zenon, <1>0, <1>3, <1>4, <1>5, <2>1, EffectType DEF TypeOK
<1>7. HistoryInv'
  BY Zenon, <1>4, HistoryFrame
<1>8. ApprenticeInv'
  <2>1. Between(APPRENTICE, accepted)' <=> Between(APPRENTICE, accepted)
    BY ZenonT(30), <1>0, <1>4, EffectOther DEF Between, SetupAfter, CountAfter
  <2>2. Inside(APPRENTICE)' <=> Inside(APPRENTICE)
    BY Zenon, <1>0, <1>4, EffectOther DEF Inside, CountAfter, get_risuop, BlockData
  <2> QED
    BY Zenon, <1>4, <1>5, <2>1, <2>2 DEF ApprenticeInv, LA
<1>9. MasterInv'
  <2>1. Between(MASTER, LM)'
    BY Zenon, <1>0, <1>4, EffectBetween DEF LM
  <2> QED
    BY Zenon, <1>1, <1>5, <2>1 DEF MasterInv
<1>10. PacketInv'
  <2>1. LM' = LM /\ (Announced(LM)' <=> Announced(LM)) /\ (Unbacked(LM)' <=> Unbacked(LM))
    BY Zenon, <1>4 DEF LM, Announced, Unbacked, PayloadSize
  <2>2. st[APPRENTICE] = "payload" => Announced(LM)
    BY Zenon, <1>1 DEF PacketInv
  <2>3. st[APPRENTICE] \in {"image", "header"} => LM = accepted
    BY Zenon, <1>2
  <2> QED
    BY Zenon, <1>1, <1>2, <1>4, <1>5, <2>1, <2>2, <2>3 DEF PacketInv
<1>11. ResponseInv'
  BY Zenon, <1>1, <1>5 DEF ResponseInv
<1>12. EndInv'
  BY Zenon, <1>0, <1>1, <1>4, <1>5 DEF EndInv, DoneTogether, Side
<1>13. Verdicts'
  BY Zenon, <1>4, VerdictsFrame
<1> QED
  BY Zenon, <1>6, <1>7, <1>8, <1>9, <1>10, <1>11, <1>12, <1>13 DEF Inductive

-----------------------------------------------------------------------------
(* The comparison and the apprentice's handler.                            *)

\* r is a result that fits the last checkpoints of the two histories.
Fits(r) ==
  LET M == log[MASTER][LM]
      A == log[APPRENTICE][LM]
  IN /\ r \in {"RES_OK", "RES_END"} \cup Mismatch
     /\ r \in {"RES_OK", "RES_END"} => Agree(M, A)
     /\ r = "RES_END" <=> r \in {"RES_OK", "RES_END"} /\ A.op = OP_TESTEND
     /\ r = "RES_MISMATCH_OP" => M.op # A.op
     /\ r = "RES_MISMATCH_REG" =>
          ~A.setup /\ M.op \in RegOps /\ A.op \in RegOps /\ ~reginfo_is_eq(M, A)
     /\ r = "RES_MISMATCH_MEM" =>
          M.op = OP_COMPAREMEM /\ A.op = OP_COMPAREMEM /\ M.data # A.data

\* "done:" with RES_OK: the apprentice resumes its image.
LEMMA AcceptStep ==
  ASSUME Inductive,
         st[APPRENTICE] \in {"header", "payload"},
         LM = accepted + 1, Agree(log[MASTER][LM], log[APPRENTICE][LM]),
         get_risuop(APPRENTICE) # OP_TESTEND,
         \/ st[MASTER] = "header" /\ log[MASTER][LM].op \in ZeroOps
         \/ st[MASTER] \in {"payload", "exit"},
         toMaster = <<>>, toApprentice' = <<>>,
         header' \in [len : {HeaderSize}, op : RisuOp, size : Nat],
         NEW r \in Regs, Done("RES_OK", r)
  PROVE Inductive'
<1> USE DEF Inductive
<1>0. /\ MASTER \in Side /\ APPRENTICE \in Side /\ MASTER # APPRENTICE
      /\ Inside(APPRENTICE) /\ LA = LM /\ accepted \in Nat
      /\ st[APPRENTICE] # "exit"
  BY ZenonT(30) DEF Side, MASTER, APPRENTICE, ApprenticeInv, TypeOK
<1>1. /\ toMaster' = <<"RES_OK">> /\ accepted' = accepted + 1
      /\ Effect(APPRENTICE, r)
      /\ st' = [st EXCEPT ![APPRENTICE] = "image"]
      /\ UNCHANGED <<image, regsize, signal_count, illegal_instructions, log, res, code>>
  BY DEF Done, respond, given, counts, ending
<1>2. st'[APPRENTICE] = "image" /\ st'[MASTER] = st[MASTER]
  BY Zenon, <1>0, <1>1 DEF TypeOK
<1>3. TypeOK'
  <2>1. toApprentice' \in Seq(Outgoing') /\ toMaster' \in Seq(Responses)
    BY <1>1 DEF Responses
  <2>2. st' \in [Side -> {"image", "header", "payload", "exit"}]
    BY Zenon, <1>0, <1>1 DEF TypeOK
  <2>3. /\ pc' \in [Side -> 1 .. Len(image)]
        /\ regs' \in [Side -> Regs]
        /\ mem' \in [Side -> Mems]
        /\ memblock' \in [Side -> Mapped \cup {NULL}]
        /\ arch_memblock' \in [Side -> Word]
        /\ is_setup' \in [Side -> BOOLEAN]
    BY Zenon, <1>0, <1>1, EffectType
  <2>4. accepted' \in Nat
    BY <1>0, <1>1
  <2> QED
    BY ZenonT(30), <1>1, <2>1, <2>2, <2>3, <2>4 DEF TypeOK
<1>4. HistoryInv'
  BY Zenon, <1>1, HistoryFrame
<1>5. ApprenticeInv'
  <2>1. LA' = accepted' /\ LA \in Nat
    BY <1>0, <1>1 DEF LA, TypeOK
  <2>2. Between(APPRENTICE, LA)'
    BY Zenon, <1>0, <1>1, EffectBetween DEF LA
  <2> QED
    BY Zenon, <1>2, <2>1, <2>2 DEF ApprenticeInv
<1>6. MasterInv'
  <2>1. Inside(MASTER)' <=> Inside(MASTER)
    BY ZenonT(30), <1>0, <1>1, EffectOther DEF Inside, CountAfter, get_risuop, BlockData
  <2>2. pc'[MASTER] = pc[MASTER] /\ memblock'[MASTER] = memblock[MASTER]
    BY Zenon, <1>0, <1>1, EffectOther
  <2>3. get_risuop(MASTER)' = get_risuop(MASTER) /\ (HasPayload' <=> HasPayload)
    BY Zenon, <1>1, <2>2 DEF get_risuop, HasPayload
  <2> QED
    BY Zenon, <1>1, <1>2, <2>1, <2>2, <2>3 DEF MasterInv
<1>7. PacketInv' /\ ResponseInv'
  <2>1. LM' = LM /\ log[MASTER][LM].op # OP_TESTEND
    BY Zenon, <1>0, <1>1 DEF LM, LA, Agree, Inside
  <2>2. PacketInv'
    BY Zenon, <1>1, <1>2, <2>1 DEF PacketInv
  <2>3. ResponseInv'
    BY Zenon, <1>1, <1>2, <2>1 DEF ResponseInv
  <2> QED
    BY Zenon, <2>2, <2>3
<1>8. EndInv'
  BY Zenon, <1>0, <1>1, <1>2 DEF EndInv, DoneTogether, Side
<1>9. Verdicts'
  <2>1. AcceptedAgree'
    <3>1. \A s \in Side : accepted' <= Len(log'[s])
      BY <1>0, <1>1 DEF LM, LA, Side
    <3>2. ASSUME NEW n \in 1 .. accepted'
          PROVE Agree(log'[MASTER][n], log'[APPRENTICE][n])
      BY <1>0, <1>1 DEF Verdicts, AcceptedAgree
    <3> QED
      BY Zenon, <1>1, <3>1, <3>2 DEF AcceptedAgree, Agree, reginfo_is_eq
  <2>2. res[APPRENTICE] = "RES_OK" /\ code[APPRENTICE] # "EXIT_SUCCESS"
    BY Zenon, <1>0 DEF EndInv
  <2>3. SuccessIsEarned' /\ AlarmIsGenuine' /\ SizeErrorsExplained'
    BY Zenon, <1>1, <2>2 DEF SuccessIsEarned, AlarmIsGenuine, SizeErrorsExplained, Mismatch
  <2> QED
    BY Zenon, <2>1, <2>3 DEF Verdicts
<1> QED
  BY Zenon, <1>3, <1>4, <1>5, <1>6, <1>7, <1>8, <1>9 DEF Inductive

\* "done:" with any other result: the apprentice tells the master to stop and
\* leaves.
LEMMA LeaveStep ==
  ASSUME Inductive,
         st[APPRENTICE] \in {"header", "payload"},
         st[MASTER] # "image",
         toMaster = <<>>, toApprentice' = <<>>,
         header' \in [len : {HeaderSize}, op : RisuOp, size : Nat],
         NEW r \in RisuResult \ {"RES_OK"}, NEW q, Done(r, q), Verdicts'
  PROVE Inductive'
<1> USE DEF Inductive
<1>0. MASTER \in Side /\ APPRENTICE \in Side /\ MASTER # APPRENTICE
  BY Zenon DEF Side, MASTER, APPRENTICE
<1>1. /\ toMaster' = <<"RES_END">> /\ accepted' \in Nat
      /\ st' = [st EXCEPT ![APPRENTICE] = "exit"]
      /\ res' = [res EXCEPT ![APPRENTICE] = r]
      /\ code' = [code EXCEPT ![APPRENTICE] =
                    IF r = "RES_END" THEN "EXIT_SUCCESS" ELSE "EXIT_FAILURE"]
      /\ UNCHANGED <<image, regsize, pc, regs, mem, memblock, arch_memblock,
                    is_setup, signal_count, illegal_instructions, log>>
  BY DEF Done, respond, longjmp, given, counts, cpu, blocks, TypeOK
<1>2. /\ st'[APPRENTICE] = "exit" /\ st'[MASTER] = st[MASTER]
      /\ res'[APPRENTICE] = r /\ res'[MASTER] = res[MASTER]
      /\ code'[MASTER] = code[MASTER]
      /\ code'[APPRENTICE] = "EXIT_SUCCESS" <=> r = "RES_END"
  BY Zenon, <1>0, <1>1 DEF TypeOK
<1>3. TypeOK'
  <2>1. toApprentice' \in Seq(Outgoing') /\ toMaster' \in Seq(Responses)
    BY <1>1 DEF Responses
  <2>2. /\ st' \in [Side -> {"image", "header", "payload", "exit"}]
        /\ res' \in [Side -> RisuResult]
        /\ code' \in [Side -> {"running", "EXIT_SUCCESS", "EXIT_FAILURE", "killed"}]
    BY Zenon, <1>0, <1>1 DEF TypeOK
  <2> QED
    BY Zenon, <1>1, <2>1, <2>2 DEF TypeOK
<1>4. HistoryInv'
  BY Zenon, <1>1, HistoryFrame
<1>5. ApprenticeInv'
  BY Zenon, <1>2 DEF ApprenticeInv
<1>6. MasterInv'
  <2>1. Inside(MASTER)' <=> Inside(MASTER)
    BY Zenon, <1>1 DEF Inside, CountAfter, get_risuop, BlockData
  <2> QED
    BY Zenon, <1>1, <1>2, <2>1 DEF MasterInv, get_risuop, HasPayload
<1>7. PacketInv' /\ ResponseInv'
  BY Zenon, <1>1, <1>2 DEF PacketInv, ResponseInv
<1>8. EndInv'
  BY Zenon, <1>0, <1>1, <1>2 DEF EndInv, DoneTogether, Side
<1> QED
  BY Zenon, <1>3, <1>4, <1>5, <1>6, <1>7, <1>8 DEF Inductive

\* The apprentice dies while it handles a packet: abort() or memcmp on NULL.
LEMMA FaultStep ==
  ASSUME Inductive,
         st[APPRENTICE] \in {"header", "payload"}, st[MASTER] # "image",
         toMaster = <<>>, toApprentice' = <<>>,
         header' \in [len : {HeaderSize}, op : RisuOp, size : Nat],
         Stop(APPRENTICE, "killed"),
         UNCHANGED <<given, cpu, blocks, counts, toMaster, history>>
  PROVE Inductive'
<1> USE DEF Inductive
<1>0. MASTER \in Side /\ APPRENTICE \in Side /\ MASTER # APPRENTICE
  BY Zenon DEF Side, MASTER, APPRENTICE
<1>1. /\ st' = [st EXCEPT ![APPRENTICE] = "exit"]
      /\ code' = [code EXCEPT ![APPRENTICE] = "killed"]
      /\ UNCHANGED <<image, regsize, pc, regs, mem, memblock, arch_memblock,
                    is_setup, signal_count, illegal_instructions, log, accepted,
                    res, toMaster>>
  BY Zenon DEF Stop, given, counts, cpu, blocks, history
<1>2. st'[APPRENTICE] = "exit" /\ st'[MASTER] = st[MASTER]
      /\ code'[APPRENTICE] = "killed" /\ code'[MASTER] = code[MASTER]
  BY Zenon, <1>0, <1>1 DEF TypeOK
<1>3. TypeOK'
  <2>1. toApprentice' \in Seq(Outgoing')
    OBVIOUS
  <2>2. /\ st' \in [Side -> {"image", "header", "payload", "exit"}]
        /\ code' \in [Side -> {"running", "EXIT_SUCCESS", "EXIT_FAILURE", "killed"}]
    BY Zenon, <1>0, <1>1 DEF TypeOK
  <2> QED
    BY Zenon, <1>1, <2>1, <2>2 DEF TypeOK
<1>4. HistoryInv'
  BY Zenon, <1>1, HistoryFrame
<1>5. ApprenticeInv'
  BY Zenon, <1>2 DEF ApprenticeInv
<1>6. MasterInv'
  <2>1. Inside(MASTER)' <=> Inside(MASTER)
    BY Zenon, <1>1 DEF Inside, CountAfter, get_risuop, BlockData
  <2> QED
    BY Zenon, <1>1, <1>2, <2>1 DEF MasterInv, get_risuop, HasPayload
<1>7. PacketInv' /\ ResponseInv'
  BY Zenon, <1>1, <1>2 DEF PacketInv, ResponseInv
<1>8. EndInv'
  BY Zenon, <1>0, <1>1, <1>2 DEF EndInv, DoneTogether, Side
<1>9. Verdicts'
  BY Zenon, <1>0, <1>1, VerdictsStop
<1> QED
  BY Zenon, <1>3, <1>4, <1>5, <1>6, <1>7, <1>8, <1>9 DEF Inductive

\* The comparison itself: the packet holds the master's last checkpoint, so
\* the result says how the two last checkpoints compare.
LEMMA CompareSound ==
  ASSUME Inductive, st[APPRENTICE] \in {"header", "payload"}, LM = accepted + 1,
         NEW m, NEW d, NEW o,
         o = log[MASTER][LM].op,
         o \in RegOps => m.pc = log[MASTER][LM].pc /\ m.regs = log[MASTER][LM].regs,
         o = OP_COMPAREMEM => d = log[MASTER][LM].data /\ d # NULL
  PROVE Fits(CompareResult(o, m, d))
<1> USE DEF Inductive
<1> DEFINE M == log[MASTER][LM]
           A == log[APPRENTICE][LM]
           a == [pc |-> pc[APPRENTICE], regs |-> regs[APPRENTICE]]
<1>0. MASTER \in Side /\ APPRENTICE \in Side /\ accepted \in Nat
      /\ LA = LM /\ LM \in Nat \ {0} /\ LM = Len(log[MASTER]) /\ LM = Len(log[APPRENTICE])
  BY SMTT(30) DEF Side, MASTER, APPRENTICE, ApprenticeInv, TypeOK, LA, LM
<1>1. /\ A.op = get_risuop(APPRENTICE) /\ A.pc = pc[APPRENTICE]
      /\ A.regs = regs[APPRENTICE] /\ A.data = BlockData(APPRENTICE)
      /\ A.setup = is_setup[APPRENTICE] /\ A.setup \in BOOLEAN
  BY Zenon, <1>0 DEF ApprenticeInv, Inside, TypeOK
<1>2. M.setup = A.setup /\ M.count = A.count
  <2>1. /\ M.setup = SetupAfter(log[MASTER], LM - 1)
        /\ A.setup = SetupAfter(log[APPRENTICE], LM - 1)
        /\ M.count = CountAfter(log[MASTER], LM - 1)
        /\ A.count = CountAfter(log[APPRENTICE], LM - 1)
    <3>1. LM \in 1 .. Len(log[MASTER]) /\ LM \in 1 .. Len(log[APPRENTICE])
      BY <1>0
    <3> QED
      BY <1>0, <3>1, Zenon DEF HistoryInv
  <2>2. CASE accepted = 0
    <3>1. LM - 1 = 0
      BY <1>0, <2>2
    <3> QED
      BY <2>1, <3>1, Zenon DEF SetupAfter, CountAfter
  <2>3. CASE accepted # 0
    <3>1. LM - 1 = accepted /\ Agree(log[MASTER][accepted], log[APPRENTICE][accepted])
      BY <1>0, <2>3 DEF Verdicts, AcceptedAgree
    <3>2. /\ log[MASTER][accepted].op = log[APPRENTICE][accepted].op
          /\ log[MASTER][accepted].setup = log[APPRENTICE][accepted].setup
          /\ log[MASTER][accepted].count = log[APPRENTICE][accepted].count
      BY Zenon, <3>1 DEF Agree
    <3>3. /\ SetupAfter(log[MASTER], accepted) = SetupAfter(log[APPRENTICE], accepted)
          /\ CountAfter(log[MASTER], accepted) = CountAfter(log[APPRENTICE], accepted)
      BY <2>3, <3>2, ZenonT(30) DEF SetupAfter, CountAfter
    <3> QED
      BY Zenon, <2>1, <3>1, <3>3
  <2> QED
    BY Zenon, <2>2, <2>3
<1>3. o \in RegOps => (reginfo_is_eq(m, a) <=> reginfo_is_eq(M, A))
  BY SMTT(30), <1>1 DEF reginfo_is_eq
<1>4. CompareResult(o, m, d) =
        IF A.op \in RegOps /\ o \in RegOps /\ ~A.setup /\ ~reginfo_is_eq(m, a)
          THEN "RES_MISMATCH_REG"
        ELSE IF A.op # o THEN "RES_MISMATCH_OP"
        ELSE IF A.op = OP_TESTEND THEN "RES_END"
        ELSE IF A.op = OP_COMPAREMEM /\ A.data # d THEN "RES_MISMATCH_MEM"
        ELSE "RES_OK"
  BY Zenon, <1>1 DEF CompareResult
<1> HIDE DEF M, A, a
<1>5. o = M.op /\ (o = OP_COMPAREMEM => d = M.data /\ d # NULL)
  BY Zenon DEF M
<1>6. /\ CompareResult(o, m, d) \in {"RES_OK", "RES_END"} => Agree(M, A)
      /\ CompareResult(o, m, d) = "RES_END" <=>
           CompareResult(o, m, d) \in {"RES_OK", "RES_END"} /\ A.op = OP_TESTEND
      /\ CompareResult(o, m, d) = "RES_MISMATCH_OP" => M.op # A.op
      /\ CompareResult(o, m, d) = "RES_MISMATCH_REG" =>
           ~A.setup /\ M.op \in RegOps /\ A.op \in RegOps /\ ~reginfo_is_eq(M, A)
      /\ CompareResult(o, m, d) = "RES_MISMATCH_MEM" =>
           M.op = OP_COMPAREMEM /\ A.op = OP_COMPAREMEM /\ M.data # A.data
      /\ CompareResult(o, m, d) \in {"RES_OK", "RES_END"} \cup Mismatch
  <2>1. CASE A.op \in RegOps /\ o \in RegOps /\ ~A.setup /\ ~reginfo_is_eq(m, a)
    BY Zenon, <1>3, <1>4, <1>5, <2>1 DEF Mismatch
  <2>2. CASE ~(A.op \in RegOps /\ o \in RegOps /\ ~A.setup /\ ~reginfo_is_eq(m, a))
    <3>1. CASE A.op # o
      BY Zenon, <1>4, <1>5, <2>2, <3>1 DEF Mismatch
    <3>2. CASE A.op = o
      <4>1. A.op \in RegOps /\ ~M.setup => reginfo_is_eq(M, A)
        BY Zenon, <1>2, <1>3, <2>2, <3>2
      <4>2. CASE A.op = OP_COMPAREMEM /\ A.data # d
        BY SMTT(30), <1>4, <1>5, <2>2, <3>2, <4>2 DEF Mismatch, OP_COMPAREMEM, OP_TESTEND
      <4>3. CASE ~(A.op = OP_COMPAREMEM /\ A.data # d)
        <5>1. Agree(M, A)
          BY Zenon, <1>2, <1>5, <3>2, <4>1, <4>3 DEF Agree
        <5> QED
          BY Zenon, <1>4, <2>2, <3>2, <4>3, <5>1 DEF Mismatch
      <4> QED
        BY Zenon, <4>2, <4>3
    <3> QED
      BY Zenon, <3>1, <3>2
  <2> QED
    BY Zenon, <2>1, <2>2
<1> QED
  BY Zenon, <1>6 DEF M, A, Fits

\* The verdict of a comparison that does not let the test go on.
LEMMA VerdictOfCompare ==
  ASSUME Inductive, st[APPRENTICE] \in {"header", "payload"}, LM = accepted + 1,
         NEW r, NEW q, Done(r, q), Fits(r), r # "RES_OK",
         log[MASTER][LM].op \in KnownOps, log[APPRENTICE][LM].op \in KnownOps
  PROVE Verdicts'
<1> USE DEF Inductive
<1>0. /\ MASTER \in Side /\ APPRENTICE \in Side /\ accepted \in Nat
      /\ LM = Len(log[MASTER]) /\ LM = Len(log[APPRENTICE])
  BY Zenon DEF Side, MASTER, APPRENTICE, ApprenticeInv, TypeOK, LA, LM
<1>1. /\ accepted' = IF r = "RES_END" THEN accepted + 1 ELSE accepted
      /\ res'[APPRENTICE] = r
      /\ code'[APPRENTICE] = "EXIT_SUCCESS" <=> r = "RES_END"
      /\ log' = log /\ regsize' = regsize
  BY Zenon, <1>0 DEF Done, longjmp, given, Fits, Mismatch, TypeOK
<1>2. \A n \in 1 .. accepted : Agree(log[MASTER][n], log[APPRENTICE][n])
  BY Zenon DEF Verdicts, AcceptedAgree
<1>3. AcceptedAgree'
  <2>1. \A s \in Side : accepted' <= Len(log'[s])
    <3>1. accepted' <= LM
      BY <1>0, <1>1
    <3>2. \A s \in Side : Len(log[s]) = LM
      BY Zenon, <1>0 DEF Side
    <3> QED
      BY Zenon, <1>1, <3>1, <3>2
  <2>2. ASSUME NEW n \in 1 .. accepted'
        PROVE Agree(log'[MASTER][n], log'[APPRENTICE][n])
    <3>1. CASE n = LM /\ r = "RES_END"
      BY Zenon, <1>1, <3>1 DEF Fits
    <3>2. CASE n \in 1 .. accepted
      BY Zenon, <1>1, <1>2, <3>2
    <3> QED
      BY <1>0, <1>1, <3>1, <3>2
  <2> QED
    BY Zenon, <1>1, <2>1, <2>2 DEF AcceptedAgree, Agree, reginfo_is_eq
<1>4. SuccessIsEarned'
  <2>1. r = "RES_END" =>
          log[MASTER][LM].op = OP_TESTEND /\ log[APPRENTICE][LM].op = OP_TESTEND
    BY Zenon DEF Agree, Fits
  <2>2. CASE r = "RES_END"
    <3>1. accepted' = LM /\ LM > 0
      BY <1>0, <1>1, <2>2
    <3>2. \A s \in Side : Len(log[s]) = LM
      BY Zenon, <1>0 DEF Side
    <3>3. log[MASTER][LM].op = OP_TESTEND /\ log[APPRENTICE][LM].op = OP_TESTEND
      BY Zenon, <2>1, <2>2
    <3> QED
      BY Zenon, <1>1, <3>1, <3>2, <3>3 DEF SuccessIsEarned
  <2> QED
    BY Zenon, <1>1, <2>2 DEF SuccessIsEarned
<1>5. AlarmIsGenuine'
  <2>1. CASE r = "RES_END"
    BY Zenon, <1>1, <2>1 DEF AlarmIsGenuine, Mismatch
  <2>2. CASE r # "RES_END"
    <3>1. accepted' + 1 = LM /\ \A s \in Side : Len(log'[s]) = LM
      BY Zenon, <1>0, <1>1, <2>2 DEF Side
    <3> QED
      BY ZenonT(30), <1>0, <1>1, <3>1 DEF AlarmIsGenuine, Fits, reginfo_is_eq
  <2> QED
    BY Zenon, <2>1, <2>2
<1>6. SizeErrorsExplained'
  BY Zenon, <1>1 DEF SizeErrorsExplained, Fits, Mismatch
<1> QED
  BY Zenon, <1>3, <1>4, <1>5, <1>6 DEF Verdicts

\* The verdict when a packet had the wrong size.
LEMMA VerdictOfSize ==
  ASSUME Inductive, st[APPRENTICE] \in {"header", "payload"},
         NEW r \in {"RES_BAD_IO", "RES_BAD_SIZE_HEADER", "RES_BAD_SIZE_REGINFO"},
         NEW q, Done(r, q),
         r = "RES_BAD_IO" => \E n \in 1 .. LM : Unbacked(n),
         r # "RES_BAD_IO" => regsize[MASTER] # regsize[APPRENTICE]
  PROVE Verdicts'
<1> USE DEF Inductive
<1>1. /\ accepted' = accepted
      /\ res'[APPRENTICE] = r
      /\ code'[APPRENTICE] # "EXIT_SUCCESS"
      /\ UNCHANGED <<log, regsize>>
  BY ZenonT(30) DEF Done, longjmp, given, TypeOK, Side
<1>2. AcceptedAgree'
  BY Zenon, <1>1 DEF Verdicts, AcceptedAgree, Agree, reginfo_is_eq
<1>3. SuccessIsEarned' /\ AlarmIsGenuine'
  BY Zenon, <1>1 DEF SuccessIsEarned, AlarmIsGenuine, Mismatch
<1>4. SizeErrorsExplained'
  BY Zenon, <1>1 DEF SizeErrorsExplained, Unbacked, LM
<1> QED
  BY Zenon, <1>2, <1>3, <1>4 DEF Verdicts

\* The switch of recv_and_compare_register_info and "done:", for the header and
\* payload of the master's last checkpoint.
LEMMA ConcludeStep ==
  ASSUME Inductive, st[APPRENTICE] \in {"header", "payload"}, LM = accepted + 1,
         \/ st[MASTER] = "header" /\ log[MASTER][LM].op \in ZeroOps
         \/ st[MASTER] \in {"payload", "exit"},
         toMaster = <<>>, toApprentice' = <<>>,
         header' \in [len : {HeaderSize}, op : RisuOp, size : Nat],
         NEW m, NEW d, NEW o,
         o = log[MASTER][LM].op, o \in KnownOps,
         o \in RegOps => m.pc = log[MASTER][LM].pc /\ m.regs = log[MASTER][LM].regs,
         o = OP_COMPAREMEM => d = log[MASTER][LM].data /\ d # NULL,
         Conclude(o, m, d)
  PROVE Inductive'
<1> DEFINE r == CompareResult(o, m, d)
           q == IF r = "RES_OK" /\ get_risuop(APPRENTICE) = OP_COMPARE
                  THEN reginfo_update(m.regs, regs[APPRENTICE])
                  ELSE regs[APPRENTICE]
<1>1. CASE Faults(o)
  BY Zenon, <1>1, FaultStep DEF Conclude
<1>2. CASE ~Faults(o)
  <2>1. Done(r, q)
    BY ZenonT(30), <1>2 DEF Conclude
  <2>2. Fits(r)
    BY Zenon, CompareSound
  <2>3. /\ MASTER \in Side /\ APPRENTICE \in Side /\ LM \in 1 .. Len(log[MASTER])
        /\ log[APPRENTICE][LM].op = get_risuop(APPRENTICE)
    <3> HIDE DEF r, q
    <3>1. TypeOK /\ ApprenticeInv
      BY Zenon DEF Inductive
    <3>2. MASTER \in Side /\ APPRENTICE \in Side
      BY Zenon DEF Side
    <3>3. LM = LA /\ Inside(APPRENTICE) /\ accepted \in Nat
      BY Zenon, <3>1 DEF ApprenticeInv, TypeOK
    <3> QED
      BY <3>2, <3>3 DEF Inside, LM, LA
  <2>4. CASE r = "RES_OK"
    <3>1. get_risuop(APPRENTICE) # OP_TESTEND
      BY Zenon, <2>2, <2>3, <2>4 DEF Fits
    <3>2. q \in Regs
      <4>1. regs[APPRENTICE] \in Regs
        BY Zenon, <2>3 DEF Inductive, TypeOK
      <4>2. CASE get_risuop(APPRENTICE) = OP_COMPARE
        <5>1. o \in RegOps
          BY Zenon, <2>2, <2>3, <2>4, <4>2 DEF Fits, Agree, RegOps
        <5>2. m.regs \in Regs
          <6>1. log[MASTER] \in Seq(Checkpoints)
            BY Zenon, <2>3 DEF Inductive, TypeOK
          <6>2. log[MASTER][LM] \in Checkpoints
            BY SMTT(30), <2>3, <6>1
          <6>3. log[MASTER][LM].regs \in Regs
            BY Zenon, <6>2 DEF Checkpoints
          <6> QED
            BY Zenon, <5>1, <6>3
        <5> QED
          BY Zenon, <4>1, <5>2 DEF reginfo_update, Regs
      <4> QED
        BY Zenon, <4>1, <4>2
    <3> HIDE DEF r, q
    <3>3. Agree(log[MASTER][LM], log[APPRENTICE][LM])
      BY Zenon, <2>2, <2>4 DEF Fits
    <3> QED
      BY Zenon, <2>1, <2>4, <3>1, <3>2, <3>3, AcceptStep
  <2>5. CASE r # "RES_OK"
    <3> HIDE DEF r, q
    <3>1. r \in RisuResult \ {"RES_OK"}
      BY Zenon, <2>2, <2>5 DEF Fits, RisuResult
    <3>2. Verdicts'
      <4>1. log[APPRENTICE][LM].op \in KnownOps
        BY Zenon, <1>2, <2>3 DEF Faults
      <4> QED
        BY Zenon, <2>1, <2>2, <2>5, <4>1, VerdictOfCompare
    <3> QED
      BY Zenon, <2>1, <3>1, <3>2, LeaveStep
  <2> QED
    BY Zenon, <2>4, <2>5
<1> QED
  BY Zenon, <1>1, <1>2

-----------------------------------------------------------------------------
(* The other steps of the apprentice, and all steps.                       *)

\* apprentice_sigill enters a checkpoint and waits for a header.
LEMMA AwaitHeaderStep ==
  ASSUME Inductive, AwaitHeader
  PROVE Inductive'
<1> USE DEF Inductive
<1>0. /\ Enter(APPRENTICE) /\ CountSignal(APPRENTICE)
      /\ st' = [st EXCEPT ![APPRENTICE] = "header"]
      /\ UNCHANGED <<image, regsize, pc, regs, mem, memblock, arch_memblock,
                    is_setup, header, toApprentice, toMaster, res, code, accepted>>
  BY Zenon DEF AwaitHeader, cpu, given, blocks, wire, ending
<1>1. /\ MASTER \in Side /\ APPRENTICE \in Side /\ MASTER # APPRENTICE
      /\ st[APPRENTICE] = "image"
      /\ LA = accepted /\ Between(APPRENTICE, LA) /\ LA \in Nat
  BY Zenon DEF AwaitHeader, Meets, Illegal, ApprenticeInv, Side, MASTER, APPRENTICE, TypeOK, LA
<1>2. /\ log' \in [Side -> Seq(Checkpoints)]
      /\ LA' = LA + 1
      /\ \A i \in 1 .. LA : log'[APPRENTICE][i] = log[APPRENTICE][i]
      /\ log'[MASTER] = log[MASTER]
  BY Zenon, <1>0, <1>1, EnterFacts DEF LA
<1>3. /\ LM' = LM /\ LastHeader' = LastHeader /\ LastPayload' = LastPayload
      /\ st'[APPRENTICE] = "header" /\ st'[MASTER] = st[MASTER]
  BY Zenon, <1>0, <1>1, <1>2 DEF LM, LastHeader, LastPayload, HeaderPkt, ReginfoPkt,
    MemPkt, PayloadSize, TypeOK
<1>4. TypeOK'
  <2>1. signal_count' \in [Side -> Nat] /\ illegal_instructions' \in [Side -> Nat]
    BY Zenon, <1>0, <1>1, CountSignalType
  <2>2. Outgoing' = Outgoing
    BY Zenon, <1>0 DEF Outgoing
  <2> QED
    BY Zenon, <1>0, <1>1, <1>2, <2>1, <2>2 DEF TypeOK
<1>5. HistoryInv'
  BY Zenon, <1>0, <1>1, HistoryEnter DEF LA
<1>6. ApprenticeInv'
  <2>1. Inside(APPRENTICE)'
    BY Zenon, <1>0, <1>1, EnterInside DEF cpu, blocks
  <2> QED
    BY Zenon, <1>0, <1>1, <1>2, <1>3, <2>1 DEF ApprenticeInv
<1>7. MasterInv'
  <2>1. /\ signal_count'[MASTER] = signal_count[MASTER]
        /\ illegal_instructions'[MASTER] = illegal_instructions[MASTER]
    BY Zenon, <1>0, <1>1, CountSignalType
  <2>2. Between(MASTER, LM)' <=> Between(MASTER, LM)
    BY Zenon, <1>0, <1>2, <1>3, <2>1 DEF Between, SetupAfter, CountAfter
  <2>3. Inside(MASTER)' <=> Inside(MASTER)
    BY Zenon, <1>0, <1>2, <2>1 DEF Inside, CountAfter, get_risuop, BlockData
  <2> QED
    BY Zenon, <1>0, <1>3, <2>2, <2>3 DEF MasterInv, get_risuop, HasPayload
<1>8. PacketInv'
  BY Zenon, <1>0, <1>1, <1>2, <1>3 DEF PacketInv, Unbacked
<1>9. ResponseInv'
  BY Zenon, <1>0, <1>1, <1>2, <1>3 DEF ResponseInv
<1>10. EndInv'
  BY Zenon, <1>0, <1>1, <1>3 DEF EndInv, DoneTogether, Side
<1>11. Verdicts'
  <2>1. /\ accepted \in Nat /\ accepted <= LM
        /\ res[APPRENTICE] = "RES_OK" /\ code[APPRENTICE] # "EXIT_SUCCESS"
    BY Zenon, <1>1 DEF Verdicts, AcceptedAgree, EndInv, LM, TypeOK
  <2>2. AcceptedAgree'
    <3>1. \A s \in Side : accepted <= Len(log'[s])
      BY <1>1, <1>2, <1>3, <2>1 DEF LM, LA, Side
    <3>2. \A n \in 1 .. accepted : log'[APPRENTICE][n] = log[APPRENTICE][n]
      BY Zenon, <1>1, <1>2
    <3>3. ASSUME NEW n \in 1 .. accepted
          PROVE Agree(log'[MASTER][n], log'[APPRENTICE][n])
      <4>1. Agree(log[MASTER][n], log[APPRENTICE][n])
        BY Zenon DEF Verdicts, AcceptedAgree
      <4> QED
        BY Zenon, <1>2, <3>2, <4>1
    <3> QED
      BY Zenon, <1>0, <3>1, <3>3 DEF AcceptedAgree, Agree, reginfo_is_eq
  <2>3. SuccessIsEarned' /\ AlarmIsGenuine' /\ SizeErrorsExplained'
    BY Zenon, <1>0, <2>1 DEF SuccessIsEarned, AlarmIsGenuine, SizeErrorsExplained, Mismatch
  <2> QED
    BY Zenon, <2>2, <2>3 DEF Verdicts
<1> QED
  BY Zenon, <1>4, <1>5, <1>6, <1>7, <1>8, <1>9, <1>10, <1>11 DEF Inductive

\* recv_bytes finds the connection closed and exits.
LEMMA ApprenticeReadFailsStep ==
  ASSUME Inductive, ApprenticeReadFails
  PROVE Inductive'
<1> USE DEF Inductive, ApprenticeReadFails, Stop, cpu, given, blocks, counts, wire, history
<1>1. TypeOK'
  BY Zenon DEF TypeOK, Outgoing
<1>2. HistoryInv'
  BY Zenon, HistoryFrame
<1>3. ApprenticeInv' /\ MasterInv'
  BY Zenon DEF ApprenticeInv, MasterInv, TypeOK, Side, MASTER, APPRENTICE
<1>5. PacketInv'
  BY Zenon DEF PacketInv, TypeOK, Side, MASTER, APPRENTICE
<1>6. ResponseInv'
  BY Zenon DEF ResponseInv, LM, TypeOK, Side, MASTER, APPRENTICE
<1>7. EndInv'
  BY Zenon DEF EndInv, DoneTogether, TypeOK, Side, MASTER, APPRENTICE
<1>8. Verdicts'
  BY Zenon, VerdictsStop DEF Side
<1> QED
  BY Zenon, <1>1, <1>2, <1>3, <1>5, <1>6, <1>7, <1>8 DEF Inductive

\* send_response_byte finds the connection closed and exits.
LEMMA RespondFailsStep ==
  ASSUME Inductive, RespondFails
  PROVE Inductive'
<1> USE DEF Inductive, RespondFails, Stop, cpu, given, blocks, counts, wire, history
<1>0. toApprentice' = <<>> /\ toMaster = <<>>
  <2>1. toMaster = <<>> /\ \E p : toApprentice = <<p>>
    BY Zenon DEF PacketInv
  <2> QED
    BY <2>1
<1>1. TypeOK'
  <2>1. <<>> \in Seq(Outgoing')
    OBVIOUS
  <2>2. st' \in [Side -> {"image", "header", "payload", "exit"}]
        /\ code' \in [Side -> {"running", "EXIT_SUCCESS", "EXIT_FAILURE", "killed"}]
    BY Zenon DEF TypeOK
  <2> QED
    BY Zenon, <1>0, <2>1, <2>2 DEF TypeOK
<1>2. HistoryInv'
  BY Zenon, HistoryFrame
<1>3. ApprenticeInv' /\ MasterInv'
  BY Zenon, <1>0 DEF ApprenticeInv, MasterInv, TypeOK, Side, MASTER, APPRENTICE
<1>5. PacketInv'
  BY Zenon, <1>0 DEF PacketInv, TypeOK, Side, MASTER, APPRENTICE
<1>6. ResponseInv'
  BY Zenon, <1>0 DEF ResponseInv, LM, TypeOK, Side, MASTER, APPRENTICE
<1>7. EndInv'
  BY Zenon DEF EndInv, DoneTogether, TypeOK, Side, MASTER, APPRENTICE
<1>8. Verdicts'
  BY Zenon, VerdictsStop DEF Side
<1> QED
  BY Zenon, <1>1, <1>2, <1>3, <1>5, <1>6, <1>7, <1>8 DEF Inductive

\* The apprentice answers a header and goes on to read the payload.
LEMMA AwaitPayloadStep ==
  ASSUME Inductive, st[APPRENTICE] = "header", LM = accepted + 1, LM > 0,
         st[MASTER] \in {"header", "exit"},
         toMaster = <<>>, toApprentice' = <<>>, header' = LastHeader,
         header' \in [len : {HeaderSize}, op : RisuOp, size : Nat],
         log[MASTER][LM].op \in RegOps \cup {OP_COMPAREMEM},
         respond("RES_OK"), st' = [st EXCEPT ![APPRENTICE] = "payload"],
         UNCHANGED <<given, cpu, blocks, counts, ending, history>>
  PROVE Inductive'
<1> USE DEF Inductive
<1>0. MASTER \in Side /\ APPRENTICE \in Side /\ MASTER # APPRENTICE
  BY Zenon DEF Side, MASTER, APPRENTICE
<1>1. /\ st'[APPRENTICE] = "payload" /\ st'[MASTER] = st[MASTER]
      /\ st' \in [Side -> {"image", "header", "payload", "exit"}]
      /\ toMaster' = <<"RES_OK">>
  <2>1. st \in [Side -> {"image", "header", "payload", "exit"}]
    BY Zenon DEF TypeOK
  <2> HIDE DEF Inductive
  <2>2. toMaster' = <<"RES_OK">>
    BY DEF respond
  <2> QED
    BY Zenon, <1>0, <2>1, <2>2
<1>2. /\ image' = image /\ regsize' = regsize
      /\ pc' = pc /\ regs' = regs /\ mem' = mem
      /\ memblock' = memblock /\ arch_memblock' = arch_memblock
      /\ is_setup' = is_setup
      /\ signal_count' = signal_count
      /\ illegal_instructions' = illegal_instructions
      /\ res' = res /\ code' = code /\ log' = log /\ accepted' = accepted
  BY Zenon DEF given, cpu, blocks, counts, ending, history
<1>3. TypeOK'
  <2>1. toMaster' \in Seq(Responses)
    BY <1>1 DEF Responses
  <2>2. toApprentice' \in Seq(Outgoing')
    OBVIOUS
  <2>3. log' \in [Side -> Seq(Checkpoints)]
    BY Zenon, <1>2 DEF TypeOK
  <2> QED
    BY Zenon, <1>1, <1>2, <2>1, <2>2, <2>3 DEF TypeOK
<1>4. HistoryInv'
  BY Zenon, <1>2 DEF HistoryInv, SetupAfter, CountAfter
<1>5. ApprenticeInv'
  BY Zenon, <1>1, <1>2 DEF ApprenticeInv, LA, Inside, CountAfter, get_risuop, BlockData
<1>6. MasterInv'
  BY Zenon, <1>1, <1>2 DEF MasterInv, LM, Inside, CountAfter, get_risuop, BlockData,
                    HasPayload
<1>7. LM' = LM /\ LM \in Nat
  BY <1>0, <1>2 DEF LM, TypeOK
<1>8. Announced(LM)'
  <2>1. /\ header'.op = log[MASTER][LM].op
        /\ header'.size = PayloadSize(log[MASTER][LM].op)
    BY Zenon DEF LastHeader, HeaderPkt
  <2> QED
    BY Zenon, <1>2, <1>7, <2>1 DEF Announced, PayloadSize
<1>9. PacketInv'
  BY Zenon, <1>1, <1>2, <1>7, <1>8 DEF PacketInv
<1>10. ResponseInv'
  <2>1. log[MASTER][LM].op \notin ZeroOps
    BY Zenon, PayloadOps
  <2> QED
    BY Zenon, <1>1, <1>2, <1>7, <2>1 DEF ResponseInv
<1>11. EndInv'
  <2>1. res[APPRENTICE] = "RES_OK"
    BY Zenon, <1>0 DEF EndInv
  <2>2. res[MASTER] # "RES_END"
    BY Zenon DEF EndInv, DoneTogether
  <2>3. \A s \in Side : res'[s] # "RES_OK" => st'[s] = "exit"
    BY Zenon, <1>0, <1>1, <1>2, <2>1 DEF EndInv, Side
  <2> QED
    BY Zenon, <1>2, <2>1, <2>2, <2>3 DEF EndInv, DoneTogether, Mismatch
<1>12. Verdicts'
  BY Zenon, <1>2, VerdictsFrame
<1> QED
  BY Zenon, <1>3, <1>4, <1>5, <1>6, <1>9, <1>10, <1>11, <1>12

\* recv_register_info up to its first return or its second read_buffer.
LEMMA RecvHeaderStep ==
  ASSUME Inductive, RecvHeader
  PROVE Inductive'
<1>0. MASTER \in Side /\ APPRENTICE \in Side
  BY Zenon DEF Side
<1>1. /\ st[APPRENTICE] = "header" /\ toApprentice # <<>>
      /\ toApprentice' = Tail(toApprentice) /\ header' = Head(toApprentice)
  BY Zenon DEF RecvHeader
<1>2. /\ toApprentice = <<LastHeader>> /\ toMaster = <<>>
      /\ LM > 0 /\ LM = accepted + 1
      /\ log[MASTER][LM].op \in KnownOps
      /\ st[MASTER] \in {"header", "exit"}
  BY Zenon, <1>1 DEF Inductive, PacketInv
<1>3. toApprentice' = <<>> /\ header' = LastHeader
  BY <1>1, <1>2
<1>4. /\ header'.op = log[MASTER][LM].op
      /\ header'.size = PayloadSize(log[MASTER][LM].op)
  BY Zenon, <1>3 DEF LastHeader, HeaderPkt
<1>5. header' \in [len : {HeaderSize}, op : RisuOp, size : Nat]
  <2>1. log[MASTER][LM].op \in RisuOp
    BY <1>2 DEF KnownOps, RegOps, ZeroOps, SetupOps, RisuOp, OP_COMPARE,
       OP_TESTEND, OP_SIGILL, OP_COMPAREMEM, OP_SETMEMBLOCK, OP_GETMEMBLOCK,
       OP_SETUPBEGIN, OP_SETUPEND
  <2>2. PayloadSize(log[MASTER][LM].op) \in Nat
    BY Zenon, <1>0, SizeAssumption DEF PayloadSize, Inductive, TypeOK
  <2> QED
    BY Zenon, <1>3, <2>1, <2>2 DEF LastHeader, HeaderPkt
<1> DEFINE none == [pc |-> pc[APPRENTICE], regs |-> regs[APPRENTICE]]
<1>6. \/ /\ header'.op \in RegOps /\ header'.size > regsize[APPRENTICE]
         /\ Done("RES_BAD_SIZE_HEADER", regs[APPRENTICE])
      \/ /\ header'.op \in RegOps \cup {OP_COMPAREMEM}
         /\ respond("RES_OK")
         /\ st' = [st EXCEPT ![APPRENTICE] = "payload"]
         /\ UNCHANGED <<given, cpu, blocks, counts, ending, history>>
      \/ /\ header'.op \in ZeroOps
         /\ Conclude(header'.op, none, NULL)
  BY Zenon, <1>1 DEF RecvHeader
<1>7. CASE /\ header'.op \in RegOps /\ header'.size > regsize[APPRENTICE]
           /\ Done("RES_BAD_SIZE_HEADER", regs[APPRENTICE])
  <2>1. regsize[MASTER] # regsize[APPRENTICE]
    <3>1. regsize[MASTER] \in Nat /\ regsize[APPRENTICE] \in Nat
      BY Zenon, <1>0, SizeAssumption DEF Inductive, TypeOK
    <3>2. header'.size = regsize[MASTER]
      BY Zenon, <1>4, <1>7 DEF PayloadSize
    <3> QED
      BY <1>7, <3>1, <3>2
  <2>2. Verdicts'
    BY Zenon, <1>1, <1>7, <2>1, VerdictOfSize
  <2>3. "RES_BAD_SIZE_HEADER" \in RisuResult \ {"RES_OK"}
    BY Zenon DEF RisuResult
  <2>4. st[MASTER] # "image" /\ st[APPRENTICE] \in {"header", "payload"}
    BY Zenon, <1>1, <1>2
  <2> QED
    BY Zenon, <1>2, <1>3, <1>5, <1>7, <2>2, <2>3, <2>4, LeaveStep
<1>8. CASE /\ header'.op \in RegOps \cup {OP_COMPAREMEM}
           /\ respond("RES_OK")
           /\ st' = [st EXCEPT ![APPRENTICE] = "payload"]
           /\ UNCHANGED <<given, cpu, blocks, counts, ending, history>>
  BY Zenon, <1>1, <1>2, <1>3, <1>4, <1>5, <1>8, AwaitPayloadStep
<1>9. CASE /\ header'.op \in ZeroOps
           /\ Conclude(header'.op, none, NULL)
  <2> DEFINE o == log[MASTER][LM].op
  <2>1. o \in ZeroOps /\ Conclude(o, none, NULL)
    BY Zenon, <1>4, <1>9
  <2>2. o \notin RegOps /\ o # OP_COMPAREMEM /\ o \in KnownOps
    BY <1>2, <2>1 DEF RegOps, ZeroOps, SetupOps, OP_COMPARE, OP_TESTEND, OP_SIGILL,
       OP_COMPAREMEM, OP_SETMEMBLOCK, OP_GETMEMBLOCK, OP_SETUPBEGIN, OP_SETUPEND
  <2>3. \/ st[MASTER] = "header" /\ log[MASTER][LM].op \in ZeroOps
        \/ st[MASTER] \in {"payload", "exit"}
    BY Zenon, <1>2, <2>1
  <2>4. st[APPRENTICE] \in {"header", "payload"}
    BY Zenon, <1>1
  <2>5. o = log[MASTER][LM].op
    BY Zenon, SMTT(30)
  <2> HIDE DEF o, none
  <2> QED
    BY Zenon, <1>2, <1>3, <1>5, <2>1, <2>2, <2>3, <2>4, <2>5, ConcludeStep
<1> QED
  BY Zenon, <1>6, <1>7, <1>8, <1>9

\* recv_register_info after its second read_buffer.
LEMMA RecvPayloadStep ==
  ASSUME Inductive, RecvPayload
  PROVE Inductive'
<1> DEFINE p == Head(toApprentice)
           none == [pc |-> pc[APPRENTICE], regs |-> regs[APPRENTICE]]
<1>0. MASTER \in Side /\ APPRENTICE \in Side
  BY Zenon DEF Side
<1>1. /\ st[APPRENTICE] = "payload" /\ toApprentice # <<>>
      /\ toApprentice' = Tail(toApprentice) /\ header' = header
      /\ header' \in [len : {HeaderSize}, op : RisuOp, size : Nat]
      /\ st[APPRENTICE] \in {"header", "payload"}
  BY Zenon DEF RecvPayload, Inductive, TypeOK
<1>2. \/ /\ p.len # header.size
         /\ Done("RES_BAD_IO", regs[APPRENTICE])
      \/ /\ p.len = header.size
         /\ header.op \in RegOps /\ header.size # regsize[APPRENTICE]
         /\ Done("RES_BAD_SIZE_REGINFO", regs[APPRENTICE])
      \/ /\ p.len = header.size
         /\ header.op \in RegOps /\ header.size = regsize[APPRENTICE]
         /\ Conclude(header.op, [pc |-> p.pc, regs |-> p.regs], NULL)
      \/ /\ p.len = header.size
         /\ header.op = OP_COMPAREMEM
         /\ Conclude(header.op, none, p.data)
  BY Zenon DEF RecvPayload
<1>3. /\ "RES_BAD_IO" \in RisuResult \ {"RES_OK"}
      /\ "RES_BAD_SIZE_REGINFO" \in RisuResult \ {"RES_OK"}
  BY Zenon DEF RisuResult
\* Instead of a payload the header of the next checkpoint arrives.
<1>4. CASE /\ toApprentice = <<LastHeader>> /\ toMaster = <<>>
           /\ LM = accepted + 2 /\ Announced(LM - 1) /\ Unbacked(LM - 1)
           /\ st[MASTER] \in {"header", "exit"}
  <2>1. toApprentice' = <<>> /\ p.len = HeaderSize
    BY <1>1, <1>4 DEF LastHeader, HeaderPkt
  <2>2. header.size = MEMBLOCKLEN
    BY <1>4 DEF Announced, Unbacked, PayloadSize, RegOps, OP_COMPAREMEM,
                OP_COMPARE, OP_TESTEND, OP_SIGILL
  <2>3. Done("RES_BAD_IO", regs[APPRENTICE])
    BY Zenon, <1>2, <2>1, <2>2, SizeAssumption
  <2>4. \E n \in 1 .. LM : Unbacked(n)
    <3>1. accepted \in Nat
      BY Zenon DEF Inductive, TypeOK
    <3>2. LM - 1 \in 1 .. LM
      BY <1>4, <3>1
    <3> QED
      BY Zenon, <1>4, <3>2
  <2>5. Verdicts'
    BY Zenon, <1>1, <2>3, <2>4, VerdictOfSize
  <2> QED
    BY Zenon, <1>1, <1>3, <1>4, <2>1, <2>3, <2>5, LeaveStep
\* The payload the header announced arrives.
<1>5. CASE /\ toApprentice = <<LastPayload>> /\ toMaster = <<>>
           /\ LM = accepted + 1 /\ LM > 0 /\ Announced(LM) /\ ~Unbacked(LM)
           /\ st[MASTER] \in {"payload", "exit"}
  <2>1. toApprentice' = <<>> /\ p = LastPayload
    BY <1>1, <1>5
  <2>2. /\ header.op = log[MASTER][LM].op /\ header.op \in KnownOps
        /\ header.op \in RegOps \cup {OP_COMPAREMEM}
    BY ZenonT(30), <1>5 DEF Announced, KnownOps
  <2>3. /\ p.len = header.size
        /\ header.op \in RegOps => /\ header.size = regsize[MASTER]
                                  /\ p.pc = log[MASTER][LM].pc
                                  /\ p.regs = log[MASTER][LM].regs
        /\ header.op = OP_COMPAREMEM => p.data = log[MASTER][LM].data
    BY <1>5, <2>1, <2>2 DEF Announced, LastPayload, PayloadSize, ReginfoPkt, MemPkt,
       RegOps, OP_COMPAREMEM, OP_COMPARE, OP_TESTEND, OP_SIGILL
  <2>4. header.op = OP_COMPAREMEM => p.data # NULL
    BY Zenon, <1>5, <2>2, <2>3 DEF Unbacked
  <2> HIDE DEF p
  <2>5. CASE /\ header.op \in RegOps /\ header.size # regsize[APPRENTICE]
             /\ Done("RES_BAD_SIZE_REGINFO", regs[APPRENTICE])
    <3>1. regsize[MASTER] # regsize[APPRENTICE]
      BY Zenon, <2>3, <2>5
    <3>2. Verdicts'
      BY Zenon, <1>1, <2>5, <3>1, VerdictOfSize
    <3> QED
      BY Zenon, <1>1, <1>3, <1>5, <2>1, <2>5, <3>2, LeaveStep
  <2>6. CASE /\ header.op \in RegOps
             /\ Conclude(header.op, [pc |-> p.pc, regs |-> p.regs], NULL)
    <3> DEFINE m == [pc |-> p.pc, regs |-> p.regs]
    <3>1. m.pc = log[MASTER][LM].pc /\ m.regs = log[MASTER][LM].regs
      BY Zenon, <2>3, <2>6
    <3>2. header.op # OP_COMPAREMEM
      BY <2>6 DEF RegOps, OP_COMPAREMEM, OP_COMPARE, OP_TESTEND, OP_SIGILL
    <3>3. Conclude(header.op, m, NULL)
      BY Zenon, <2>6
    <3> HIDE DEF m
    <3> QED
      BY Zenon, <1>1, <1>5, <2>1, <2>2, <3>1, <3>2, <3>3, ConcludeStep
  <2>7. CASE /\ header.op = OP_COMPAREMEM
             /\ Conclude(header.op, none, p.data)
    <3>1. header.op \notin RegOps
      BY <2>7 DEF RegOps, OP_COMPAREMEM, OP_COMPARE, OP_TESTEND, OP_SIGILL
    <3> HIDE DEF none
    <3> QED
      BY Zenon, <1>1, <1>5, <2>1, <2>2, <2>3, <2>4, <2>7, <3>1, ConcludeStep
  <2> QED
    BY Zenon, <1>2, <2>3, <2>5, <2>6, <2>7
<1> QED
  BY Zenon, <1>1, <1>4, <1>5 DEF Inductive, PacketInv

-----------------------------------------------------------------------------
(* The theorems.                                                           *)

\* Every step of either process, of the environment that kills one, and every
\* stuttering step preserves the invariant.
LEMMA NextStep ==
  ASSUME Inductive, [Next]_vars
  PROVE Inductive'
<1>1. ASSUME NEW s \in Side, RunsImage(s)
      PROVE Inductive'
  BY Zenon, <1>1, ExecuteStep, ImageReturnsStep, BusErrorStep, SkipIllegalStep
     DEF RunsImage
<1>2. CASE MasterStep
  <2>1. MASTER \in Side
    BY Zenon DEF Side
  <2> QED
    BY Zenon, <1>1, <1>2, <2>1, SendHeaderStep, UnknownOpStep, SendPayloadStep,
       MasterResumesStep, MasterStopsStep, MasterReadFailsStep DEF MasterStep
<1>3. CASE ApprenticeStep
  <2>1. APPRENTICE \in Side
    BY Zenon DEF Side
  <2> QED
    BY Zenon, <1>1, <1>3, <2>1, AwaitHeaderStep, RecvHeaderStep, RecvPayloadStep,
       ApprenticeReadFailsStep, RespondFailsStep DEF ApprenticeStep
<1>4. CASE \E s \in Side : Crash(s)
  BY Zenon, <1>4, CrashStep
<1>5. CASE UNCHANGED vars
  BY Zenon, <1>5, StutterStep
<1> QED
  BY Zenon, <1>2, <1>3, <1>4, <1>5 DEF Next, Finished

\* The invariant that ties the two handlers, the wire and the histories
\* together holds in every reachable state of the harness, whatever the image,
\* the machines, the sizes of the two builds and the moment a process dies.
THEOREM Invariance == Spec => []Inductive
<1>1. Init => Inductive
  BY Zenon, InitInductive
<1>2. Inductive /\ [Next]_vars => Inductive'
  BY Zenon, NextStep
<1> QED
  BY <1>1, <1>2, PTL DEF Spec

\* No variable leaves its type and no process runs past its OP_TESTEND.
THEOREM TypeCorrect == Spec => []TypeOK
<1>1. Inductive => TypeOK
  BY Zenon DEF Inductive
<1> QED
  BY <1>1, Invariance, PTL

\* Whatever the two machines do, the checkpoints recv_and_compare_register_info
\* accepts are the master's and the apprentice's n-th for the same n, and they
\* agree in operation, phase, count, compared registers and memory.
THEOREM AcceptedAgreement == Spec => []AcceptedAgree
<1>1. Inductive => AcceptedAgree
  BY Zenon DEF Inductive, Verdicts
<1> QED
  BY <1>1, Invariance, PTL

\* An apprentice that exits with EXIT_SUCCESS accepted everything that either
\* side did, up to OP_TESTEND on both.
THEOREM EarnedSuccess == Spec => []SuccessIsEarned
<1>1. Inductive => SuccessIsEarned
  BY Zenon DEF Inductive, Verdicts
<1> QED
  BY <1>1, Invariance, PTL

\* Every mismatch that apprentice() reports is a difference between the two
\* checkpoints at the same place in the two sequences.
THEOREM GenuineAlarm == Spec => []AlarmIsGenuine
<1>1. Inductive => AlarmIsGenuine
  BY Zenon DEF Inductive, Verdicts
<1> QED
  BY <1>1, Invariance, PTL

\* Size errors have no other cause than builds of different size or a
\* COMPAREMEM with no memory block.
THEOREM ExplainedSizeErrors == Spec => []SizeErrorsExplained
<1>1. Inductive => SizeErrorsExplained
  BY Zenon DEF Inductive, Verdicts
<1> QED
  BY <1>1, Invariance, PTL

\* master() reports "done" only after the apprentice has left its test.
THEOREM NeverDoneAlone == Spec => []DoneTogether
<1>1. Inductive => DoneTogether
  BY Zenon DEF Inductive, EndInv
<1> QED
  BY <1>1, Invariance, PTL

\* Between checkpoints the two processes agree on the setup phase and on the
\* number of checkpoints, although they may have stepped over different illegal
\* instructions: is_setup and the counters never drift apart.
THEOREM KeptInStep == Spec => []InStep
<1>1. Inductive => InStep
  <2> SUFFICES ASSUME Inductive, st[MASTER] = "image", st[APPRENTICE] = "image",
                      toApprentice = <<>>
               PROVE  /\ Len(log[MASTER]) = Len(log[APPRENTICE])
                      /\ is_setup[MASTER] = is_setup[APPRENTICE]
                      /\ signal_count[MASTER] - illegal_instructions[MASTER]
                           = signal_count[APPRENTICE]
                               - illegal_instructions[APPRENTICE]
    BY Zenon DEF InStep, Side
  <2>1. /\ LM = accepted /\ LA = accepted /\ accepted \in Nat
        /\ Between(MASTER, accepted) /\ Between(APPRENTICE, accepted)
    BY Zenon DEF Inductive, TypeOK, PacketInv, ApprenticeInv, MasterInv
  <2>2. CASE accepted = 0
    BY Zenon, <2>1, <2>2 DEF LM, LA, Between, SetupAfter, CountAfter
  <2>3. CASE accepted > 0
    <3>1. accepted \in 1 .. accepted
      BY <2>1, <2>3
    <3>2. Agree(log[MASTER][accepted], log[APPRENTICE][accepted])
      BY Zenon, <3>1 DEF Inductive, Verdicts, AcceptedAgree
    <3>3. SetupAfter(log[MASTER], accepted) = SetupAfter(log[APPRENTICE], accepted)
      BY <3>2, Zenon DEF Agree, SetupAfter
    <3>4. CountAfter(log[MASTER], accepted) = CountAfter(log[APPRENTICE], accepted)
      BY <3>2, Zenon DEF Agree, CountAfter
    <3>5. is_setup[MASTER] = is_setup[APPRENTICE]
      BY <2>1, <3>3, Zenon DEF Between
    <3> QED
      BY Zenon, <2>1, <3>4, <3>5 DEF LM, LA, Between
  <2> QED
    BY <2>1, <2>2, <2>3
<1> QED
  BY <1>1, Invariance, PTL
=============================================================================
