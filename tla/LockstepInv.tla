----------------------------- MODULE LockstepInv ------------------------------
(* The inductive invariant of Lockstep: where the two handlers can be with *)
(* respect to each other, what is on the wire between them, and how the    *)
(* histories of the two processes are tied to their states.                *)
EXTENDS Lockstep

LM == Len(log[MASTER])
LA == Len(log[APPRENTICE])

\* is_setup, and the number of checkpoints, after the first n entries of l.
SetupAfter(l, n) ==
  IF n = 0 THEN FALSE
  ELSE IF l[n].op \in SetupOps THEN l[n].op = OP_SETUPBEGIN ELSE l[n].setup

CountAfter(l, n) ==
  IF n = 0 THEN 0
  ELSE IF l[n].op = OP_SIGILL THEN l[n].count ELSE l[n].count + 1

\* s is between checkpoints, having met n of them.
Between(s, n) ==
  /\ is_setup[s] = SetupAfter(log[s], n)
  /\ signal_count[s] - illegal_instructions[s] = CountAfter(log[s], n)

\* s is in the handler of the last checkpoint of its history.
Inside(s) ==
  LET c == log[s][Len(log[s])] IN
  /\ Len(log[s]) > 0
  /\ c.op = get_risuop(s) /\ c.pc = pc[s] /\ c.regs = regs[s]
  /\ c.data = BlockData(s) /\ c.setup = is_setup[s]
  /\ signal_count[s] - illegal_instructions[s] = CountAfter(log[s], Len(log[s]))

\* Each history is a chain: phase and count follow from the entry before.
HistoryInv ==
  \A s \in Side : \A i \in 1 .. Len(log[s]) :
    /\ log[s][i].setup = SetupAfter(log[s], i - 1)
    /\ log[s][i].count = CountAfter(log[s], i - 1)

ApprenticeInv ==
  /\ st[APPRENTICE] = "image" => LA = accepted /\ Between(APPRENTICE, accepted)
  /\ st[APPRENTICE] \in {"header", "payload"} =>
       LA = accepted + 1 /\ Inside(APPRENTICE)

MasterInv ==
  /\ st[MASTER] = "image" =>
       Between(MASTER, LM) /\ toApprentice = <<>> /\ toMaster = <<>>
  /\ st[MASTER] \in {"header", "payload"} =>
       Inside(MASTER) /\ get_risuop(MASTER) \in KnownOps
  /\ st[MASTER] = "payload" => HasPayload

\* The header packet of the master's last checkpoint.
LastHeader == HeaderPkt(log[MASTER][LM].op, PayloadSize(log[MASTER][LM].op))

\* Its payload packet; Unbacked(n): checkpoint n had none to send.
LastPayload ==
  LET c == log[MASTER][LM] IN
  IF c.op \in RegOps THEN ReginfoPkt(c.pc, c.regs) ELSE MemPkt(c.data)

Unbacked(n) ==
  log[MASTER][n].op = OP_COMPAREMEM /\ log[MASTER][n].data = NULL

\* The apprentice holds the header of checkpoint n and waits for its payload.
Announced(n) ==
  /\ header.op = log[MASTER][n].op
  /\ header.op \in RegOps \cup {OP_COMPAREMEM}
  /\ header.size = PayloadSize(header.op)

\* What is in flight to the apprentice, and how far ahead the master is.
PacketInv ==
  \/ /\ toApprentice = <<>>
     /\ st[APPRENTICE] \in {"image", "header"} => LM = accepted
     /\ st[APPRENTICE] = "payload" =>
          /\ LM = accepted + 1
          /\ Announced(LM)
          /\ st[MASTER] = "image" => Unbacked(LM)
          /\ st[MASTER] = "header" => toMaster = <<"RES_OK">>
          /\ st[MASTER] # "payload"
  \/ /\ toApprentice = <<LastHeader>>
     /\ toMaster = <<>>
     /\ LM > 0
     /\ log[MASTER][LM].op \in KnownOps
     /\ st[MASTER] \in {"header", "exit"}
     /\ st[APPRENTICE] \in {"image", "header"} => LM = accepted + 1
     /\ st[APPRENTICE] = "payload" =>
          /\ LM = accepted + 2
          /\ Announced(LM - 1)
          /\ Unbacked(LM - 1)
  \/ /\ toApprentice = <<LastPayload>>
     /\ toMaster = <<>>
     /\ LM > 0
     /\ log[MASTER][LM].op \in RegOps \cup {OP_COMPAREMEM}
     /\ ~Unbacked(LM)
     /\ st[MASTER] \in {"payload", "exit"}
     /\ st[APPRENTICE] \in {"payload", "exit"}
     /\ st[APPRENTICE] = "payload" => LM = accepted + 1 /\ Announced(LM)

\* What is in flight to the master, and what it stands for.
ResponseInv ==
  \/ /\ toMaster = <<>>
     /\ st[MASTER] \in {"header", "payload"} =>
          toApprentice # <<>> \/ st[APPRENTICE] = "exit"
  \/ /\ toMaster = <<"RES_OK">>
     /\ toApprentice = <<>>
     /\ st[MASTER] = "header" =>
          IF log[MASTER][LM].op \in ZeroOps
            THEN accepted = LM
            ELSE st[APPRENTICE] \in {"payload", "exit"} /\ LM = accepted + 1
     /\ st[MASTER] = "payload" =>
          accepted = LM /\ log[MASTER][LM].op # OP_TESTEND
  \/ /\ toMaster = <<"RES_END">>
     /\ st[APPRENTICE] = "exit"

\* How the processes end.
EndInv ==
  /\ \A s \in Side : res[s] # "RES_OK" => st[s] = "exit"
  /\ \A s \in Side : code[s] = "EXIT_SUCCESS" <=> res[s] = "RES_END"
  /\ DoneTogether
  /\ res[APPRENTICE] \in {"RES_END"} \cup Mismatch =>
       st[MASTER] = "exit" \/ toMaster = <<"RES_END">>

Verdicts ==
  /\ AcceptedAgree
  /\ SuccessIsEarned
  /\ AlarmIsGenuine
  /\ SizeErrorsExplained

Inductive ==
  /\ TypeOK
  /\ HistoryInv
  /\ ApprenticeInv
  /\ MasterInv
  /\ PacketInv
  /\ ResponseInv
  /\ EndInv
  /\ Verdicts
=============================================================================
