------------------------------ MODULE MCLockstep ------------------------------
(* Small instances of Lockstep for TLC.                                    *)
EXTENDS LockstepInv

\* r0 stands for what is compared and updated, sp for what is neither.
MCReg == {"r0", "lr", "sp"}

MCStartRegs == [s \in Side |->
  [r0 |-> 1, lr |-> 0, sp |-> IF s = MASTER THEN 0 ELSE 1]]

MCStartMem == [s \in Side |-> [a \in Mapped |-> 0]]

SameBuild == {[s \in Side |-> 3]}
AnyBuild == {[s \in Side |-> IF s = MASTER THEN 3 ELSE n] : n \in 2 .. 4}

Ordinary(p, r, m) == [trap |-> "none", pc |-> p, regs |-> r, mem |-> m]
Trap(t, p, r, m) == [trap |-> t, pc |-> p, regs |-> r, mem |-> m]

I == OP_SIGILL
C == OP_COMPARE
E == OP_TESTEND
S == OP_SETMEMBLOCK
G == OP_GETMEMBLOCK
M == OP_COMPAREMEM
B == OP_SETUPBEGIN
F == OP_SETUPEND

-----------------------------------------------------------------------------
(* Divergent implementations: an instruction may set r0 to either value,   *)
(* store to the memory block, jump over its successor, trap or leave the   *)
(* image, on each side independently.                                      *)

LongestDivergent == 6

DivergentExec(s, p, r, m) ==
  {o \in {Ordinary(p + 1, [r EXCEPT !["r0"] = w], m) : w \in {0, 1}}
           \cup {Ordinary(p + 2, r, m), Ordinary(p + 1, r, [a \in Mapped |-> 1])}
           \cup {Trap(t, p, r, m) : t \in {"SIGILL", "SIGBUS", "return"}} :
     o.pc <= LongestDivergent}

DivergentImages == {
  <<I, C, I, E>>,
  <<S, G, I, M, E>>,
  <<B, I, F, C, I, E>>,
  <<B, S, I, C, F, E>>,
  <<I, M, I, E>>,
  <<I, G, I, G, E>>,
  <<I, 7, C, E>>,
  <<I, S, M, E>>,
  <<I, B, I, I, F, E>>}

-----------------------------------------------------------------------------
(* Conforming implementations of the kind of image risugen writes: a setup *)
(* phase with an instruction only one side may have (8), an instruction    *)
(* whose result reginfo_is_eq tolerates (12), one that computes and stores *)
(* from that result (14).  Empty setup phases in front put its             *)
(* instructions where no divergent image has any.                          *)

ConformingImages == {<<B, F, B, F, B, F, B, I, S, F, C, I, C, I, C, G, M, E>>}

ConformingExec(s, p, r, m) ==
  CASE p = 8 -> {Ordinary(9, r, m), Trap("SIGILL", p, r, m)}
    [] p = 12 -> {Ordinary(13, [r EXCEPT !["r0"] = w], m) : w \in {0, 1}}
    [] p = 14 -> {Ordinary(15, [r EXCEPT !["r0"] = (@ + 1) % WordMod],
                           [a \in Mapped |-> r["r0"]])}
    [] OTHER -> {}

MCImages == DivergentImages \cup ConformingImages
MCExec(s, p, r, m) == IF p <= LongestDivergent THEN DivergentExec(s, p, r, m)
                                               ELSE ConformingExec(s, p, r, m)

\* At the second instruction of a divergent image, and after instruction 12
\* of the conforming one, reginfo_is_eq tolerates r0.
MCCompared(mpc, mregs, apc, aregs) == IF mpc \in {2, 13} THEN {} ELSE {"r0"}
=============================================================================
