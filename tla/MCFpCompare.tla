----------------------------- MODULE MCFpCompare ----------------------------
(* A small format for FpCompare: 4 exponent and 3 fraction bits, floats    *)
(* with 3 and 1.  Every instruction, with its target among the operands or *)
(* not, and with a register that is masked out, below or above the target, *)
(* among them or not.                                                      *)
EXTENDS FpCompare

Num(e, f) == (Bias + e) * Hidden + f
Minus(n) == n + SignBit

\* The operands of a multiply-add: the target is none, each or all of them.
MCSources == {<<0, 2, 0>>, <<1, 2, 0>>, <<0, 1, 0>>, <<0, 2, 1>>, <<1, 1, 1>>}

MCPrevious ==
  {Insn(op, 1, s[1], s[2], s[3]) : op \in Fma \cup Fmas, s \in MCSources}
    \cup {Insn(op, 1, ra, rb, 0) : op \in {"fadd", "fsub", "fdiv", "fadds", "fsubs", "fdivs"},
                                   ra \in {0, 1}, rb \in {1, 2}}
    \cup {Insn(op, 1, ra, 0, rc) : op \in {"fmul", "fmuls"}, ra \in {0, 1}, rc \in {1, 2}}
    \cup {Insn(op, 1, 0, rb, 0) : op \in UnaryOps, rb \in {0, 1, 2}}

\* Zero, the least denormalized number, one, a number no float can hold,
\* infinity, a quiet NaN.
MCOperandValues == {0, 1, Num(0, 0), Num(SBIG + 2, 0), INF, QNAN}

\* And too small for a float, one and its neighbours, minus one.
MCResults == MCOperandValues \cup
  {Num(SMIN - 1, 0), Num(0, 1), Num(0, 4), Minus(Num(0, 0))}
MCOptSets == {FpOpts}
MCMasks == {0 .. 2, 1 .. 2, 0 .. 1}
MCUnmasked == {<<0, INF>>}
=============================================================================
