------------------------------- MODULE MCTrace --------------------------------
(* Small instances of Trace for TLC.                                       *)
EXTENDS Trace

Both(i) == [s \in Side |-> i]
Mixed(i, j) == [s \in Side |-> IF s = MASTER THEN i ELSE j]

\* An image of the shape risugen writes; one with illegal instructions in a
\* setup phase; one that compares a memory block in it; one that compares a
\* block it never set; played back against itself and against another.
Straight == <<OP_SETMEMBLOCK, OP_GETMEMBLOCK, OP_SIGILL, OP_COMPARE, OP_COMPAREMEM, OP_TESTEND>>
Setup == <<OP_SETUPBEGIN, OP_SIGILL, OP_COMPARE, OP_SETUPEND, OP_SIGILL, OP_TESTEND>>
SetupBlock == <<OP_SETMEMBLOCK, OP_SETUPBEGIN, OP_SIGILL, OP_COMPAREMEM, OP_TESTEND>>
NoBlock == <<OP_COMPAREMEM, OP_COMPARE, OP_TESTEND>>
WithBlock == <<OP_SETMEMBLOCK, OP_COMPAREMEM, OP_COMPARE, OP_TESTEND>>
Short == <<OP_SIGILL, OP_TESTEND>>
Early == <<OP_SETMEMBLOCK, OP_COMPAREMEM, OP_TESTEND>>

Pairs == {Both(Straight), Both(Setup), Both(SetupBlock), Both(NoBlock), Mixed(Straight, Setup),
          Mixed(Setup, Short), Mixed(NoBlock, WithBlock), Mixed(WithBlock, NoBlock),
          Mixed(WithBlock, Early)}
PipePairs == {Both(Short), Both(WithBlock), Both(NoBlock),
              Mixed(Setup, Short), Mixed(WithBlock, Early), Mixed(NoBlock, WithBlock)}

AllSizes == {Mixed(2, 2), Mixed(1, 2), Mixed(2, 1)}
Given(pairs, p) ==
  [image : pairs, regsize : AllSizes, pipe : {p}]
MCSetups == Given(Pairs, FALSE) \cup Given(PipePairs, TRUE)
=============================================================================
