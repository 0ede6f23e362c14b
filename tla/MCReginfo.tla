------------------------------ MODULE MCReginfo -----------------------------
(* Images of three traps for every architecture, and on ppc64 blocks with  *)
(* each instruction the comparison knows, on words of two 2-bit bytes.  r1 *)
(* (the stack pointer), the fourth bit of cr1 and a bit of FPSCR's second  *)
(* field are masked out.                                                   *)
EXTENDS Reginfo, TLC

MCGpr == <<"r0", "r1", "r2", "r3">>

Bits == {0, 1, 2} \X {0, 1, 3}
I(op, rt, ra, rb, v) == [op |-> op, rt |-> rt, ra |-> ra, rb |-> rb, v |-> v]
Div(op, rt, ra, rb, dot) == I(op, rt, ra, rb, 0) @@ [dot |-> dot]
To(op, f, v) == [op |-> op, f |-> f, v |-> v]
Compare == [op |-> "compare"]
Li(rt, v) == I("li", rt, 0, 0, v)

MCBlocks == <<
  <<Li(0, 7), Compare>>, <<Li(2, 1), Compare>>,
  <<Li(1, 3), Compare>>, <<I("mr", 2, 0, 0, 0), Compare>>,
  <<I("bl", 0, 0, 0, 0), Compare>>, <<I("mflr", 0, 0, 0, 0), Compare>>,
  <<I("mtlr", 0, 0, 0, 0), Compare>>,
  <<Div("div", 2, 0, 2, TRUE), Compare>>, <<Div("div", 3, 0, 2, TRUE), Compare>>,
  <<Div("div", 3, 0, 2, FALSE), Compare>>,
  <<Div("divs", 3, 0, 2, TRUE), Compare>>, <<Div("divs", 3, 2, 0, FALSE), Compare>>,
  <<Div("divs", 2, 2, 0, FALSE), Compare>>,
  <<I("lscbx", 2, 0, 0, 6) @@ [n |-> 1], Li(1, 1), Compare>>,
  <<I("lscbx", 2, 0, 0, 6) @@ [n |-> 3], Li(1, 1), Compare>>,
  <<I("mul", 0, 0, 0, 0), Compare>>,
  <<I("fcmp", 0, 0, 0, {0}), Compare>>,
  <<I("fadd", 0, 0, 0, {<<0, 1>>}), I("mcrfs", 0, 2, 0, 0), Compare>>,
  <<To("mtspr", "MQ", 11), Compare>>, <<To("mtspr", "CTR", 3), Compare>>,
  <<To("mtspr", "CCR", {<<0, 1>>}), Compare>>, <<To("mtspr", "fpscr", {<<0, 1>>}), Compare>>,
  <<To("mtspr", "XER", [bits |-> {"CA"}, count |-> 1]), Compare>>,
  <<To("mtspr", "fpregs", 3), Compare>>, <<To("mtspr", "vrregs", 3), Compare>>,
  <<I("la", 2, 0, 0, 0), [op |-> "illegal"], I("addi", 2, 0, 0, 4), Compare>> >>

MCJunk == {0, 9}
MCJunkConditions == {{<<0, 0>>}, {<<0, 1>>}}

Options_ppc64 ==
  {[gregs_mask |-> {"r0", "r2", "r3"}, ccr_mask |-> Bits \ {<<1, 3>>},
    fpscr_mask |-> Bits \ {<<2, 1>>}, xer_mask |-> {"SO", "CA", "count"},
    mq_mask |-> all, vrregs_mask |-> all, use_601 |-> all, bits |-> Bits]
     : all \in BOOLEAN}

\* Registers as they are found: r1, MQ and the vector registers, when they
\* are masked, are different on the two sides.
Found(b, x, vr) ==
  [r0 |-> 0, r1 |-> x, r2 |-> 5, r3 |-> 0, XER |-> [bits |-> {}, count |-> 0], LNK |-> b,
   CTR |-> 0, CCR |-> {}, MQ |-> x, fpscr |-> {}, fpregs |-> 0,
   vrregs |-> IF vr THEN 0 ELSE x, NIP |-> b]

Setups_ppc64 ==
  {[arch |-> "ppc64", opt |-> o, base |-> (MASTER :> 0 @@ APPRENTICE :> b),
    code |-> <<Compare>>,
    uc |-> (MASTER :> Found(0, 2, o.vrregs_mask) @@ APPRENTICE :> Found(b, 11, o.vrregs_mask))]
     : o \in Options_ppc64, b \in {0, 8}}

\* The other architectures

Insn(op, start, size, thumb, wide) ==
  [op |-> op, start |-> start, size |-> size, thumb |-> thumb, wide |-> wide]
Trap(op, start, size) == Insn(op, start, size, FALSE, FALSE)
Image(op, a, b) == <<Trap(op, 0, a), Trap("compare", a, b), Trap("testend", a + b, b)>>

Setup(a, o, c, regs) ==
  [arch |-> a, opt |-> o, base |-> (MASTER :> 0 @@ APPRENTICE :> 100), code |-> c,
   uc |-> [s \in Side |-> [r \in regs |-> 0]]]

Setups_arm ==
  {Setup("arm", o, c, {"gpr", "flags", "exc", "fp", "fpscr"}) :
     o \in {"none", "test-fp-exc"},
     c \in {Image("illegal", 4, 4),
            <<Insn("illegal", 0, 4, TRUE, TRUE), Insn("compare", 4, 2, TRUE, FALSE),
              Insn("testend", 6, 2, TRUE, FALSE)>>}}

MCSetups == Setups_ppc64 \cup Setups_arm \cup
  {Setup("aarch64", o, Image("illegal", 4, 4),
         {"gpr", "flags", "fault", "fpsr", "fpcr", "v", "z"}) : o \in {"none", "test-sve"}} \cup
  {Setup("i386", o, Image("compare", 3, 3),
         {"gpr", "flags", "mxcsr", "xmm", "x87", "ymm_hi", "opmask", "zmm_hi", "hi16_zmm"})
     : o \in {"sse", "avx", "avx512"}} \cup
  {Setup("loongarch64", "none", Image("illegal", 4, 4),
         {"gpr", "flags", "v0_4", "v0", "v1_2", "v1", "hi", "fcsr", "fcc"}),
   Setup("m68k", "none", Image("compare", 4, 4),
         {"gpr", "sp", "flags", "fpcr", "fpsr", "fpiaddr", "fp"})} \cup
  {Setup("s390x", "none", Image("illegal", n, 4), {"gpr", "flags", "fpcr", "fp"}) : n \in {2, 6}}

MCFramesOf(a) ==
  CASE a = "arm" -> {<< >>, <<"iwmmxt", "vfp">>}
    [] a = "aarch64" ->
         {[main |-> <<"fpsimd", "extra">>, extra |-> <<"sve">>],
          [main |-> <<"fpsimd", "sve_unused">>, extra |-> << >>],
          [main |-> <<"fpsimd", "sve_short">>, extra |-> << >>],
          [main |-> <<"fpsimd">>, extra |-> << >>]}
    [] a = "i386" ->
         {[kinds |-> {}, saved |-> {}], [kinds |-> {"fxsave"}, saved |-> {}],
          [kinds |-> {"fxsave", "xsave"}, saved |-> {4, 32, 64, 128}]}
    [] a = "loongarch64" ->
         {[records |-> r, behind |-> 0] : r \in {<< >>, <<"lasx">>, <<"lbt", "lsx">>}} \cup
         {[records |-> r, behind |-> b] : r \in {<<"fpu">>, <<"lsx">>}, b \in {0, 1}}
    [] OTHER -> {<< >>}
=============================================================================
