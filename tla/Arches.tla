------------------------------- MODULE Arches -------------------------------
(***************************************************************************)
(* How the architectures other than ppc64 turn the context of a trap into  *)
(* a struct reginfo, compare two of them and name what differs             *)
(* (risu_reginfo_<arch>.c, risu_<arch>.c).  Registers of one class are one *)
(* component: u.gpr stands for all general registers that are copied.      *)
(*                                                                         *)
(*   u      the registers when the signal arrives                          *)
(*   frame  what the kernel has put into the extended part of the context  *)
(*   off    the address of the trapping instruction in the image           *)
(*   in     that instruction: size in bytes, Thumb state, risu operation   *)
(*   opt    the option of the architecture                                 *)
(***************************************************************************)
EXTENDS Integers, Sequences, FiniteSets, Functions

Dead == -1                              \* 0xdeadbeef
Differing(m, a) == {f \in DOMAIN m : m[f] # a[f]}

----------------------------------------------------------------------------
\* arm

\* The instruction after the trap when every instruction has four bytes.
insnsize_NoThumb(in) == 4

insnsize(in) == IF in.thumb /\ ~in.wide THEN 2 ELSE 4

\* The blocks of uc_regspace up to the first one that holds the VFP state;
\* a block that is too short is passed over like a foreign one.
has_vfp(frame) == "vfp" \in Range(frame)

\* The mutant of reginfo_init_vfp that leaves the exception flags.
clear_exceptions_Never(u, frame) == u

clear_exceptions(u, frame) ==
  IF has_vfp(frame) THEN [u EXCEPT !.exc = 0] ELSE u

reginfo_init_arm(u, frame, off, in, opt) ==
  LET vfp == has_vfp(frame) IN
  [gpreg |-> u.gpr, sp |-> Dead, pc |-> off, cpsr |-> u.flags,
   faulting_insn |-> in.op, faulting_insn_size |-> insnsize(in),
   fpregs |-> IF vfp THEN u.fp ELSE 0,
   fpscr |-> IF vfp THEN u.fpscr ELSE 0,
   exc |-> IF vfp /\ opt = "test-fp-exc" THEN u.exc ELSE 0]

dump_mismatch_arm(m, a) ==
  LET d == Differing(m, a) IN
  IF "faulting_insn_size" \in d THEN d \ {"faulting_insn"} ELSE d

----------------------------------------------------------------------------
\* aarch64

\* The list of records ends with a null record; the records of the extra
\* context, if there is one, follow.
records(frame) ==
  Range(frame.main) \cup IF "extra" \in Range(frame.main) THEN Range(frame.extra)
                                                          ELSE {}

\* The vector state: nothing without a whole FP/SIMD record or with an SVE
\* record that is absent, of another vector length or cut short, the SVE
\* registers if they are there, and else the SIMD registers.
vectors(u, frame, opt) ==
  LET none == [fpsr |-> 0, fpcr |-> 0, sve_vl |-> 0, v |-> 0, z |-> 0]
      fp == [none EXCEPT !.fpsr = u.fpsr, !.fpcr = u.fpcr]
  IN IF "fpsimd" \notin records(frame) THEN none
     ELSE IF opt # "test-sve" \/ "sve_unused" \in records(frame)
       THEN [fp EXCEPT !.v = u.v]
     ELSE IF "sve" \in records(frame)
       THEN [fp EXCEPT !.sve_vl = 1, !.v = u.v, !.z = u.z]
     ELSE fp                            \* absent, of another length, cut short

reginfo_init_aarch64(u, frame, off, in, opt) ==
  [regs |-> u.gpr, sp |-> Dead, pc |-> off, flags |-> u.flags,
   fault_address |-> u.fault, faulting_insn |-> in.op,
   vec |-> vectors(u, frame, opt)]

\* fault_address takes part in the memcmp and is never printed.
dump_mismatch_aarch64(m, a) == Differing(m, a) \ {"fault_address"}

----------------------------------------------------------------------------
\* i386 and x86_64

XFEAT_AVX == 4
XFEAT_AVX512_OPMASK == 32
XFEAT_AVX512_ZMM_HI256 == 64
XFEAT_AVX512_HI16_ZMM == 128
xfeatures(opt) ==
  CASE opt = "avx" -> {XFEAT_AVX}
    [] opt = "avx512" -> {XFEAT_AVX, XFEAT_AVX512_OPMASK,
                          XFEAT_AVX512_ZMM_HI256, XFEAT_AVX512_HI16_ZMM}
    [] OTHER -> {}                      \* x87 and SSE only

\* Where cpuid leaf 0xd places the state component with this index in the
\* area the kernel saves: offset 0, the x87 registers, when there is none.
cpuid_0xd(index) ==
  CASE index = 2 -> "ymm_hi" [] index = 5 -> "opmask"
    [] index = 6 -> "zmm_hi" [] index = 7 -> "hi16_zmm" [] OTHER -> "x87"

\* The state a feature stands for.
state(feature) ==
  CASE feature = XFEAT_AVX -> "ymm_hi" [] feature = XFEAT_AVX512_OPMASK -> "opmask"
    [] feature = XFEAT_AVX512_ZMM_HI256 -> "zmm_hi" [] OTHER -> "hi16_zmm"

xsave_feature_buf(u, feature) == u[cpuid_0xd(feature)]

\* The state is omitted if unused, and a component the kernel has not saved
\* is left zero.
reginfo_init_i386(u, frame, off, in, opt) ==
  LET features == IF "xsave" \in frame.kinds THEN xfeatures(opt) \cap frame.saved
                                             ELSE {}
      saved(feature) == IF feature \in features THEN xsave_feature_buf(u, feature)
                                                ELSE 0
      fxsave == "fxsave" \in frame.kinds
  IN [xfeatures |-> xfeatures(opt), gregs |-> u.gpr, sp |-> Dead, eip |-> off,
      efl |-> u.flags, faulting_insn |-> in.op,
      mxcsr |-> IF fxsave THEN u.mxcsr ELSE 0,
      xmm |-> IF fxsave THEN u.xmm ELSE 0,
      ymm_hi |-> saved(XFEAT_AVX), kregs |-> saved(XFEAT_AVX512_OPMASK),
      zmm_hi |-> saved(XFEAT_AVX512_ZMM_HI256),
      hi16_zmm |-> saved(XFEAT_AVX512_HI16_ZMM)]

\* As many quadwords and registers as the master's features have.
dump_mismatch_i386(m, a) ==
  LET f == m.xfeatures
      wide == IF XFEAT_AVX512_ZMM_HI256 \in f THEN {"ymm_hi", "zmm_hi"}
              ELSE IF XFEAT_AVX \in f THEN {"ymm_hi"} ELSE {}
      many == IF XFEAT_AVX512_HI16_ZMM \in f THEN {"hi16_zmm"} ELSE {}
  IN Differing(m, a) \cap ({"gregs", "sp", "eip", "efl", "mxcsr", "xfeatures",
                            "xmm", "kregs"} \cup wide \cup many)

----------------------------------------------------------------------------
\* loongarch64

\* The first words of the vector registers are v0_4 for the registers with a
\* number divisible by four and v0 for the others, the second words v1_2 for
\* the even numbers and v1 for the odd ones, and hi the upper halves.  A frame
\* has the records and what lies behind the array of the vector registers.
\* The records before the first one that is unknown or too short: what
\* parse_extcontext returns is not looked at.
parse_extcontext(frame) ==
  {frame[i] : i \in {j \in DOMAIN frame :
                       \A k \in 1 .. j : frame[k] \in {"fpu", "lsx", "lasx"}}}

\* The mutant of the LASX branch that loses the upper half.
lasx_Half(u) == [v0 |-> <<u.v0_4, u.v0>>, v1 |-> <<u.v1_2, u.v1>>, hi |-> 0]

lasx(u) == [v0 |-> <<u.v0_4, u.v0>>, v1 |-> <<u.v1_2, u.v1>>, hi |-> u.hi]

\* The array of an LSX context has two words for a register and word 4i + 1 is
\* read for both halves of register i: the upper half of register 2i, and from
\* i = 16 on what lies behind the array.
lsx(u, behind) == [v0 |-> <<u.v1_2, behind>>, v1 |-> <<u.v1_2, behind>>, hi |-> 0]

\* The array of an FPU context has one word for a register and word 4i is read
\* for register i: register 4i, and from i = 8 on what lies behind the array.
fpu(u, behind) == [v0 |-> <<u.v0_4, behind>>, v1 |-> <<0, 0>>, hi |-> 0]

reginfo_init_loongarch64(u, frame, off, in, opt) ==
  LET ctx == parse_extcontext(frame.records)
      vec == IF "lasx" \in ctx THEN lasx(u)
             ELSE IF "lsx" \in ctx THEN lsx(u, frame.behind)
             ELSE IF "fpu" \in ctx THEN fpu(u, frame.behind)
             ELSE [v0 |-> <<0, 0>>, v1 |-> <<0, 0>>, hi |-> 0]
  IN [regs |-> u.gpr, tp |-> Dead, pc |-> off, flags |-> u.flags,
      faulting_insn |-> in.op, vregs |-> vec,
      fcsr |-> IF ctx # {} THEN u.fcsr ELSE 0,
      fcc |-> IF ctx # {} THEN u.fcc ELSE 0,
      vl |-> IF "lasx" \in ctx THEN 256 ELSE IF "lsx" \in ctx THEN 128
             ELSE IF "fpu" \in ctx THEN 64 ELSE 0]

\* The mutant that prints the vector registers of a 256 bit context only.
dump_mismatch_loongarch64_256(m, a) ==
  Differing(m, a) \ IF m.vl = 256 THEN {} ELSE {"vregs"}

\* As much of the vector registers as the master's vl says.
dump_mismatch_loongarch64(m, a) ==
  LET parts == CASE m.vl = 256 -> {"v0", "v1", "hi"} [] m.vl = 128 -> {"v0", "v1"}
                 [] m.vl = 64 -> {"v0"} [] OTHER -> {}
  IN (Differing(m, a) \ {"vregs"})
       \cup IF \E p \in parts : m.vregs[p] # a.vregs[p] THEN {"vregs"} ELSE {}

----------------------------------------------------------------------------
\* m68k and s390x

reginfo_init_m68k(u, frame, off, in, opt) ==
  [faulting_insn |-> in.op, pc |-> off, gregs |-> u.gpr, sp_a6 |-> u.sp,
   ps |-> u.flags, pcr |-> u.fpcr, psr |-> u.fpsr, fpiaddr |-> u.fpiaddr,
   fpregs |-> u.fp]

Compared_m68k == {"ps", "gregs", "pcr", "psr", "fpregs"}
reginfo_is_eq_m68k(m, a) == Differing(m, a) \cap Compared_m68k = {}
dump_mismatch_m68k(m, a) == Differing(m, a) \cap Compared_m68k

\* The first two bits of an instruction tell its length; the kernel has
\* already moved the PSW, so the address comes from siginfo.
reginfo_init_s390x(u, frame, off, in, opt) ==
  [faulting_insn |-> in.op, faulting_insn_len |-> in.size, psw_mask |-> u.flags,
   pc_offset |-> off, gprs |-> u.gpr, fpc |-> u.fpcr, fprs |-> u.fp]

reginfo_is_eq_s390x(m, a) ==
  Differing(m, a) \cap {"pc_offset", "fpc", "gprs", "fprs"} = {}
dump_mismatch_s390x(m, a) ==
  Differing(m, a) \cap {"pc_offset", "fpc", "gprs", "fprs"}
----------------------------------------------------------------------------
\* How execution goes on.  p is the program counter in the context.

\* After SIGILL the PSW of s390x points behind the instruction.
kernel_pc(arch, p, in) == IF arch = "s390x" THEN p + in.size ELSE p

advance_pc_arm(p, in) == p + insnsize(in)
advance_pc_i386(p) == p + 3             \* UD1 as the risu operation
advance_pc_s390x(p) == p
advance_pc_aarch64(p) == p + 4
advance_pc_loongarch64(p) == p + 4
advance_pc_m68k(p) == p + 4
=============================================================================
