------------------------------ MODULE Reginfo ------------------------------
(***************************************************************************)
(* Master and apprentice run the same image on two implementations of an   *)
(* architecture, and every trap is a checkpoint: both capture their        *)
(* registers (reginfo_init), the apprentice compares (reginfo_is_eq), goes *)
(* on with the master's registers (reginfo_update) behind the instruction  *)
(* (advance_pc), or names what differs (reginfo_dump_mismatch).            *)
(*                                                                         *)
(* The transport between the two is module Lockstep's; here a checkpoint   *)
(* is one step.  On ppc64 the instructions of the image are steps of their *)
(* own, because the comparison depends on them; elsewhere a step of the    *)
(* image writes some register.  The apprentice's implementation may err in *)
(* any step.                                                               *)
(***************************************************************************)
EXTENDS Arches, Insns

CONSTANTS
  Setups,       \* the initial states: architecture, options, image, addresses
  Blocks,       \* ppc64: a sequence of straight pieces of code, each up to OP_COMPARE
  MaxBlocks,    \* how many of them are executed
  Values,       \* what a register of the other architectures can hold
  FramesOf(_)   \* the contexts a kernel of the architecture builds

MASTER == "master"
APPRENTICE == "apprentice"
Side == {MASTER, APPRENTICE}

----------------------------------------------------------------------------
\* What the images, the options and the registers a run starts with are.

\* The registers of the two sides, as the first comparison finds them.
Begins_ppc64(u) ==
  /\ u.opt.gregs_mask \subseteq Range(Gpr)
  /\ u.opt.ccr_mask \cup u.opt.fpscr_mask \cup u.opt.bits \subseteq Bit
  /\ DOMAIN u.code = {1} /\ Len(u.code) = 1 /\ u.code[1].op = "compare"
  /\ DOMAIN u.uc = Side /\ \A s \in Side : Registers(u.uc[s])
  /\ \A f \in Range(Gpr) \cup Special :
       Differs(u.uc[MASTER], u.uc[APPRENTICE], f) => f = "MQ" \/ Unseen(f, u.opt)
  /\ u.base[MASTER] = u.base[APPRENTICE] => u.uc[MASTER].NIP = u.uc[APPRENTICE].NIP
  /\ \A i \in DOMAIN Blocks : Block(Blocks[i], u.opt)

\* Elsewhere the instructions of the image lie one behind the other.
Sized(a, in) ==
  /\ in.size \in Nat \ {0}
  /\ a = "arm" => in.size = IF in.thumb /\ ~in.wide THEN 2 ELSE 4
  /\ a = "i386" => in.size = 3
  /\ a \in {"aarch64", "loongarch64", "m68k"} => in.size = 4
Image_of(a, c) ==
  /\ Len(c) \in Nat \ {0} /\ DOMAIN c = 1 .. Len(c)
  /\ c[1].start = 0 /\ c[Len(c)].op = "testend"
  /\ \A k \in DOMAIN c : c[k].start \in Nat /\ Sized(a, c[k])
  /\ \A j, k \in DOMAIN c : /\ k = j + 1 => c[k].start = c[j].start + c[j].size
                            /\ j < k => c[j].start < c[k].start
Begins(u) ==
  /\ Image_of(u.arch, u.code)
  /\ DOMAIN u.uc = Side /\ u.uc[MASTER] = u.uc[APPRENTICE]
  /\ u.arch = "arm" => "exc" \in DOMAIN u.uc[MASTER] /\ u.uc[MASTER].exc = 0

Archs == {"ppc64", "arm", "aarch64", "i386", "loongarch64", "m68k", "s390x"}
ASSUME SetupsAssumption ==
  \A u \in Setups :
    /\ u.arch \in Archs /\ u.base \in [Side -> Int]
    /\ IF u.arch = "ppc64" THEN Begins_ppc64(u) ELSE Begins(u)

----------------------------------------------------------------------------
VARIABLES
  arch, opt, base,   \* architecture, options, address of the image on each side
  code, at, pc,      \* instructions, index of the next one, its address
  uc, frame,         \* registers and extended context
  st,                \* "run", "trap", "mismatch", "end"
  ri,                \* struct reginfo ri[2]
  signal_count,
  named,             \* what reginfo_dump_mismatch prints
  honest,            \* the apprentice's implementation has not erred
  erred,             \* it has, in a register of Compared
  strict,            \* the comparison insists on a result since the last checkpoint
  raised             \* exceptions the image has raised since the last trap

given == <<arch, opt, base>>
place == <<code, at, pc>>
history == <<honest, erred, strict, raised>>
vars == <<given, place, uc, frame, st, ri, signal_count, named, history>>

\* Where the k-th instruction of the image is.
Start(k) == code[k].start

Pair(x, y) == [s \in Side |-> IF s = MASTER THEN x ELSE y]

\* The two kernels lay the contexts out in the same way; what lies behind them
\* on the stack may be anything.
Alike(f, g) == IF arch = "loongarch64" THEN f.records = g.records ELSE f = g

Init ==
  /\ \E s \in Setups :
       /\ arch = s.arch /\ opt = s.opt /\ base = s.base /\ code = s.code
       /\ uc = s.uc /\ pc = s.base
  /\ frame \in [Side -> FramesOf(arch)]
  /\ at = [s \in Side |-> 1]
  /\ st = "run" /\ ri = << >> /\ signal_count = 0 /\ named = {}
  /\ honest = Alike(frame[MASTER], frame[APPRENTICE])
  /\ erred = FALSE /\ strict = FALSE /\ raised = 0

----------------------------------------------------------------------------
\* A step of the image on the other architectures.

\* The registers struct reginfo has a field for that the context f holds.
Saved(f) ==
  CASE arch = "arm" -> {"gpr", "flags"} \cup
         (IF ~has_vfp(f) THEN {} ELSE {"fp", "fpscr"} \cup
          IF opt = "test-fp-exc" THEN {"exc"} ELSE {})
    [] arch = "aarch64" -> {"gpr", "flags", "fault"} \cup
         (IF "fpsimd" \in records(f) THEN {"fpsr", "fpcr", "v"} ELSE {}) \cup
         IF opt = "test-sve" /\ records(f) \cap {"sve", "sve_short"} # {} THEN {"z"} ELSE {}
    [] arch = "i386" -> {"gpr", "flags"} \cup
         (IF "fxsave" \in f.kinds THEN {"mxcsr", "xmm"} ELSE {}) \cup
         IF "xsave" \in f.kinds THEN {state(x) : x \in xfeatures(opt) \cap f.saved} ELSE {}
    [] arch = "loongarch64" -> {"gpr", "flags"} \cup
         LET c == Range(f.records) IN
         (IF c \cap {"fpu", "lsx", "lasx"} # {} THEN {"fcsr", "fcc", "v0_4", "v0"} ELSE {}) \cup
         (IF c \cap {"lsx", "lasx"} # {} THEN {"v1_2", "v1"} ELSE {}) \cup
         IF "lasx" \in c THEN {"hi"} ELSE {}
    [] arch = "m68k" -> {"gpr", "flags", "fpcr", "fpsr", "fp"}
    [] arch = "s390x" -> {"gpr", "flags", "fpcr", "fp"}

\* Those among them that never reach the comparison.  With --test-sve and no
\* SVE record of the right length, the SIMD registers.  The AVX and AVX-512
\* state: cpuid is asked for the feature's mask instead of its index.  What
\* follows an unknown record on loongarch64; all but one word of every second
\* LSX register, and all but every fourth FPU register.  The PSW mask, with the
\* condition code.
Missed(f) ==
  CASE arch = "aarch64" -> IF "fpsimd" \notin records(f) THEN {"z"}
         ELSE IF opt = "test-sve" /\ records(f) \cap {"sve", "sve_unused"} = {} THEN {"v", "z"}
         ELSE IF "sve_unused" \in records(f) THEN {"z"} ELSE {}
    [] arch = "i386" -> {"ymm_hi", "opmask", "zmm_hi", "hi16_zmm"}
    [] arch = "loongarch64" ->
         LET c == parse_extcontext(f.records) IN
         IF "lasx" \in c THEN {} ELSE {"v0", "v1", "hi"} \cup
           IF "lsx" \in c THEN {"v0_4"} ELSE {"v1_2"} \cup
             IF "fpu" \in c THEN {} ELSE {"v0_4", "fcsr", "fcc"}
    [] arch = "s390x" -> {"flags"}
    [] OTHER -> {}

\* The registers whose difference a checkpoint has to find.
Compared(f) == Saved(f) \ Missed(f)

Written(t, v, w) ==
  /\ uc' = [uc EXCEPT ![MASTER][t] = v, ![APPRENTICE][t] = w]
  /\ raised' = IF t = "exc" THEN v ELSE raised

\* The right result: the same on both sides.
WriteRegister ==
  /\ \E t \in DOMAIN uc[MASTER], v \in Values : Written(t, v, v)
  /\ UNCHANGED <<frame, at, pc, honest, erred, strict>>

\* The instruction is not implemented correctly.
WriteWrongly ==
  /\ \E t \in DOMAIN uc[MASTER] : \E v, w \in Values :
       /\ v # w /\ Written(t, v, w)
       /\ erred' = (erred \/ \A s \in Side : t \in Compared(frame[s]))
  /\ honest' = FALSE
  /\ UNCHANGED <<frame, at, pc, strict>>

\* The apprentice ends up at another trap; m68k does not compare the address.
BranchWrongly ==
  /\ \E k \in DOMAIN code \ {at[APPRENTICE]} :
       /\ at' = [at EXCEPT ![APPRENTICE] = k]
       /\ pc' = [pc EXCEPT ![APPRENTICE] = base[APPRENTICE] + Start(k)]
  /\ honest' = FALSE
  /\ erred' = (erred \/ arch # "m68k")
  /\ UNCHANGED <<uc, frame, strict, raised>>

\* A context with more or fewer records, here as on the other side.  On arm
\* the blocks are those the kernel is configured with, always the same.
OtherFrame ==
  /\ arch # "arm"
  /\ \E f \in FramesOf(arch) : frame' = [s \in Side |-> f]
  /\ UNCHANGED <<uc, at, pc, history>>

\* The other side's kernel lays its contexts out in another way, or other words
\* lie behind them.
UnequalFrames ==
  /\ arch # "arm"
  /\ \E f, g \in FramesOf(arch) :
       /\ f # g /\ frame' = Pair(f, g)
       /\ honest' = (honest /\ Alike(f, g))
  /\ UNCHANGED <<uc, at, pc, erred, strict, raised>>

Run ==
  /\ arch # "ppc64" /\ st = "run"
  /\ \A s \in Side : at[s] \in DOMAIN code
  /\ WriteRegister \/ WriteWrongly \/ BranchWrongly \/ OtherFrame \/ UnequalFrames
  /\ st' = "trap"
  /\ UNCHANGED <<given, code, ri, signal_count, named>>

----------------------------------------------------------------------------
\* A step of the image on ppc64: one instruction on both sides.

Here(s) == code[at[s]]

NextBlock ==
  /\ arch = "ppc64" /\ st = "run" /\ at[MASTER] > Len(code)
  /\ signal_count < MaxBlocks
  /\ \E i \in DOMAIN Blocks : code' = Blocks[i]
  /\ at' = [s \in Side |-> 1]
  /\ strict' = FALSE
  /\ UNCHANGED <<given, pc, uc, frame, st, ri, signal_count, named, honest, erred,
                 raised>>

\* mtlr makes an address of a number: with the image at two addresses the
\* link registers no longer differ by what the program counters do.
Executes ==
  /\ arch = "ppc64" /\ st = "run"
  /\ at[MASTER] \in DOMAIN code /\ Here(MASTER).op \notin Traps
  /\ \E x \in Outcome(Here(MASTER), uc[MASTER], opt),
        y \in Outcome(Here(MASTER), uc[APPRENTICE], opt) :
       /\ uc' = Pair(Stepped(x), Stepped(y))
       /\ strict' = (\/ strict
                     \/ Insisted(Here(MASTER), uc[MASTER], x, opt)
                     \/ Here(MASTER).op = "mtlr" /\ base[MASTER] # base[APPRENTICE])
  /\ at' = [s \in Side |-> at[s] + 1]
  /\ UNCHANGED <<given, code, pc, frame, st, ri, signal_count, named, honest, erred,
                 raised>>

\* The last instruction before a checkpoint goes wrong on the apprentice.
ExecutesWrongly ==
  /\ arch = "ppc64" /\ st = "run"
  /\ at[MASTER] \in DOMAIN code /\ Here(MASTER).op \in Ordinary
  /\ code[at[MASTER] + 1].op = "compare"
  /\ LET f == Target(Here(MASTER)) IN
     \E x \in Outcome(Here(MASTER), uc[MASTER], opt),
        y \in Outcome(Here(MASTER), uc[APPRENTICE], opt) :
       \E z \in Wrong(f, y[f], opt) :
         /\ uc' = Pair(Stepped(x), Stepped([y EXCEPT ![f] = z]))
         /\ erred' = (erred \/ Seen(f, x[f], z, opt, signal_count + 1,
                                    InsnAt(code, at[MASTER] - 1)))
  /\ honest' = FALSE
  /\ at' = [s \in Side |-> at[s] + 1]
  /\ UNCHANGED <<given, code, pc, frame, st, ri, signal_count, named, strict, raised>>

Signal ==
  /\ arch = "ppc64" /\ st = "run"
  /\ at[MASTER] \in DOMAIN code /\ Here(MASTER).op \in Traps
  /\ st' = "trap"
  /\ UNCHANGED <<given, place, uc, frame, ri, signal_count, named, history>>

----------------------------------------------------------------------------
\* A checkpoint.

reginfo_init(s) ==
  LET u == uc[s]
      f == frame[s]
      off == pc[s] - base[s]
      in == Here(s)
  IN CASE arch = "ppc64" -> reginfo_init_ppc64(u, insns(code, at[s]))
       [] arch = "arm" -> reginfo_init_arm(u, f, off, in, opt)
       [] arch = "aarch64" -> reginfo_init_aarch64(u, f, off, in, opt)
       [] arch = "i386" -> reginfo_init_i386(u, f, off, in, opt)
       [] arch = "loongarch64" -> reginfo_init_loongarch64(u, f, off, in, opt)
       [] arch = "m68k" -> reginfo_init_m68k(u, f, off, in, opt)
       [] arch = "s390x" -> reginfo_init_s390x(u, f, off, in, opt)

\* memcmp where the architecture has no comparison of its own.
reginfo_is_eq(m, a) ==
  CASE arch = "ppc64" -> reginfo_is_eq_ppc64(m, a, opt, signal_count + 1)
    [] arch = "m68k" -> reginfo_is_eq_m68k(m, a)
    [] arch = "s390x" -> reginfo_is_eq_s390x(m, a)
    [] OTHER -> m = a

\* The registers of the contexts behind reginfo_init.
Cleared ==
  [s \in Side |-> IF arch = "arm" THEN clear_exceptions(uc[s], frame[s]) ELSE uc[s]]

\* What the apprentice goes on with; only ppc64 replaces any register.
reginfo_update(s, m) ==
  IF arch # "ppc64" THEN Cleared[s]
  ELSE IF s = APPRENTICE /\ Here(s).op = "compare"
    THEN Stepped(reginfo_update_ppc64(uc[s], m, opt))
  ELSE Stepped(uc[s])

reginfo_dump_mismatch(m, a) ==
  CASE arch = "ppc64" -> dump_mismatch_ppc64(m, a, opt)
    [] arch = "arm" -> dump_mismatch_arm(m, a)
    [] arch = "aarch64" -> dump_mismatch_aarch64(m, a)
    [] arch = "i386" -> dump_mismatch_i386(m, a)
    [] arch = "loongarch64" -> dump_mismatch_loongarch64(m, a)
    [] arch = "m68k" -> dump_mismatch_m68k(m, a)
    [] arch = "s390x" -> dump_mismatch_s390x(m, a)

advance_pc(s) ==
  LET p == kernel_pc(arch, pc[s], Here(s)) IN
  CASE arch = "arm" -> advance_pc_arm(p, Here(s))
    [] arch = "i386" -> advance_pc_i386(p)
    [] arch = "s390x" -> advance_pc_s390x(p)
    [] arch = "aarch64" -> advance_pc_aarch64(p)
    [] arch = "loongarch64" -> advance_pc_loongarch64(p)
    [] arch = "m68k" -> advance_pc_m68k(p)

\* The instruction at an address, 0 if none starts there.
IndexAt(off) ==
  IF \E k \in DOMAIN code : Start(k) = off
  THEN CHOOSE k \in DOMAIN code : Start(k) = off ELSE 0

Mismatch(m, a) ==
  /\ ~reginfo_is_eq(m, a)
  /\ LET b == IF arch = "ppc64" THEN Copied(m, a, opt, signal_count + 1) ELSE a IN
     /\ ri' = Pair(m, b)
     /\ named' = reginfo_dump_mismatch(m, b)
  /\ st' = "mismatch"
  /\ uc' = Cleared
  /\ UNCHANGED <<at, pc>>

OpMismatch(m, a) ==
  /\ reginfo_is_eq(m, a)
  /\ Here(MASTER).op # Here(APPRENTICE).op
  /\ ri' = Pair(m, a)
  /\ st' = "mismatch"
  /\ named' = {"op"}
  /\ uc' = Cleared
  /\ UNCHANGED <<at, pc>>

TestEnd(m, a) ==
  /\ reginfo_is_eq(m, a)
  /\ Here(MASTER).op = "testend" /\ Here(APPRENTICE).op = "testend"
  /\ ri' = Pair(m, a)
  /\ st' = "end"
  /\ uc' = Cleared
  /\ UNCHANGED <<at, pc, named>>

Resume(m, a) ==
  /\ reginfo_is_eq(m, a)
  /\ Here(MASTER).op = Here(APPRENTICE).op /\ Here(MASTER).op # "testend"
  /\ ri' = Pair(m, a)
  /\ uc' = [s \in Side |-> reginfo_update(s, m)]
  /\ IF arch = "ppc64"
     THEN at' = [s \in Side |-> at[s] + 1] /\ UNCHANGED pc
     ELSE /\ pc' = [s \in Side |-> advance_pc(s)]
          /\ at' = [s \in Side |-> IndexAt(advance_pc(s) - base[s])]
  /\ st' = "run"
  /\ UNCHANGED named

Checkpoint ==
  /\ st = "trap"
  /\ \E m \in {reginfo_init(MASTER)}, a \in {reginfo_init(APPRENTICE)} :
       Mismatch(m, a) \/ OpMismatch(m, a) \/ TestEnd(m, a) \/ Resume(m, a)
  /\ signal_count' = signal_count + 1
  /\ raised' = 0
  /\ UNCHANGED <<given, code, frame, honest, erred, strict>>

Next == Run \/ NextBlock \/ Executes \/ ExecutesWrongly \/ Signal \/ Checkpoint
Spec == Init /\ [][Next]_vars

----------------------------------------------------------------------------
\* Properties

Differ(f) == Differs(uc[MASTER], uc[APPRENTICE], f)

\* reginfo_init takes words behind an FPU or LSX record for registers, and they
\* are not the same on the two sides.
OverRead ==
  /\ arch = "loongarch64"
  /\ frame[MASTER].behind # frame[APPRENTICE].behind
  /\ LET c == parse_extcontext(frame[MASTER].records) IN c # {} /\ "lasx" \notin c

\* Implementations that differ only where the architecture leaves a result
\* open, or where the image's address shows, are not reported: the first
\* checkpoint behind such an instruction lets the difference pass and the
\* master's registers replace it before another instruction can spread it.
\* The exceptions are those the code insists on.  A div whose quotient does not
\* fit, judged by the MQ it has left, where it would fit; MQ and CR0 after a
\* divs or divs. without a result; mtlr, with the image at two addresses; and on
\* loongarch64 what lies behind the context.
NoFalseAlarm == honest /\ ~strict /\ ~OverRead => st # "mismatch"

\* An error in a register that the contexts of both sides hold does not get past
\* the next checkpoint, unless it is one of the registers that Missed lists: for
\* those the README's "Register values are cross-checked after every
\* instruction" does not hold.
NothingEscapes ==
  erred => st \in {"trap", "mismatch"} \/ (arch = "ppc64" /\ at[MASTER] = Len(code))

\* After an accepted OP_COMPARE on ppc64 the two sides go on with the same
\* registers, but for those no mask lets the comparison see, and with link
\* registers as far from the program counter as before.
Healed ==
  arch = "ppc64" /\ st = "run" /\ signal_count > 0 /\ at[MASTER] > Len(code) =>
    \A f \in Range(Fields) :
      Differ(f) => f \in Range(Gpr) \ opt.gregs_mask \/ (f = "vrregs" /\ ~opt.vrregs_mask)

\* A mismatch is explained: reginfo_dump_mismatch names a register, and only
\* registers that differ after what the comparison has copied.  The one
\* exception is the fault address of aarch64, which is compared and never
\* printed.
MismatchNamed ==
  st = "mismatch" /\ named # {"op"} =>
    LET m == ri[MASTER]
        a == ri[APPRENTICE]
        d == {f \in DOMAIN m \ {"insns", "NIP"} :
                IF f = "LNK" THEN Differs(m, a, f) ELSE m[f] # a[f]}
    IN named \subseteq d /\ (named = {} => d = {"fault_address"})

\* Execution goes on at the instruction behind the one that trapped,
\* whatever its length and wherever the kernel leaves the program counter.
Resumes ==
  [][arch # "ppc64" /\ st = "trap" /\ st' = "run" =>
       \A s \in Side : at'[s] = at[s] + 1]_vars

\* With --test-fp-exc, the exception flags compared on arm are those raised
\* since the last checkpoint: an exception that comes again is seen again.
ExceptionsAreNew ==
  [][arch = "arm" /\ opt = "test-fp-exc" /\ st = "trap" /\ has_vfp(frame[MASTER]) =>
       ri'[MASTER].exc = raised]_vars
=============================================================================
