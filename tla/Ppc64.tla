-------------------------------- MODULE Ppc64 --------------------------------
(***************************************************************************)
(* The comparison of the integer, condition, link and status registers of  *)
(* the ppc and ppc64 builds (risu_reginfo_ppc64.c): what reginfo_is_eq     *)
(* tolerates after which instruction, what it copies from the master's     *)
(* reginfo into the apprentice's while it goes on, and what reginfo_update *)
(* writes into the apprentice's context.  The tolerances for floating      *)
(* point results are in FpTolerance; here fpregs is compared as a whole.   *)
(***************************************************************************)
EXTENDS Integers, Sequences, FiniteSets, Functions

CONSTANTS
  Gpr,        \* the names of the general registers, r0 first
  Bytes,      \* bytes in a word, four in the code
  ByteBits    \* bits in a byte

Width == Bytes * ByteBits
Words == 2 ^ Width
Word == 0 .. Words - 1
gpr(i) == Gpr[i + 1]

\* A byte has bits.  The rest is a matter of powers of two, which the provers
\* do not know: a word is a whole number of parts of k bytes.
ASSUME WordsAssumption ==
  /\ Bytes \in Nat \ {0} /\ ByteBits \in Nat \ {0}
  /\ Words \in Nat \ {0, 1}
  /\ \A k \in 1 .. Bytes :
       2 ^ (ByteBits * k) \in Nat \ {0} /\ Words % (2 ^ (ByteBits * k)) = 0

\* A condition register, like FPSCR, is the set of the bits <<field, bit>>
\* that are one.  XER has flags and the byte count of string instructions.
\* insns is the window of instructions around the trap.
Fields == Gpr \o <<"XER", "LNK", "CTR", "CCR", "MQ", "fpscr", "fpregs", "vrregs">>

Special == {"XER", "LNK", "CTR", "CCR", "MQ", "fpscr", "fpregs", "vrregs"}

\* The names are different.
ASSUME GprAssumption ==
  /\ Gpr \in Seq(Range(Gpr)) /\ Len(Gpr) > 0
  /\ \A i, j \in DOMAIN Gpr : Gpr[i] = Gpr[j] => i = j
  /\ Range(Gpr) \cap (Special \cup {"NIP", "insns"}) = {}

----------------------------------------------------------------------------
\* Division by the POWER instructions div and divs

Signed(x) == IF x >= Words \div 2 THEN x - Words ELSE x

\* Division of C, towards zero.
Quotient(n, d) ==
  LET q == (IF n < 0 THEN -n ELSE n) \div (IF d < 0 THEN -d ELSE d)
  IN IF (n < 0) = (d < 0) THEN q ELSE -q

\* (((q) >> 31) + 1) & ~1 is zero
Fits(q) == q \in -(Words \div 2) .. Words \div 2 - 1

Overwritten(in) == in.ra = in.rt \/ in.rb = in.rt

\* MQ is read after the instruction, when it holds the remainder.
div_undefined(in, m) ==
  \/ Overwritten(in)
  \/ m[gpr(in.rb)] = 0
  \/ ~Fits(Quotient(Signed(m[gpr(in.ra)]) * Words + m.MQ, Signed(m[gpr(in.rb)])))

divs_undefined(in, m) ==
  \/ Overwritten(in)
  \/ m[gpr(in.rb)] = 0
  \/ ~Fits(Quotient(Signed(m[gpr(in.ra)]), Signed(m[gpr(in.rb)])))

----------------------------------------------------------------------------
\* Which difference is tolerated.  in is the previous instruction, second
\* the one before, n the signal count and o the masks and options.

\* The register an addi or subf behind an illegal instruction sets anew.
local_gregs_mask(a, o) ==
  IF a.insns.faulting.op = "illegal" /\ a.insns.next.op \in {"addi", "subf"}
  THEN o.gregs_mask \ {gpr(a.insns.next.rt)} ELSE o.gregs_mask

\* The last register lscbx has loaded, and its bytes behind the last one.
lscbx_rest(second, m, a, f) ==
  LET rest == m.XER.count % Bytes IN
  /\ second.op = "lscbx"
  /\ rest # 0
  /\ f = gpr((second.rt + (m.XER.count - 1) \div Bytes) % Len(Gpr))
  /\ LET low == 2 ^ (ByteBits * (Bytes - rest))
     IN m[f] \div low = a[f] \div low

gregs_tolerated(m, a, f) ==
  LET in == m.insns.prev IN
  \/ /\ in.op = "mflr" /\ f = gpr(in.rt)
     /\ (m[f] - m.NIP) % Words = (a[f] - a.NIP) % Words
  \/ in.op = "div" /\ f = gpr(in.rt) /\ div_undefined(in, m)
  \/ in.op = "divs" /\ f = gpr(in.rt) /\ divs_undefined(in, m)
  \/ lscbx_rest(m.insns.second_prev, m, a, f)

XerUnder(x, mask) == <<x.bits \cap mask, IF "count" \in mask THEN x.count ELSE 0>>

Field(bits, f) == {b \in bits : b[1] = f}
Moved(bits, from, to) == {<<to, b[2]>> : b \in Field(bits, from)}

\* The mutant that forgets that the mask of cr1 is about the first field.
CcrMask_NoCopy(m, o) == o.ccr_mask

\* fcmpo and fcmpu put into crf what other instructions put into cr1, mcrfs
\* a field of FPSCR; an undefined div. leaves only the copy of SO.
CcrMask(m, o) ==
  LET in == m.insns.prev IN
  IF in.op = "fcmp"
  THEN ((o.ccr_mask \ Field(o.ccr_mask, in.rt)) \cup Moved(o.ccr_mask, 1, in.rt))
         \cap o.ccr_mask
  ELSE IF in.op = "mcrfs"
  THEN ((o.ccr_mask \ Field(o.ccr_mask, in.rt)) \cup Moved(o.fpscr_mask, in.ra, in.rt))
         \cap o.ccr_mask
  ELSE IF in.op = "div" /\ in.dot /\ div_undefined(in, m)
  THEN o.ccr_mask \ {<<0, 0>>, <<0, 1>>, <<0, 2>>}
  ELSE o.ccr_mask

mq_tolerated(m, o, n) ==
  LET in == m.insns.prev IN
  \/ ~o.mq_mask
  \/ in.op = "div" /\ div_undefined(in, m)
  \/ o.use_601 /\ in.op = "mul"
  \/ n <= 1

vrregs_tolerated(o) == ~o.vrregs_mask

Differs(m, a, f) ==
  IF f = "LNK" THEN (m.LNK - m.NIP) % Words # (a.LNK - a.NIP) % Words
               ELSE m[f] # a[f]

Ignored(m, a, f, o) == f \in Range(Gpr) \ local_gregs_mask(a, o)

Tolerated(m, a, f, o, n) ==
  CASE f \in Range(Gpr) -> gregs_tolerated(m, a, f)
    [] f = "XER" -> XerUnder(m.XER, o.xer_mask) = XerUnder(a.XER, o.xer_mask)
    [] f = "CCR" -> m.CCR \cap CcrMask(m, o) = a.CCR \cap CcrMask(m, o)
    [] f = "MQ" -> mq_tolerated(m, o, n)
    [] f = "fpscr" -> m.fpscr \cap o.fpscr_mask = a.fpscr \cap o.fpscr_mask
    [] f = "vrregs" -> vrregs_tolerated(o)
    [] OTHER -> FALSE

\* The places, in the order of the comparison, where it gives up.
Fails(m, a, o, n) ==
  {i \in DOMAIN Fields : /\ Differs(m, a, Fields[i])
                         /\ ~Ignored(m, a, Fields[i], o)
                         /\ ~Tolerated(m, a, Fields[i], o, n)}
reginfo_is_eq_ppc64(m, a, o, n) == Fails(m, a, o, n) = {}

\* The apprentice's reginfo when the comparison is over: what was tolerated
\* before it gave up has been copied.
Copied(m, a, o, n) ==
  LET bad == Fails(m, a, o, n)
      passed == {Fields[i] : i \in {j \in DOMAIN Fields : \A k \in bad : j < k}}
  IN [f \in DOMAIN a |->
        IF f \in passed /\ f # "LNK" /\ ~Ignored(m, a, f, o) THEN m[f] ELSE a[f]]

\* The mutant of reginfo_update that leaves MQ, which older CPUs have not.
reginfo_update_ppc64_NotMQ(u, m, o) ==
  [f \in DOMAIN u |->
     IF f \in o.gregs_mask \cup {"CCR", "XER", "fpregs", "fpscr"} THEN m[f] ELSE u[f]]

reginfo_update_ppc64(u, m, o) ==
  [f \in DOMAIN u |->
     IF f \in o.gregs_mask \cup {"CCR", "XER", "MQ", "fpregs", "fpscr"}
     THEN m[f] ELSE u[f]]

dump_mismatch_ppc64(m, a, o) ==
  {f \in Range(Fields) : Differs(m, a, f) /\ (f \in Range(Gpr) => f \in o.gregs_mask)}
=============================================================================
