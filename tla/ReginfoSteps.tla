---------------------------- MODULE ReginfoSteps ----------------------------
(***************************************************************************)
(* The inductive invariant of module Reginfo, for every image, set of      *)
(* register values, context layout and number of blocks the assumptions of *)
(* that module allow, and what keeps it.  The invariant has a part for     *)
(* ppc64, where it says which registers may differ between which           *)
(* instructions of a block, and one for the other architectures.  First    *)
(* what one instruction of a block of ppc64 does, then the steps of the    *)
(* other architectures.                                                    *)
(***************************************************************************)
EXTENDS Reginfo, ReginfoLemmas

\* The blocks: what is captured and compared, and what is expected, as
\* functions of the image, the place and the registers.

FailOf(c, k, u, v, o, n) == Fails(Cap(u, insns(c, k)), Cap(v, insns(c, k)), o, n + 1)

FpscrClean(u, v, o) ==
  CleanBetween(u, v, {"fpscr"}, o) /\ u.fpscr \cap o.fpscr_mask = v.fpscr \cap o.fpscr_mask

ExpectedOf(c, k, u, v, o, n) ==
  /\ k \in DOMAIN c /\ c[k].op \in Traps => FailOf(c, k, u, v, o, n) = {}
  /\ k = 1 => CleanBetween(u, v, IF n = 0 THEN {"MQ"} ELSE {}, o)
  /\ c[1].op = "lscbx" /\ k = 2 => LoadedClean(c[1], u, v, o)
  /\ c[1].op = "fadd" /\ k = 2 => FpscrClean(u, v, o)
  /\ c[1].op = "la" /\ k \in {2, 3} => CleanBetween(u, v, {gpr(c[1].rt)}, o)

\* The instructions of a block.
LEMMA BlockFacts ==
  ASSUME NEW c, NEW o, Block(c, o)
  PROVE  /\ DOMAIN c = 1 .. Len(c) /\ Len(c) \in 2 .. 4
         /\ \A k \in 1 .. Len(c) - 1 : Operands(c[k])
         /\ \A k \in 1 .. Len(c) - 1 : c[k].op \in Alone \cup {"la", "lscbx", "illegal"}
         /\ c[1].op # "illegal"
         /\ \A k \in 1 .. Len(c) :
              /\ c[k].op = "compare" <=> k = Len(c)
              /\ c[k].op = "illegal" => /\ k = 2 /\ Len(c) = 4 /\ c[1].op = "la"
                                        /\ c[3].op = "addi" /\ c[3].rt = c[1].rt
         /\ c[1].op = "lscbx" => Len(c) = 3
         /\ c[1].op = "la" => Len(c) = 4
         /\ c[1].op = "fadd" => Len(c) \in {2, 3}
<1>1. /\ DOMAIN c = 1 .. Len(c) /\ Len(c) \in 2 .. 4
      /\ c[Len(c)].op = "compare"
      /\ \A k \in 1 .. Len(c) - 1 : Operands(c[k])
      /\ \/ Len(c) = 2 /\ c[1].op \in Alone
         \/ Len(c) = 3 /\ c[1].op = "lscbx" /\ c[2].op = "li"
         \/ Len(c) = 3 /\ c[1].op = "fadd" /\ c[2].op = "mcrfs"
         \/ Len(c) = 4 /\ c[1].op = "la" /\ c[2].op = "illegal" /\ c[3].op = "addi"
              /\ c[3].rt = c[1].rt
  BY Zenon DEF Block
<1>2. CASE Len(c) = 2 /\ c[1].op \in Alone
  <2>1. 1 .. Len(c) = {1, 2} /\ 1 .. Len(c) - 1 = {1}
    BY <1>2
  <2> QED  BY Zenon, <1>1, <1>2, <2>1 DEF Alone
<1>3. CASE Len(c) = 3 /\ c[1].op = "lscbx" /\ c[2].op = "li"
  <2>1. 1 .. Len(c) = {1, 2, 3} /\ 1 .. Len(c) - 1 = {1, 2}
    BY <1>3
  <2> QED  BY Zenon, <1>1, <1>3, <2>1 DEF Alone
<1>4. CASE Len(c) = 3 /\ c[1].op = "fadd" /\ c[2].op = "mcrfs"
  <2>1. 1 .. Len(c) = {1, 2, 3} /\ 1 .. Len(c) - 1 = {1, 2}
    BY <1>4
  <2> QED  BY Zenon, <1>1, <1>4, <2>1 DEF Alone
<1>5. CASE Len(c) = 4 /\ c[1].op = "la" /\ c[2].op = "illegal" /\ c[3].op = "addi"
             /\ c[3].rt = c[1].rt
  <2>1. 1 .. Len(c) = {1, 2, 3, 4} /\ 1 .. Len(c) - 1 = {1, 2, 3}
    BY <1>5
  <2> QED  BY Zenon, <1>1, <1>5, <2>1 DEF Alone
<1> QED  BY <1>1, <1>2, <1>3, <1>4, <1>5, Zenon

LEMMA WinFacts ==
  ASSUME NEW c, DOMAIN c = 1 .. Len(c), Len(c) \in 2 .. 4, NEW k \in 1 .. Len(c) - 1
  PROVE  /\ insns(c, k + 1).prev = c[k] /\ insns(c, k + 1).faulting = c[k + 1]
         /\ k >= 2 => insns(c, k + 1).second_prev = c[k - 1]
         /\ k + 2 \in 1 .. Len(c) => insns(c, k + 1).next = c[k + 2]
<1> DEFINE N == Len(c)
<1>1. DOMAIN c = 1 .. N /\ N \in 2 .. 4 /\ k \in 1 .. N - 1
  BY Zenon
<1> HIDE DEF N
<1>2. (k + 1) - 2 = k - 1 /\ (k + 1) - 1 = k /\ (k + 1) + 1 = k + 2
  BY <1>1
<1>3. k \in DOMAIN c /\ k + 1 \in DOMAIN c /\ (k >= 2 => k - 1 \in DOMAIN c)
  BY <1>1
<1>4. /\ insns(c, k + 1).prev = InsnAt(c, k) /\ insns(c, k + 1).faulting = InsnAt(c, k + 1)
      /\ insns(c, k + 1).second_prev = InsnAt(c, k - 1) /\ insns(c, k + 1).next = InsnAt(c, k + 2)
  BY Zenon, <1>2 DEF insns
<1> QED  BY Zenon, <1>1, <1>3, <1>4 DEF InsnAt, N

\* An instruction of a block leads from what is expected before it to what is
\* expected behind it.
LEMMA BlockStep ==
  ASSUME NEW c, NEW o, Block(c, o), NEW k \in 1 .. Len(c) - 1, c[k].op \notin Traps,
         NEW u, Registers(u), NEW v, Registers(v), NEW n \in Nat \ {0},
         o.ccr_mask \cup o.fpscr_mask \cup o.bits \subseteq Bit,
         ExpectedOf(c, k, u, v, o, n), c[k].op = "mtlr" => u.NIP = v.NIP,
         NEW x \in Outcome(c[k], u, o), NEW y \in Outcome(c[k], v, o), ~Insisted(c[k], u, x, o)
  PROVE  ExpectedOf(c, k + 1, Stepped(x), Stepped(y), o, n)
<1> DEFINE N == Len(c)
           w == insns(c, k + 1)
           U == Stepped(x)
           V == Stepped(y)
           Ok == Fails(Cap(U, w), Cap(V, w), o, n + 1) = {}
<1>1. /\ DOMAIN c = 1 .. N /\ N \in 2 .. 4 /\ k \in 1 .. N - 1
      /\ c[N].op = "compare"
      /\ \A j \in 1 .. N - 1 : Operands(c[j])
      /\ \/ N = 2 /\ c[1].op \in Alone
         \/ N = 3 /\ c[1].op = "lscbx" /\ c[2].op = "li"
         \/ N = 3 /\ c[1].op = "fadd" /\ c[2].op = "mcrfs"
         \/ N = 4 /\ c[1].op = "la" /\ c[2].op = "illegal" /\ c[3].op = "addi"
              /\ c[3].rt = c[1].rt
      /\ c[1].op \in {"mr", "mtlr", "div", "divs"} => gpr(c[1].ra) \in o.gregs_mask
      /\ c[1].op \in {"div", "divs"} => gpr(c[1].rb) \in o.gregs_mask
  BY Zenon DEF Block
<1>2. /\ w.prev = c[k] /\ w.faulting = c[k + 1]
      /\ k >= 2 => w.second_prev = c[k - 1]
      /\ k + 2 \in 1 .. N => w.next = c[k + 2]
  BY <1>1, WinFacts, ZenonT(30)
<1>3. /\ k = 1 => CleanBetween(u, v, {}, o)
      /\ c[1].op = "lscbx" /\ k = 2 => LoadedClean(c[1], u, v, o)
      /\ c[1].op = "fadd" /\ k = 2 => FpscrClean(u, v, o)
      /\ c[1].op = "la" /\ k \in {2, 3} => CleanBetween(u, v, {gpr(c[1].rt)}, o)
  BY Zenon DEF ExpectedOf
<1>4. Operands(c[k]) /\ k \in Nat /\ N \in Nat
  BY <1>1
<1>5. FailOf(c, k + 1, U, V, o, n) = Fails(Cap(U, w), Cap(V, w), o, n + 1)
  BY Zenon DEF FailOf
<1>6. k + 1 # 1 /\ n # 0
  BY <1>4
<1>7. o.ccr_mask \subseteq Bit /\ o.fpscr_mask \subseteq Bit /\ o.bits \subseteq Bit
  BY Zenon
<1>8. c[k].op # "compare" /\ c[k].op # "illegal"
  BY Zenon DEF Traps
<1>9. Registers(x) /\ Registers(y) /\ Registers(U) /\ Registers(V)
  <2>1. c[k].op \in Alone \cup {"la", "lscbx"}
    BY Zenon, <1>8, BlockFacts
  <2>2. Registers(x) /\ Registers(y)
    BY Zenon, <1>4, <1>7, <2>1, OutcomeTyped
  <2> QED  BY Zenon, <2>2, SteppedFacts
<1> HIDE DEF w, U, V
<1>10. CASE N = 2 /\ c[1].op \in Alone
  <2>1. k = 1 /\ k + 1 = 2
    BY <1>1, <1>10
  <2>2. CleanBetween(u, v, {}, o)
    BY Zenon, <1>3, <2>1
  <2>3. Ok
    <3>1. w.prev = c[1] /\ Operands(c[1]) /\ x \in Outcome(c[1], u, o) /\ y \in Outcome(c[1], v, o)
          /\ (c[1].op = "mtlr" => u.NIP = v.NIP) /\ ~Insisted(c[1], u, x, o)
      BY Zenon, <1>2, <1>4, <2>1
    <3> HIDE DEF N
    <3> QED  BY <1>1, <1>10, <2>2, <3>1, AloneAccepted, ZenonT(30) DEF U, V
  <2>4. c[1].op = "fadd" => FpscrClean(U, V, o)
    BY <1>4, <1>7, <2>1, <2>2, AddsPair DEF U, V, FpscrClean
  <2>5. c[1].op # "lscbx" /\ c[1].op # "la"
    BY Zenon, <1>10 DEF Alone
  <2> QED  BY <1>5, <1>6, <2>1, <2>3, <2>4, <2>5, Zenon DEF ExpectedOf, U, V
<1>11. CASE N = 3 /\ c[1].op = "lscbx" /\ c[2].op = "li"
  <2>1. CASE k = 1
    <3>1. k + 1 = 2 /\ c[2].op \notin Traps
      BY <1>11, <2>1 DEF Traps
    <3>2. CleanBetween(u, v, {}, o)
      BY Zenon, <1>3, <2>1
    <3>3. LoadedClean(c[1], U, V, o)
      <4>1. x \in Outcome(c[1], u, o) /\ y \in Outcome(c[1], v, o) /\ Operands(c[1])
        BY Zenon, <1>4, <2>1
      <4> QED  BY Zenon, <1>11, <3>2, <4>1, LoadsPair DEF U, V
    <3> QED  BY Zenon, <1>6, <1>11, <3>1, <3>3 DEF ExpectedOf, U, V
  <2>2. CASE k = 2
    <3>1. k + 1 = 3 /\ k - 1 = 1 /\ k >= 2
      BY <2>2
    <3>2. LoadedClean(c[1], u, v, o) /\ w.second_prev = c[1]
      BY Zenon, <1>2, <1>3, <1>11, <2>2, <3>1
    <3>3. Operands(c[1]) /\ Operands(c[2]) /\ x \in Outcome(c[2], u, o) /\ y \in Outcome(c[2], v, o)
      BY <1>1, <1>4, <1>11, <2>2
    <3>4. Ok
      <4> DEFINE in == c[1]
                 li == c[2]
      <4>1. /\ Operands(in) /\ in.op = "lscbx" /\ Operands(li) /\ li.op = "li"
            /\ x \in Outcome(li, u, o) /\ y \in Outcome(li, v, o) /\ w.second_prev = in
        BY Zenon, <1>11, <3>2, <3>3
      <4>2. /\ u.XER.count = in.n
            /\ CleanBetween(u, v, IF in.n % Bytes = 0 THEN {} ELSE {LastLoaded(in)}, o)
            /\ in.n % Bytes # 0 =>
                 u[LastLoaded(in)] \div Low(in.n) = v[LastLoaded(in)] \div Low(in.n)
        BY Zenon, <3>2 DEF LoadedClean
      <4> HIDE DEF in, li
      <4>3. Fails(Cap(Stepped(x), w), Cap(Stepped(y), w), o, n + 1) = {}
        BY <4>1, <4>2, LoadThenLi, ZenonT(30)
      <4> QED  BY Zenon, <4>3 DEF U, V
    <3> QED  BY <1>5, <1>11, <3>1, <3>4 DEF ExpectedOf, U, V
  <2> QED  BY <1>1, <1>11, <2>1, <2>2
<1>12. CASE N = 3 /\ c[1].op = "fadd" /\ c[2].op = "mcrfs"
  <2>1. CASE k = 1
    <3>1. k + 1 = 2 /\ c[2].op \notin Traps
      BY <1>12, <2>1 DEF Traps
    <3>2. CleanBetween(u, v, {}, o)
      BY Zenon, <1>3, <2>1
    <3>3. FpscrClean(U, V, o)
      BY SMTT(30), <1>4, <1>7, <1>12, <2>1, <3>2, AddsPair DEF U, V, FpscrClean
    <3> QED  BY Zenon, <1>6, <1>12, <3>1, <3>3 DEF ExpectedOf, U, V
  <2>2. CASE k = 2
    <3>1. k + 1 = 3
      BY <2>2
    <3>2. FpscrClean(u, v, o) /\ w.prev = c[2]
      BY Zenon, <1>2, <1>3, <1>12, <2>2
    <3>3. x \in Outcome(c[2], u, o) /\ y \in Outcome(c[2], v, o)
      BY Zenon, <2>2
    <3>4. Ok
      BY <1>7, <1>12, <3>2, <3>3, MovesAccepted, ZenonT(30) DEF U, V, FpscrClean
    <3> QED  BY <1>5, <1>12, <3>1, <3>4 DEF ExpectedOf, U, V
  <2> QED  BY <1>1, <1>12, <2>1, <2>2
<1>13. CASE N = 4 /\ c[1].op = "la" /\ c[2].op = "illegal" /\ c[3].op = "addi"
              /\ c[3].rt = c[1].rt
  <2>1. CASE k = 1
    <3>1. k + 1 = 2 /\ k + 2 = 3 /\ k + 2 \in 1 .. N
      BY <1>13, <2>1
    <3>2. CleanBetween(u, v, {}, o)
      BY Zenon, <1>3, <2>1
    <3>3. CleanBetween(U, V, {gpr(c[1].rt)}, o)
      BY Zenon, <1>4, <1>13, <2>1, <3>2, AddressPair DEF U, V
    <3>4. w.faulting = c[2] /\ w.next = c[3] /\ w.next.rt = c[1].rt
      BY Zenon, <1>2, <1>13, <3>1
    <3>5. c[1].rt \in Reg
      BY Zenon, <1>4, <1>13, <2>1 DEF Operands
    <3>6. Ok
      BY Zenon, <1>9, <1>13, <3>3, <3>4, <3>5, IllegalAccepted
    <3> QED  BY <1>5, <1>6, <1>13, <3>1, <3>3, <3>6, Zenon DEF ExpectedOf, U, V
  <2>2. CASE k = 3
    <3>1. k + 1 = 4
      BY <2>2
    <3>2. CleanBetween(u, v, {gpr(c[3].rt)}, o)
      BY Zenon, <1>3, <1>13, <2>2
    <3>3. CleanBetween(U, V, {}, o)
      BY Zenon, <1>4, <1>13, <2>2, <3>2, AddressReplaced DEF U, V
    <3>4. Ok
      <4>1. n + 1 \in Nat
        OBVIOUS
      <4> QED  BY Zenon, <1>9, <3>3, <4>1, CleanAccepted
    <3> QED  BY <1>5, <1>13, <3>1, <3>4 DEF ExpectedOf, U, V
  <2>3. k # 2
    BY Zenon, <1>8, <1>13
  <2> QED  BY <1>1, <1>13, <2>1, <2>2, <2>3
<1> HIDE DEF N
<1> QED  BY Zenon, <1>1, <1>10, <1>11, <1>12, <1>13

\* What the comparison has to find, register by register.
LEMMA SeenCases ==
  ASSUME NEW f \in Range(Fields), NEW x, NEW y, NEW n, NEW q, NEW o, Seen(f, x, y, o, n, q)
  PROVE  /\ f = "XER" => XerUnder(x, o.xer_mask) # XerUnder(y, o.xer_mask)
         /\ f = "CCR" => x \cap o.ccr_mask # y \cap o.ccr_mask
         /\ f = "fpscr" => x \cap o.fpscr_mask # y \cap o.fpscr_mask
         /\ f = "MQ" => o.mq_mask /\ n > 1 /\ x # y
         /\ f = "vrregs" => o.vrregs_mask /\ x # y
         /\ f \in Range(Gpr) => f \in o.gregs_mask /\ q.op # "lscbx" /\ x # y
         /\ f \in {"CTR", "fpregs"} => x # y
<1>1. ASSUME f = "XER"
      PROVE  XerUnder(x, o.xer_mask) # XerUnder(y, o.xer_mask)
  <2>1. f \notin Range(Gpr)
    BY Zenon, <1>1, NameFacts DEF Special
  <2> QED  BY <1>1, <2>1, Zenon DEF Seen
<1>2. ASSUME f = "CCR"
      PROVE  x \cap o.ccr_mask # y \cap o.ccr_mask
  <2>1. f \notin Range(Gpr)
    BY Zenon, <1>2, NameFacts DEF Special
  <2> QED  BY <1>2, <2>1, Zenon DEF Seen
<1>3. ASSUME f = "fpscr"
      PROVE  x \cap o.fpscr_mask # y \cap o.fpscr_mask
  <2>1. f \notin Range(Gpr)
    BY Zenon, <1>3, NameFacts DEF Special
  <2> QED  BY <1>3, <2>1, Zenon DEF Seen
<1>4. ASSUME f = "MQ"
      PROVE  o.mq_mask /\ n > 1 /\ x # y
  <2>1. f \notin Range(Gpr)
    BY Zenon, <1>4, NameFacts DEF Special
  <2> QED  BY <1>4, <2>1, Zenon DEF Seen
<1>5. ASSUME f = "vrregs"
      PROVE  o.vrregs_mask /\ x # y
  <2>1. f \notin Range(Gpr)
    BY Zenon, <1>5, NameFacts DEF Special
  <2> QED  BY <1>5, <2>1, Zenon DEF Seen
<1>6. ASSUME f \in Range(Gpr)
      PROVE  f \in o.gregs_mask /\ q.op # "lscbx" /\ x # y
  <2>1. f \notin {"XER", "CCR", "fpscr", "LNK", "MQ", "vrregs"}
    BY Zenon, <1>6, NameFacts DEF Special
  <2> QED  BY <1>6, <2>1, Zenon DEF Seen
<1>7. ASSUME f \in {"CTR", "fpregs"}
      PROVE  x # y
  <2>1. f \notin Range(Gpr) /\ f \notin {"XER", "CCR", "fpscr", "LNK", "MQ", "vrregs"}
    BY Zenon, <1>7, NameFacts DEF Special
  <2> QED  BY <2>1, Zenon DEF Seen
<1> QED  BY Zenon, <1>1, <1>2, <1>3, <1>4, <1>5, <1>6, <1>7

LEMMA WrongFits ==
  ASSUME NEW y, Registers(y), NEW f \in Range(Fields), NEW o, o.bits \subseteq Bit,
         NEW z \in Wrong(f, y[f], o)
  PROVE  Fit(f, z)
<1>1. CASE f = "XER"
  <2>1. DOMAIN y.XER = {"bits", "count"}
    BY Zenon DEF Registers
  <2>2. DOMAIN z = DOMAIN y.XER
    BY Zenon, <1>1 DEF Wrong
  <2> QED  BY Zenon, <1>1, <2>1, <2>2, NameFacts DEF Fit, Special
<1>2. CASE f = "CCR"
  BY Zenon, <1>2, NameFacts DEF Fit, Special
<1>3. CASE f = "fpscr"
  <2>1. y.fpscr \subseteq Bit
    BY Zenon DEF Registers
  <2>2. PICK b \in o.bits : z = (y.fpscr \cup {b}) \ (y.fpscr \cap {b})
    BY Zenon, <1>3 DEF Wrong
  <2>3. z \subseteq Bit
    BY Zenon, <2>1, <2>2
  <2> QED  BY Zenon, <1>3, <2>3, NameFacts DEF Fit, Special
<1>4. CASE f \notin {"XER", "CCR", "fpscr"}
  <2>1. z = (y[f] + 1) % Words
    BY Zenon, <1>4 DEF Wrong
  <2>2. f \in Range(Gpr) \cup {"MQ", "LNK"} => z \in Word
    <3> SUFFICES ASSUME f \in Range(Gpr) \cup {"MQ", "LNK"} PROVE z \in Word
      BY Zenon
    <3>1. y[f] \in Word
      BY Zenon DEF Registers
    <3>2. y[f] + 1 \in Int
      BY <3>1, WordsAssumption DEF Word
    <3> QED  BY Zenon, <2>1, <3>2, ModWord
  <2> QED  BY Zenon, <1>4, <2>2 DEF Fit
<1> QED  BY Zenon, <1>1, <1>2, <1>3, <1>4

\* A wrong result of an ordinary instruction that the comparison has to find
\* makes it fail.
LEMMA WrongFails ==
  ASSUME NEW u, Registers(u), NEW v, Registers(v), NEW in, Operands(in), in.op \in Ordinary,
         NEW o, o.bits \subseteq Bit,
         NEW x \in Outcome(in, u, o), NEW y \in Outcome(in, v, o),
         NEW z \in Wrong(Target(in), y[Target(in)], o),
         NEW w, w.prev = in, w.faulting.op = "compare", NEW n \in Nat, n > 1,
         Seen(Target(in), x[Target(in)], z, o, n, w.second_prev)
  PROVE  Fails(Cap(Stepped(x), w), Cap(Stepped(Set(y, Target(in), z)), w), o, n) # {}
<1> DEFINE f == Target(in)
           t == Set(y, f, z)
           m == Cap(Stepped(x), w)
           a == Cap(Stepped(t), w)
<1>1. /\ in.op \in Assigning /\ f = Dest(in) /\ in.op \in {"li", "addi", "mr", "mtspr", "bl"}
      /\ in.op = "bl" => f = "LNK"
  BY Zenon DEF Ordinary, Assigning, Target, Dest
<1>2. /\ f \in Range(Fields) /\ Registers(x) /\ x.NIP = u.NIP /\ x[f] = Assigned(in, u)
      /\ Registers(y) /\ y.NIP = v.NIP /\ y[f] = Assigned(in, v)
  BY <1>1, Assigns DEF AssignOutcome
<1>3. f = "LNK" => in.op = "bl"
  <2> SUFFICES ASSUME in.op # "bl" PROVE f # "LNK"
    BY Zenon
  <2>1. CASE in.op = "mtspr"
    BY Zenon, <2>1 DEF Target, Operands
  <2>2. CASE in.op \in {"li", "addi", "mr"}
    BY Zenon, <2>2, GprFacts, NameFacts DEF Target, Operands, Special
  <2> QED  BY Zenon, <1>1, <2>1, <2>2
<1> HIDE DEF f
<1>4. Fit(f, z)
  BY Zenon, <1>2, WrongFits DEF f
<1>5. Registers(t) /\ t.NIP = y.NIP /\ t[f] = z
  BY <1>2, <1>4, SetField
<1> HIDE DEF t
<1>6. m[f] = x[f] /\ m.NIP = (x.NIP + 1) % Words /\ m.insns = w
  BY <1>2, CapStepped
<1>7. a[f] = z /\ a.NIP = (t.NIP + 1) % Words /\ a.insns = w
  BY <1>2, <1>5, CapStepped
<1> HIDE DEF m, a
<1>8. Seen(f, x[f], z, o, n, w.second_prev)
  BY Zenon DEF f
<1>9. local_gregs_mask(a, o) = o.gregs_mask
  BY Zenon, <1>7 DEF local_gregs_mask
<1>10. Differs(m, a, f) /\ ~Ignored(m, a, f, o) /\ ~Tolerated(m, a, f, o, n)
  <2>1. CASE f = "XER"
    <3>1. XerUnder(m.XER, o.xer_mask) # XerUnder(a.XER, o.xer_mask)
      BY SMTT(30), <1>2, <1>6, <1>7, <1>8, <2>1, SeenCases
    <3>2. m.XER # a.XER
      BY <3>1, Zenon
    <3> QED  BY <2>1, <3>1, <3>2, ToleratedCases, NameFacts, ZenonT(30) DEF Differs, Ignored, Special
  <2>2. CASE f = "CCR"
    <3>1. m.CCR \cap o.ccr_mask # a.CCR \cap o.ccr_mask
      BY SMTT(30), <1>2, <1>6, <1>7, <1>8, <2>2, SeenCases
    <3>2. CcrMask(m, o) = o.ccr_mask
      BY <1>1, <1>6, Zenon DEF CcrMask
    <3>3. m.CCR # a.CCR
      BY <3>1, Zenon
    <3> QED  BY SMTT(30), <2>2, <3>1, <3>2, <3>3, ToleratedCases, NameFacts DEF Differs, Ignored, Special
  <2>3. CASE f = "fpscr"
    <3>1. m.fpscr \cap o.fpscr_mask # a.fpscr \cap o.fpscr_mask
      BY SMTT(30), <1>2, <1>6, <1>7, <1>8, <2>3, SeenCases
    <3>2. m.fpscr # a.fpscr
      BY <3>1, Zenon
    <3> QED  BY SMTT(30), <2>3, <3>1, <3>2, ToleratedCases, NameFacts DEF Differs, Ignored, Special
  <2>4. CASE f = "MQ"
    <3>1. o.mq_mask /\ m.MQ # a.MQ
      BY <1>2, <1>6, <1>7, <1>8, <2>4, SeenCases, ZenonT(30)
    <3>2. ~(n <= 1) /\ m.insns.prev = in /\ in.op # "div" /\ in.op # "mul"
      BY <1>1, <1>6
    <3>3. ~mq_tolerated(m, o, n)
      BY <3>1, <3>2, Zenon DEF mq_tolerated
    <3> QED  BY <2>4, <3>1, <3>3, ToleratedCases, NameFacts, Zenon DEF Differs, Ignored, Special
  <2>5. CASE f = "vrregs"
    <3>1. o.vrregs_mask /\ m.vrregs # a.vrregs
      BY <1>2, <1>6, <1>7, <1>8, <2>5, SeenCases, Zenon
    <3>2. ~vrregs_tolerated(o)
      BY <3>1, Zenon DEF vrregs_tolerated
    <3> QED  BY <2>5, <3>1, <3>2, ToleratedCases, NameFacts, Zenon DEF Differs, Ignored, Special
  <2>6. CASE f \in Range(Gpr)
    <3>1. f \in o.gregs_mask /\ w.second_prev.op # "lscbx" /\ m[f] # a[f]
      BY Zenon, <1>2, <1>6, <1>7, <1>8, <2>6, SeenCases
    <3>2. m.insns.prev = in /\ in.op \notin {"mflr", "div", "divs"}
      BY Zenon, <1>1, <1>6
    <3>3. ~lscbx_rest(m.insns.second_prev, m, a, f)
      BY <1>6, <3>1, Zenon DEF lscbx_rest
    <3>4. ~gregs_tolerated(m, a, f)
      BY <3>2, <3>3, Zenon DEF gregs_tolerated
    <3>5. f # "LNK"
      BY Zenon, <2>6, NameFacts DEF Special
    <3>6. Differs(m, a, f)
      BY Zenon, <3>1, <3>5 DEF Differs
    <3>7. ~Ignored(m, a, f, o)
      BY Zenon, <1>9, <3>1 DEF Ignored
    <3>8. ~Tolerated(m, a, f, o, n)
      BY <2>6, <3>4, ToleratedCases, Zenon
    <3> QED  BY Zenon, <3>6, <3>7, <3>8
  <2>7. CASE f = "LNK"
    <3> DEFINE W == Words
               p == (u.NIP + 1) % Words
               q == (v.NIP + 1) % Words
    <3>1. x.LNK = p /\ y.LNK = q
      BY Zenon, <1>2, <1>3, <2>7 DEF Assigned
    <3>2. u.NIP \in Int /\ v.NIP \in Int /\ W \in Nat \ {0, 1}
      BY WordsAssumption DEF Registers, Word
    <3>3. p \in 0 .. W - 1 /\ q \in 0 .. W - 1
      BY <3>2, ModWord DEF Word
    <3>4. z = (q + 1) % Words
      <4>1. z \in Wrong(f, y[f], o)
        BY Zenon DEF f
      <4> QED  BY Zenon, <2>7, <3>1, <4>1 DEF Wrong
    <3>5. m.NIP = p /\ a.NIP = q
      BY Zenon, <1>2, <1>5, <1>6, <1>7
    <3>6. (p - p) % W = 0
      <4> HIDE DEF p, W
      <4>1. p - p = 0
        BY <3>3
      <4> QED  BY <3>2, <4>1
    <3>7. (((q + 1) % W) - q) % W = 1
      <4> HIDE DEF q, W
      <4> QED  BY Zenon, <3>2, <3>3, ModSucc
    <3>8. Differs(m, a, f)
      <4>1. m.LNK = p /\ a.LNK = (q + 1) % W
        BY Zenon, <1>6, <1>7, <2>7, <3>1, <3>4
      <4>2. (m.LNK - m.NIP) % W = 0 /\ (a.LNK - a.NIP) % W = 1
        <5> HIDE DEF p, q, W
        <5> QED  BY Zenon, <3>5, <3>6, <3>7, <4>1
      <4> QED  BY <2>7, <4>2 DEF Differs
    <3> QED  BY <2>7, <3>8, ToleratedCases, NameFacts, Zenon DEF Ignored, Special
  <2>8. CASE f \in {"CTR", "fpregs"}
    <3>1. m[f] # a[f]
      BY Zenon, <1>2, <1>6, <1>7, <1>8, <2>8, SeenCases
    <3> QED  BY SMTT(30), <2>8, <3>1, ToleratedCases, NameFacts DEF Differs, Ignored, Special
  <2>9. f \in Range(Gpr) \/ f \in Special
    BY Zenon, <1>2, NameFacts
  <2> QED  BY <2>1, <2>2, <2>3, <2>4, <2>5, <2>6, <2>7, <2>8, <2>9, ZenonT(30) DEF Special
<1> QED  BY <1>2, <1>10, FailsFacts, Zenon DEF m, a, t, f


-----------------------------------------------------------------------------
(* The invariant.                                                          *)

\* The run began with one of the setups, and its image is one of the images.
Given ==
  \E u \in Setups :
    /\ arch = u.arch /\ opt = u.opt /\ base = u.base
    /\ arch # "ppc64" => code = u.code
    /\ arch = "ppc64" =>
         \/ Block(code, opt)
         \/ DOMAIN code = {1} /\ Len(code) = 1 /\ code[1].op = "compare"

Shape ==
  /\ signal_count \in Nat
  /\ st \in {"run", "trap", "mismatch", "end"}
  /\ DOMAIN uc = Side /\ frame \in [Side -> FramesOf(arch)]
  /\ honest \in BOOLEAN /\ erred \in BOOLEAN /\ strict \in BOOLEAN
  /\ honest => ~erred

\* The other architectures: the two sides are where their program counters
\* say, and an implementation that has not erred is in the master's state, but
\* for what lies behind the contexts.
Others ==
  /\ at \in [Side -> DOMAIN code]
  /\ pc = [s \in Side |-> base[s] + code[at[s]].start]
  /\ DOMAIN uc[MASTER] = DOMAIN uc[APPRENTICE]
  /\ arch = "arm" => "exc" \in DOMAIN uc[MASTER]
  /\ arch = "arm" /\ has_vfp(frame[MASTER]) => uc[MASTER].exc = raised
  /\ st = "run" /\ arch # "m68k" => at[MASTER] = at[APPRENTICE]
  /\ honest => /\ Alike(frame[MASTER], frame[APPRENTICE]) /\ uc[MASTER] = uc[APPRENTICE]
               /\ at[MASTER] = at[APPRENTICE]
  /\ erred => st \in {"trap", "mismatch"}
  /\ erred /\ st = "trap" => ~reginfo_is_eq(reginfo_init(MASTER), reginfo_init(APPRENTICE))

\* ppc64: the registers that may differ.
Failing == Fails(reginfo_init(MASTER), reginfo_init(APPRENTICE), opt, signal_count + 1)
CleanBut(S) == \A f \in Range(Fields) : Differ(f) => f \in S \/ Unseen(f, opt)

\* What holds before each instruction of a block while the apprentice is right
\* and the comparison does not insist on a result.
Expected ==
  /\ at[MASTER] \in DOMAIN code /\ Here(MASTER).op \in Traps => Failing = {}
  /\ at[MASTER] = 1 => CleanBut(IF signal_count = 0 THEN {"MQ"} ELSE {})
  /\ code[1].op = "lscbx" /\ at[MASTER] = 2 =>
       LET in == code[1]
           f == LastLoaded(in)
       IN /\ uc[MASTER].XER.count = in.n
          /\ CleanBut(IF in.n % Bytes = 0 THEN {} ELSE {f})
          /\ in.n % Bytes # 0 => uc[MASTER][f] \div Low(in.n) = uc[APPRENTICE][f] \div Low(in.n)
  /\ code[1].op = "fadd" /\ at[MASTER] = 2 =>
       /\ CleanBut({"fpscr"})
       /\ uc[MASTER].fpscr \cap opt.fpscr_mask = uc[APPRENTICE].fpscr \cap opt.fpscr_mask
  /\ code[1].op = "la" /\ at[MASTER] \in {2, 3} => CleanBut({gpr(code[1].rt)})

Blockwise ==
  /\ at \in [Side -> 1 .. Len(code) + 1] /\ at[MASTER] = at[APPRENTICE]
  /\ \A s \in Side : Registers(uc[s])
  /\ base[MASTER] = base[APPRENTICE] => uc[MASTER].NIP = uc[APPRENTICE].NIP
  /\ signal_count = 0 => Len(code) = 1 /\ (st = "run" => at[MASTER] = 1)
  /\ Len(code) = 1 /\ at[MASTER] = 1 /\ st \in {"run", "trap"} => signal_count = 0
  /\ st = "trap" => at[MASTER] \in DOMAIN code /\ Here(MASTER).op \in Traps
  /\ st = "run" /\ signal_count > 0 /\ at[MASTER] \in {1, Len(code) + 1} => CleanBut({})
  /\ st \in {"run", "trap"} /\ honest /\ ~strict => Expected
  /\ erred => st \in {"run", "trap", "mismatch"}
  /\ erred /\ st = "run" => at[MASTER] = Len(code)
  /\ erred /\ st \in {"run", "trap"} => Failing # {}

\* The inductive invariant.
RInv ==
  /\ Given /\ Shape
  /\ IF arch = "ppc64" THEN Blockwise ELSE Others
  /\ NoFalseAlarm /\ MismatchNamed

----------------------------------------------------------------------------
\* What the assumptions say of the present run.

LEMMA SetupFacts ==
  ASSUME Given
  PROVE  /\ arch \in Archs /\ base \in [Side -> Int]
         /\ arch # "ppc64" => Image_of(arch, code)
         /\ arch = "ppc64" => /\ opt.gregs_mask \subseteq Range(Gpr)
                              /\ opt.ccr_mask \cup opt.fpscr_mask \cup opt.bits \subseteq Bit
                              /\ \A i \in DOMAIN Blocks : Block(Blocks[i], opt)
<1>1. PICK u \in Setups :
        /\ arch = u.arch /\ opt = u.opt /\ base = u.base
        /\ arch # "ppc64" => code = u.code
  BY Zenon DEF Given
<1>2. /\ u.arch \in Archs /\ u.base \in [Side -> Int]
      /\ IF u.arch = "ppc64" THEN Begins_ppc64(u) ELSE Begins(u)
  BY Zenon, SetupsAssumption
<1>3. CASE arch = "ppc64"
  BY Zenon, <1>1, <1>2, <1>3 DEF Begins_ppc64
<1>4. CASE arch # "ppc64"
  BY Zenon, <1>1, <1>2, <1>4 DEF Begins
<1> QED  BY Zenon, <1>3, <1>4

----------------------------------------------------------------------------
\* The architectures other than ppc64: what is captured and compared, as
\* functions of the registers, the context and the place.

InitOf(ar, u, f, off, in, o) ==
  CASE ar = "arm" -> reginfo_init_arm(u, f, off, in, o)
    [] ar = "aarch64" -> reginfo_init_aarch64(u, f, off, in, o)
    [] ar = "i386" -> reginfo_init_i386(u, f, off, in, o)
    [] ar = "loongarch64" -> reginfo_init_loongarch64(u, f, off, in, o)
    [] ar = "m68k" -> reginfo_init_m68k(u, f, off, in, o)
    [] ar = "s390x" -> reginfo_init_s390x(u, f, off, in, o)
EqOf(ar, m, a) ==
  CASE ar = "m68k" -> reginfo_is_eq_m68k(m, a)
    [] ar = "s390x" -> reginfo_is_eq_s390x(m, a)
    [] OTHER -> m = a
OtherArchs == Archs \ {"ppc64"}

\* What is captured, architecture by architecture.
LEMMA InitOfCases ==
  ASSUME NEW u, NEW f, NEW off, NEW in, NEW o
  PROVE  /\ InitOf("arm", u, f, off, in, o) = reginfo_init_arm(u, f, off, in, o)
         /\ InitOf("aarch64", u, f, off, in, o) = reginfo_init_aarch64(u, f, off, in, o)
         /\ InitOf("i386", u, f, off, in, o) = reginfo_init_i386(u, f, off, in, o)
         /\ InitOf("loongarch64", u, f, off, in, o) = reginfo_init_loongarch64(u, f, off, in, o)
         /\ InitOf("m68k", u, f, off, in, o) = reginfo_init_m68k(u, f, off, in, o)
         /\ InitOf("s390x", u, f, off, in, o) = reginfo_init_s390x(u, f, off, in, o)
  BY Zenon DEF InitOf

\* How it is compared, architecture by architecture.
LEMMA EqOfCases ==
  ASSUME NEW m, NEW a
  PROVE  /\ \A ar \in {"arm", "aarch64", "i386", "loongarch64"} : EqOf(ar, m, a) <=> m = a
         /\ EqOf("m68k", m, a) <=> reginfo_is_eq_m68k(m, a)
         /\ EqOf("s390x", m, a) <=> reginfo_is_eq_s390x(m, a)
<1>1. EqOf("m68k", m, a) = reginfo_is_eq_m68k(m, a)
  BY Zenon DEF EqOf
<1>2. EqOf("s390x", m, a) = reginfo_is_eq_s390x(m, a)
  BY Zenon DEF EqOf
<1>3. /\ EqOf("arm", m, a) = (m = a) /\ EqOf("aarch64", m, a) = (m = a)
      /\ EqOf("i386", m, a) = (m = a) /\ EqOf("loongarch64", m, a) = (m = a)
  BY Zenon DEF EqOf
<1> QED  BY <1>1, <1>2, <1>3, Zenon

\* A difference in a register of Compared is found.
LEMMA WrongSeen ==
  ASSUME arch \in OtherArchs,
         NEW u, NEW v, NEW f \in FramesOf(arch), NEW g \in FramesOf(arch),
         NEW off, NEW pff, NEW in, NEW jn, NEW t, t \in Compared(f), t \in Compared(g), u[t] # v[t]
  PROVE  ~EqOf(arch, InitOf(arch, u, f, off, in, opt), InitOf(arch, v, g, pff, jn, opt))
<1> DEFINE m == InitOf(arch, u, f, off, in, opt)
           a == InitOf(arch, v, g, pff, jn, opt)
<1>1. CASE arch = "arm"
  <2>1. m = reginfo_init_arm(u, f, off, in, opt) /\ a = reginfo_init_arm(v, g, pff, jn, opt)
    BY <1>1, InitOfCases
  <2>2. \A h : Compared(h) = {"gpr", "flags"} \cup
         (IF ~has_vfp(h) THEN {} ELSE {"fp", "fpscr"} \cup
          IF opt = "test-fp-exc" THEN {"exc"} ELSE {})
    BY <1>1, Zenon DEF Compared, Saved, Missed
  <2>3. m # a
    <3> HIDE DEF m, a
    <3> QED BY Zenon, <2>1, <2>2 DEF reginfo_init_arm
  <2> QED  BY <2>3, <1>1, EqOfCases
<1>2. CASE arch = "aarch64"
  <2>1. m = reginfo_init_aarch64(u, f, off, in, opt) /\ a = reginfo_init_aarch64(v, g, pff, jn, opt)
    BY <1>2, InitOfCases
  <2>2. ASSUME NEW h
        PROVE  t \in Compared(h) =>
                 \/ t \in {"gpr", "flags", "fault"}
                 \/ "fpsimd" \in records(h) /\
                    \/ t \in {"fpsr", "fpcr"}
                    \/ (opt # "test-sve" \/ "sve_unused" \in records(h)) /\ t = "v"
                    \/ opt = "test-sve" /\ "sve" \in records(h)
                       /\ "sve_unused" \notin records(h) /\ t \in {"v", "z"}
    <3>1. Saved(h) = {"gpr", "flags", "fault"} \cup
            (IF "fpsimd" \in records(h) THEN {"fpsr", "fpcr", "v"} ELSE {}) \cup
            IF opt = "test-sve" /\ records(h) \cap {"sve", "sve_short"} # {} THEN {"z"} ELSE {}
      BY <1>2, Zenon DEF Saved
    <3>2. Missed(h) = IF "fpsimd" \notin records(h) THEN {"z"}
            ELSE IF opt = "test-sve" /\ records(h) \cap {"sve", "sve_unused"} = {} THEN {"v", "z"}
            ELSE IF "sve_unused" \in records(h) THEN {"z"} ELSE {}
      BY <1>2, Zenon DEF Missed
    <3> QED  BY <3>1, <3>2 DEF Compared
  <2>3. m # a
    <3> HIDE DEF m, a
    <3>1. \A x, h : /\ DOMAIN vectors(x, h, opt) = {"fpsr", "fpcr", "sve_vl", "v", "z"}
                    /\ "fpsimd" \in records(h) =>
                         /\ vectors(x, h, opt).fpsr = x.fpsr /\ vectors(x, h, opt).fpcr = x.fpcr
                         /\ opt # "test-sve" \/ "sve_unused" \in records(h) =>
                              vectors(x, h, opt).v = x.v /\ vectors(x, h, opt).sve_vl = 0
                         /\ opt = "test-sve" /\ "sve_unused" \notin records(h) /\ "sve" \in records(h) =>
                              /\ vectors(x, h, opt).v = x.v /\ vectors(x, h, opt).z = x.z
      BY DEF vectors
    <3>2. /\ m.regs = u.gpr /\ m.flags = u.flags /\ m.fault_address = u.fault
          /\ m.vec = vectors(u, f, opt)
          /\ a.regs = v.gpr /\ a.flags = v.flags /\ a.fault_address = v.fault
          /\ a.vec = vectors(v, g, opt)
      BY Zenon, <2>1 DEF reginfo_init_aarch64
    <3> QED  BY <2>2, <3>1, <3>2
  <2> QED  BY SMTT(30), <2>3, <1>2, EqOfCases
<1>3. CASE arch = "i386"
  <2>1. m = reginfo_init_i386(u, f, off, in, opt) /\ a = reginfo_init_i386(v, g, pff, jn, opt)
    BY <1>3, InitOfCases
  <2>2. ASSUME NEW h
        PROVE  t \in Compared(h) =>
                 t \in {"gpr", "flags"} \/ ("fxsave" \in h.kinds /\ t \in {"mxcsr", "xmm"})
    <3>1. Saved(h) = {"gpr", "flags"} \cup
            (IF "fxsave" \in h.kinds THEN {"mxcsr", "xmm"} ELSE {}) \cup
            IF "xsave" \in h.kinds THEN {state(x) : x \in xfeatures(opt) \cap h.saved} ELSE {}
      BY <1>3, Zenon DEF Saved
    <3>2. Missed(h) = {"ymm_hi", "opmask", "zmm_hi", "hi16_zmm"}
      BY <1>3, Zenon DEF Missed
    <3>3. \A x : state(x) \in Missed(h)
      BY <3>2 DEF state
    <3> QED  BY Zenon, <3>1, <3>3 DEF Compared
  <2>3. /\ m.gregs = u.gpr /\ m.efl = u.flags
        /\ "fxsave" \in f.kinds => m.mxcsr = u.mxcsr /\ m.xmm = u.xmm
        /\ a.gregs = v.gpr /\ a.efl = v.flags
        /\ "fxsave" \in g.kinds => a.mxcsr = v.mxcsr /\ a.xmm = v.xmm
    <3> HIDE DEF m, a
    <3> QED BY Zenon, <2>1 DEF reginfo_init_i386
  <2>4. m # a
    <3> HIDE DEF m, a
    <3> QED BY Zenon, <2>2, <2>3
  <2> QED  BY SMTT(30), <2>4, <1>3, EqOfCases
<1>4. CASE arch = "loongarch64"
  <2> DEFINE c(h) == parse_extcontext(h.records)
             Filled(x, h, n) ==
               /\ n.regs = x.gpr /\ n.flags = x.flags
               /\ c(h) # {} => n.fcsr = x.fcsr /\ n.fcc = x.fcc
               /\ "lasx" \in c(h) =>
                    /\ n.vl = 256 /\ n.vregs.v0 = <<x.v0_4, x.v0>>
                    /\ n.vregs.v1 = <<x.v1_2, x.v1>> /\ n.vregs.hi = x.hi
               /\ "lasx" \notin c(h) /\ "lsx" \in c(h) =>
                    n.vl = 128 /\ n.vregs.v1 = <<x.v1_2, h.behind>>
               /\ "lasx" \notin c(h) /\ "lsx" \notin c(h) /\ "fpu" \in c(h) =>
                    n.vl = 64 /\ n.vregs.v0 = <<x.v0_4, h.behind>>
             Held(h) ==
               \/ t \in {"gpr", "flags"}
               \/ "lasx" \in c(h) /\ t \in {"fcsr", "fcc", "v0_4", "v0", "v1_2", "v1", "hi"}
               \/ "lasx" \notin c(h) /\ "lsx" \in c(h) /\ t \in {"fcsr", "fcc", "v1_2"}
               \/ "lasx" \notin c(h) /\ "lsx" \notin c(h) /\ "fpu" \in c(h)
                  /\ t \in {"fcsr", "fcc", "v0_4"}
  <2>1. m = reginfo_init_loongarch64(u, f, off, in, opt) /\ a = reginfo_init_loongarch64(v, g, pff, jn, opt)
    BY <1>4, InitOfCases
  <2>2. ASSUME NEW h, t \in Compared(h)
        PROVE  Held(h)
    <3>1. Saved(h) \subseteq {"gpr", "flags", "fcsr", "fcc", "v0_4", "v0", "v1_2", "v1", "hi"}
      <4> DEFINE r == Range(h.records)
      <4>1. Saved(h) = {"gpr", "flags"} \cup
              ((IF r \cap {"fpu", "lsx", "lasx"} # {} THEN {"fcsr", "fcc", "v0_4", "v0"} ELSE {}) \cup
               (IF r \cap {"lsx", "lasx"} # {} THEN {"v1_2", "v1"} ELSE {}) \cup
               IF "lasx" \in r THEN {"hi"} ELSE {})
        BY <1>4, Zenon DEF Saved
      <4> QED  BY Zenon, <4>1
    <3>2. Missed(h) = IF "lasx" \in c(h) THEN {} ELSE {"v0", "v1", "hi"} \cup
            IF "lsx" \in c(h) THEN {"v0_4"} ELSE {"v1_2"} \cup
              IF "fpu" \in c(h) THEN {} ELSE {"v0_4", "fcsr", "fcc"}
      BY <1>4, Zenon DEF Missed
    <3> HIDE DEF c
    <3> QED  BY <2>2, <3>1, <3>2 DEF Compared
  <2>3. Filled(u, f, m) /\ Filled(v, g, a)
    <3> HIDE DEF m, a, c
    <3> QED BY Zenon, <2>1 DEF reginfo_init_loongarch64, lasx, lsx, fpu, c
  <2>4. Held(f) /\ Held(g)
    BY Zenon, <2>2
  <2>5. m # a
    <3> HIDE DEF m, a, c
    <3> QED BY SMTT(30), <2>3, <2>4
  <2> QED  BY SMTT(30), <2>5, <1>4, EqOfCases
<1>5. CASE arch = "m68k"
  <2>1. m = reginfo_init_m68k(u, f, off, in, opt) /\ a = reginfo_init_m68k(v, g, pff, jn, opt)
    BY <1>5, InitOfCases
  <2>2. \A h : Compared(h) = {"gpr", "flags", "fpcr", "fpsr", "fp"}
    BY <1>5, Zenon DEF Compared, Saved, Missed
  <2>3. ~reginfo_is_eq_m68k(m, a)
    <3> HIDE DEF m, a
    <3> QED BY Zenon, <2>1, <2>2 DEF reginfo_init_m68k, reginfo_is_eq_m68k, Differing, Compared_m68k
  <2> QED  BY SMTT(30), <2>3, <1>5, EqOfCases
<1>6. CASE arch = "s390x"
  <2>1. m = reginfo_init_s390x(u, f, off, in, opt) /\ a = reginfo_init_s390x(v, g, pff, jn, opt)
    BY <1>6, InitOfCases
  <2>2. \A h : Compared(h) = {"gpr", "fpcr", "fp"}
    BY <1>6, ZenonT(30) DEF Compared, Saved, Missed
  <2>3. ~reginfo_is_eq_s390x(m, a)
    <3> HIDE DEF m, a
    <3> QED BY Zenon, <2>1, <2>2 DEF reginfo_init_s390x, reginfo_is_eq_s390x, Differing
  <2> QED  BY SMTT(30), <2>3, <1>6, EqOfCases
<1> QED  BY Zenon, <1>1, <1>2, <1>3, <1>4, <1>5, <1>6 DEF OtherArchs, Archs

\* Two checkpoints at different places of the image are told apart, but on
\* m68k, where the comparison leaves the program counter out.
LEMMA PlaceSeen ==
  ASSUME arch \in OtherArchs \ {"m68k"},
         NEW u, NEW v, NEW f, NEW g, NEW off, NEW pff, NEW in, NEW jn,
         EqOf(arch, InitOf(arch, u, f, off, in, opt), InitOf(arch, v, g, pff, jn, opt))
  PROVE  off = pff
<1> DEFINE m == InitOf(arch, u, f, off, in, opt)
           a == InitOf(arch, v, g, pff, jn, opt)
<1> HIDE DEF m, a
<1>1. CASE arch = "arm"
  <2>1. m.pc = off /\ a.pc = pff
    BY SMTT(30), <1>1, InitOfCases DEF m, a, reginfo_init_arm
  <2> QED  BY SMTT(30), <2>1, <1>1, EqOfCases DEF m, a
<1>2. CASE arch = "aarch64"
  <2>1. m.pc = off /\ a.pc = pff
    BY SMTT(30), <1>2, InitOfCases DEF m, a, reginfo_init_aarch64
  <2> QED  BY SMTT(30), <2>1, <1>2, EqOfCases DEF m, a
<1>3. CASE arch = "i386"
  <2>1. m.eip = off /\ a.eip = pff
    BY SMTT(30), <1>3, InitOfCases DEF m, a, reginfo_init_i386
  <2> QED  BY SMTT(30), <2>1, <1>3, EqOfCases DEF m, a
<1>4. CASE arch = "loongarch64"
  <2>1. m.pc = off /\ a.pc = pff
    BY SMTT(30), <1>4, InitOfCases DEF m, a, reginfo_init_loongarch64
  <2> QED  BY SMTT(30), <2>1, <1>4, EqOfCases DEF m, a
<1>5. CASE arch = "s390x"
  <2>1. "pc_offset" \in DOMAIN m /\ m.pc_offset = off /\ a.pc_offset = pff
    BY <1>5, InitOfCases DEF m, a, reginfo_init_s390x
  <2>2. reginfo_is_eq_s390x(m, a)
    BY <1>5, EqOfCases DEF m, a
  <2> QED  BY Zenon, <2>1, <2>2 DEF reginfo_is_eq_s390x, Differing
<1> QED  BY ZenonT(30), <1>1, <1>2, <1>3, <1>4, <1>5 DEF OtherArchs, Archs

\* On loongarch64 what lies behind the context shows only in what is read of it
\* without an LASX record.
LEMMA ReadAlike ==
  ASSUME NEW u, NEW f, NEW g, NEW off, NEW in, NEW o, f.records = g.records,
         \/ f.behind = g.behind
         \/ parse_extcontext(f.records) = {} \/ "lasx" \in parse_extcontext(f.records)
  PROVE  InitOf("loongarch64", u, f, off, in, o) = InitOf("loongarch64", u, g, off, in, o)
<1> DEFINE c == parse_extcontext(f.records)
           vec(h) == IF "lasx" \in c THEN lasx(u)
                     ELSE IF "lsx" \in c THEN lsx(u, h.behind)
                     ELSE IF "fpu" \in c THEN fpu(u, h.behind)
                     ELSE [v0 |-> <<0, 0>>, v1 |-> <<0, 0>>, hi |-> 0]
<1>1. vec(f) = vec(g)
  <2> HIDE DEF c
  <2> QED  BY Zenon DEF c
<1>2. reginfo_init_loongarch64(u, f, off, in, o) = reginfo_init_loongarch64(u, g, off, in, o)
  BY Zenon, <1>1 DEF reginfo_init_loongarch64
<1> QED  BY <1>2, InitOfCases

\* Equal registers, contexts and places compare equal.
LEMMA SelfEq ==
  ASSUME NEW ar \in OtherArchs, NEW m
  PROVE  EqOf(ar, m, m)
<1>1. Differing(m, m) = {}
  BY Zenon DEF Differing
<1> QED  BY <1>1, EqOfCases DEF OtherArchs, Archs, reginfo_is_eq_m68k, reginfo_is_eq_s390x

DumpOf(ar, m, a) ==
  CASE ar = "arm" -> dump_mismatch_arm(m, a)
    [] ar = "aarch64" -> dump_mismatch_aarch64(m, a)
    [] ar = "i386" -> dump_mismatch_i386(m, a)
    [] ar = "loongarch64" -> dump_mismatch_loongarch64(m, a)
    [] ar = "m68k" -> dump_mismatch_m68k(m, a)
    [] ar = "s390x" -> dump_mismatch_s390x(m, a)

LEMMA DumpOfCases ==
  ASSUME NEW m, NEW a
  PROVE  /\ DumpOf("arm", m, a) = dump_mismatch_arm(m, a)
         /\ DumpOf("aarch64", m, a) = dump_mismatch_aarch64(m, a)
         /\ DumpOf("i386", m, a) = dump_mismatch_i386(m, a)
         /\ DumpOf("loongarch64", m, a) = dump_mismatch_loongarch64(m, a)
         /\ DumpOf("m68k", m, a) = dump_mismatch_m68k(m, a)
         /\ DumpOf("s390x", m, a) = dump_mismatch_s390x(m, a)
  BY Zenon DEF DumpOf

\* Reginfos that compare unequal have something to print, unless only the
\* fault address of aarch64 differs.  On i386 the instruction, which is not
\* printed, is the same if its address is.
LEMMA DumpExplains ==
  ASSUME arch \in OtherArchs,
         NEW u, NEW v, NEW f \in FramesOf(arch), NEW g \in FramesOf(arch),
         NEW off, NEW pff, NEW in, NEW jn, off = pff => in = jn,
         NEW m, m = InitOf(arch, u, f, off, in, opt),
         NEW a, a = InitOf(arch, v, g, pff, jn, opt),
         ~EqOf(arch, m, a)
  PROVE  /\ DumpOf(arch, m, a) \subseteq Differing(m, a)
         /\ DumpOf(arch, m, a) = {} => Differing(m, a) = {"fault_address"}
         /\ DOMAIN m \cap {"insns", "NIP", "LNK"} = {}
<1>1. CASE arch = "arm"
  <2>1. m = reginfo_init_arm(u, f, off, in, opt) /\ a = reginfo_init_arm(v, g, pff, jn, opt)
    BY SMTT(30), <1>1, InitOfCases
  <2>2. /\ DOMAIN m = DOMAIN a
        /\ m = [x \in DOMAIN m |-> m[x]] /\ a = [x \in DOMAIN a |-> a[x]]
        /\ DOMAIN m \cap {"insns", "NIP", "LNK"} = {}
    BY Zenon, <2>1 DEF reginfo_init_arm
  <2>3. m # a
    BY Zenon, <1>1, EqOfCases
  <2>4. Differing(m, a) # {}
    BY Zenon, <2>2, <2>3 DEF Differing
  <2> QED  BY SMTT(30), <2>2, <2>4, <1>1, DumpOfCases DEF dump_mismatch_arm
<1>2. CASE arch = "aarch64"
  <2>1. m = reginfo_init_aarch64(u, f, off, in, opt) /\ a = reginfo_init_aarch64(v, g, pff, jn, opt)
    BY SMTT(30), <1>2, InitOfCases
  <2>2. /\ DOMAIN m = DOMAIN a
        /\ m = [x \in DOMAIN m |-> m[x]] /\ a = [x \in DOMAIN a |-> a[x]]
        /\ DOMAIN m \cap {"insns", "NIP", "LNK"} = {}
    BY Zenon, <2>1 DEF reginfo_init_aarch64
  <2>3. m # a
    BY ZenonT(30), <1>2, EqOfCases
  <2>4. Differing(m, a) # {}
    BY Zenon, <2>2, <2>3 DEF Differing
  <2> QED  BY SMTT(30), <2>2, <2>4, <1>2, DumpOfCases DEF dump_mismatch_aarch64
<1>3. CASE arch = "i386"
  <2> DEFINE Printed == {"gregs", "sp", "eip", "efl", "mxcsr", "xfeatures", "xmm", "kregs"}
  <2>1. m = reginfo_init_i386(u, f, off, in, opt) /\ a = reginfo_init_i386(v, g, pff, jn, opt)
    BY SMTT(30), <1>3, InitOfCases
  <2>2. /\ DOMAIN m = DOMAIN a
        /\ DOMAIN m = Printed \cup {"faulting_insn", "ymm_hi", "zmm_hi", "hi16_zmm"}
        /\ m = [x \in DOMAIN m |-> m[x]] /\ a = [x \in DOMAIN a |-> a[x]]
    BY Zenon, <2>1 DEF reginfo_init_i386
  <2>3. m # a
    BY ZenonT(30), <1>3, EqOfCases
  <2>4. /\ m.eip = off /\ a.eip = pff /\ m.faulting_insn = in.op /\ a.faulting_insn = jn.op
        /\ m.xfeatures = xfeatures(opt) /\ a.xfeatures = xfeatures(opt)
    BY SMTT(30), <2>1 DEF reginfo_init_i386
  <2>5. /\ XFEAT_AVX \notin xfeatures(opt) => m.ymm_hi = 0 /\ a.ymm_hi = 0
        /\ XFEAT_AVX512_ZMM_HI256 \notin xfeatures(opt) => m.zmm_hi = 0 /\ a.zmm_hi = 0
        /\ XFEAT_AVX512_HI16_ZMM \notin xfeatures(opt) => m.hi16_zmm = 0 /\ a.hi16_zmm = 0
    BY <2>1 DEF reginfo_init_i386
  <2>6. Differing(m, a) # {}
    BY Zenon, <2>2, <2>3 DEF Differing
  <2>7. dump_mismatch_i386(m, a) # {}
    <3>1. PICK x \in DOMAIN m : m[x] # a[x]
      BY Zenon, <2>6 DEF Differing
    <3>2. CASE x \in Printed
      BY Zenon, <3>1, <3>2 DEF dump_mismatch_i386, Differing
    <3>3. CASE x = "faulting_insn"
      <4>1. off # pff
        BY Zenon, <3>1, <3>3, <2>4
      <4>2. "eip" \in Differing(m, a)
        BY Zenon, <4>1, <2>2, <2>4 DEF Differing
      <4> QED  BY Zenon, <4>2 DEF dump_mismatch_i386
    <3>4. CASE x \in {"ymm_hi", "zmm_hi", "hi16_zmm"}
      BY ZenonT(30), <3>1, <3>4, <2>2, <2>4, <2>5 DEF dump_mismatch_i386, Differing
    <3> QED  BY Zenon, <3>2, <3>3, <3>4, <2>2
  <2> QED  BY SMTT(30), <2>2, <2>7, <1>3, DumpOfCases DEF dump_mismatch_i386
<1>4. CASE arch = "loongarch64"
  <2>1. m = reginfo_init_loongarch64(u, f, off, in, opt) /\ a = reginfo_init_loongarch64(v, g, pff, jn, opt)
    BY SMTT(30), <1>4, InitOfCases
  <2>2. /\ DOMAIN m = DOMAIN a /\ "vl" \in DOMAIN m /\ "vregs" \in DOMAIN m
        /\ m = [x \in DOMAIN m |-> m[x]] /\ a = [x \in DOMAIN a |-> a[x]]
        /\ DOMAIN m \cap {"insns", "NIP", "LNK"} = {}
    BY Zenon, <2>1 DEF reginfo_init_loongarch64
  <2>3. m # a
    BY Zenon, <1>4, EqOfCases
  <2>4. Differing(m, a) # {}
    BY ZenonT(30), <2>2, <2>3 DEF Differing
  <2>5. /\ DOMAIN m.vregs = {"v0", "v1", "hi"} /\ m.vregs = [p \in DOMAIN m.vregs |-> m.vregs[p]]
        /\ m.vl \in {0, 64, 128, 256}
        /\ m.vl # 256 => m.vregs.hi = 0
        /\ m.vl \in {0, 64} => m.vregs.v1 = <<0, 0>>
        /\ m.vl = 0 => m.vregs.v0 = <<0, 0>>
    BY SMTT(30), <2>1 DEF reginfo_init_loongarch64, lasx, lsx, fpu
  <2>6. /\ DOMAIN a.vregs = {"v0", "v1", "hi"} /\ a.vregs = [p \in DOMAIN a.vregs |-> a.vregs[p]]
        /\ a.vl \in {0, 64, 128, 256}
        /\ a.vl # 256 => a.vregs.hi = 0
        /\ a.vl \in {0, 64} => a.vregs.v1 = <<0, 0>>
        /\ a.vl = 0 => a.vregs.v0 = <<0, 0>>
    BY <2>1 DEF reginfo_init_loongarch64, lasx, lsx, fpu
  <2> DEFINE parts == CASE m.vl = 256 -> {"v0", "v1", "hi"} [] m.vl = 128 -> {"v0", "v1"}
                        [] m.vl = 64 -> {"v0"} [] OTHER -> {}
             printed == IF \E p \in parts : m.vregs[p] # a.vregs[p] THEN {"vregs"} ELSE {}
  <2>7. dump_mismatch_loongarch64(m, a) = (Differing(m, a) \ {"vregs"}) \cup printed
    BY Zenon DEF dump_mismatch_loongarch64
  <2>8. /\ m.vl = 256 => parts = {"v0", "v1", "hi"}
        /\ m.vl = 128 => parts = {"v0", "v1"}
        /\ m.vl = 64 => parts = {"v0"}
        /\ m.vl = 0 => parts = {}
    OBVIOUS
  <2> HIDE DEF parts
  <2>9. printed \subseteq Differing(m, a)
    BY Zenon, <2>2 DEF Differing
  <2>10. ASSUME Differing(m, a) = {"vregs"}
         PROVE  printed = {"vregs"}
    <3>1. m.vl = a.vl
      BY Zenon, <2>10, <2>2 DEF Differing
    <3>2. m.vregs # a.vregs
      BY Zenon, <2>10, <2>2 DEF Differing
    <3>3. PICK p \in {"v0", "v1", "hi"} : m.vregs[p] # a.vregs[p]
      BY ZenonT(30), <3>2, <2>5, <2>6
    <3>4. p \in parts
      BY SMTT(30), <3>1, <3>3, <2>5, <2>6, <2>8
    <3> QED  BY Zenon, <3>3, <3>4
  <2> HIDE DEF printed
  <2>11. /\ (Differing(m, a) \ {"vregs"}) \cup printed \subseteq Differing(m, a)
         /\ (Differing(m, a) \ {"vregs"}) \cup printed # {}
    BY <2>4, <2>9, <2>10, ZenonT(30)
  <2> QED  BY SMTT(30), <2>2, <2>7, <2>11, <1>4, DumpOfCases
<1>5. CASE arch = "m68k"
  <2>1. m = reginfo_init_m68k(u, f, off, in, opt)
    BY SMTT(30), <1>5, InitOfCases
  <2>2. DOMAIN m \cap {"insns", "NIP", "LNK"} = {}
    BY Zenon, <2>1 DEF reginfo_init_m68k
  <2> QED  BY SMTT(30), <2>2, <1>5, EqOfCases, DumpOfCases DEF reginfo_is_eq_m68k, dump_mismatch_m68k
<1>6. CASE arch = "s390x"
  <2>1. m = reginfo_init_s390x(u, f, off, in, opt)
    BY ZenonT(30), <1>6, InitOfCases
  <2>2. DOMAIN m \cap {"insns", "NIP", "LNK"} = {}
    BY Zenon, <2>1 DEF reginfo_init_s390x
  <2> QED  BY SMTT(30), <2>2, <1>6, EqOfCases, DumpOfCases DEF reginfo_is_eq_s390x, dump_mismatch_s390x
<1> QED  BY ZenonT(30), <1>1, <1>2, <1>3, <1>4, <1>5, <1>6 DEF OtherArchs, Archs

\* reginfo_init and reginfo_is_eq are those functions, now and one step later.
LEMMA Captured ==
  ASSUME arch \in OtherArchs, arch' = arch, NEW s
  PROVE  /\ reginfo_init(s) = InitOf(arch, uc[s], frame[s], pc[s] - base[s], Here(s), opt)
         /\ reginfo_init(s)' = InitOf(arch, uc'[s], frame'[s], pc'[s] - base'[s], Here(s)', opt')
<1>1. arch # "ppc64"
  BY Zenon DEF OtherArchs
<1>2. reginfo_init(s) = InitOf(arch, uc[s], frame[s], pc[s] - base[s], Here(s), opt)
  BY <1>1, Zenon DEF reginfo_init, InitOf, OtherArchs, Archs
<1>3. reginfo_init(s)' = InitOf(arch, uc'[s], frame'[s], pc'[s] - base'[s], Here(s)', opt')
  BY <1>1, Zenon DEF reginfo_init, InitOf, OtherArchs, Archs
<1> QED  BY Zenon, <1>2, <1>3

LEMMA ComparedAs ==
  ASSUME arch \in OtherArchs, arch' = arch
  PROVE  /\ \A m, a : reginfo_is_eq(m, a) = EqOf(arch, m, a)
         /\ reginfo_is_eq(reginfo_init(MASTER), reginfo_init(APPRENTICE))' =
              EqOf(arch, reginfo_init(MASTER)', reginfo_init(APPRENTICE)')
         /\ \A m, a : reginfo_dump_mismatch(m, a) = DumpOf(arch, m, a)
<1>1. arch # "ppc64"
  BY Zenon DEF OtherArchs
<1>2. \A m, a : reginfo_is_eq(m, a) = EqOf(arch, m, a)
  BY <1>1, Zenon DEF reginfo_is_eq, EqOf, OtherArchs, Archs
<1>3. reginfo_is_eq(reginfo_init(MASTER), reginfo_init(APPRENTICE))' =
        EqOf(arch, reginfo_init(MASTER)', reginfo_init(APPRENTICE)')
  BY <1>1, Zenon DEF reginfo_is_eq, EqOf, OtherArchs, Archs
<1>4. \A m, a : reginfo_dump_mismatch(m, a) = DumpOf(arch, m, a)
  BY <1>1, ZenonT(30) DEF reginfo_dump_mismatch, DumpOf, OtherArchs, Archs
<1> QED  BY Zenon, <1>2, <1>3, <1>4

\* A step of the image on the other architectures.
LEMMA RunStep ==
  ASSUME RInv, Run
  PROVE  RInv'
<1>1. /\ Given /\ Shape /\ Others /\ arch \in OtherArchs
      /\ arch' = arch /\ opt' = opt /\ base' = base /\ code' = code
      /\ st = "run" /\ st' = "trap" /\ ~erred
      /\ signal_count' = signal_count
  BY Zenon, SetupFacts DEF RInv, Run, given, Others, OtherArchs
<1>2. base \in [Side -> Int] /\ Image_of(arch, code)
  BY Zenon, <1>1, SetupFacts DEF OtherArchs
<1>3. Given' /\ NoFalseAlarm' /\ MismatchNamed'
  BY Zenon, <1>1 DEF Given, NoFalseAlarm, MismatchNamed, OtherArchs
<1> DEFINE Safe == erred' => ~reginfo_is_eq(reginfo_init(MASTER), reginfo_init(APPRENTICE))'
<1>s. Side = {MASTER, APPRENTICE} /\ MASTER # APPRENTICE
  BY Zenon DEF Side, MASTER, APPRENTICE
<1>4. CASE WriteRegister
  <2>1. PICK t \in DOMAIN uc[MASTER], v \in Values : Written(t, v, v)
    BY Zenon, <1>4 DEF WriteRegister
  <2>2. /\ DOMAIN uc' = Side
        /\ \A s \in Side : uc'[s] = [uc[s] EXCEPT ![t] = v]
        /\ raised' = IF t = "exc" THEN v ELSE raised
    BY <2>1, <1>1, <1>s, ZenonT(30) DEF Written, Shape
  <2>3. /\ DOMAIN uc'[MASTER] = DOMAIN uc'[APPRENTICE]
        /\ DOMAIN uc'[MASTER] = DOMAIN uc[MASTER]
        /\ uc[MASTER] = uc[APPRENTICE] => uc'[MASTER] = uc'[APPRENTICE]
    BY SMTT(30), <2>2, <1>1, <1>s DEF Others
  <2>4. arch = "arm" /\ has_vfp(frame[MASTER]) => uc'[MASTER].exc = raised'
    BY Zenon, <2>2, <1>1, <1>s DEF Others
  <2>5. /\ frame' = frame /\ at' = at /\ pc' = pc /\ honest' = honest /\ erred' = erred
        /\ strict' = strict
    BY Zenon, <1>4 DEF WriteRegister
  <2>6. Shape'
    BY Zenon, <1>1, <2>2, <2>5 DEF Shape
  <2>7. Others'
    BY Zenon, <1>1, <2>3, <2>4, <2>5 DEF Others, Alike
  <2> QED  BY Zenon, <1>1, <1>3, <2>6, <2>7 DEF RInv, OtherArchs
<1>5. CASE WriteWrongly
  <2>1. PICK t \in DOMAIN uc[MASTER], v \in Values, w \in Values :
          /\ v # w /\ Written(t, v, w)
          /\ erred' = (erred \/ \A s \in Side : t \in Compared(frame[s]))
    BY Zenon, <1>5 DEF WriteWrongly
  <2>2. /\ DOMAIN uc' = Side
        /\ uc'[MASTER] = [uc[MASTER] EXCEPT ![t] = v]
        /\ uc'[APPRENTICE] = [uc[APPRENTICE] EXCEPT ![t] = w]
        /\ raised' = IF t = "exc" THEN v ELSE raised
    BY <2>1, <1>1, <1>s, ZenonT(30) DEF Written, Shape
  <2>3. /\ DOMAIN uc'[MASTER] = DOMAIN uc'[APPRENTICE]
        /\ DOMAIN uc'[MASTER] = DOMAIN uc[MASTER]
        /\ uc'[MASTER][t] # uc'[APPRENTICE][t]
    BY Zenon, <2>1, <2>2, <1>1 DEF Others
  <2>4. arch = "arm" /\ has_vfp(frame[MASTER]) => uc'[MASTER].exc = raised'
    BY Zenon, <2>2, <1>1 DEF Others
  <2>5. /\ frame' = frame /\ at' = at /\ pc' = pc /\ honest' = FALSE /\ erred' \in BOOLEAN
        /\ strict' = strict
    BY Zenon, <1>5, <2>1 DEF WriteWrongly
  <2>6. Safe
    <3> SUFFICES ASSUME erred'
                 PROVE  ~reginfo_is_eq(reginfo_init(MASTER), reginfo_init(APPRENTICE))'
      BY Zenon
    <3>1. t \in Compared(frame'[MASTER]) /\ t \in Compared(frame'[APPRENTICE])
      BY <2>1, <2>5, <1>1, <1>s, Zenon
    <3>2. frame'[MASTER] \in FramesOf(arch) /\ frame'[APPRENTICE] \in FramesOf(arch)
      BY Zenon, <2>5, <1>1, <1>s DEF Shape
    <3>3. ~EqOf(arch, InitOf(arch, uc'[MASTER], frame'[MASTER], pc'[MASTER] - base'[MASTER],
                             Here(MASTER)', opt),
                      InitOf(arch, uc'[APPRENTICE], frame'[APPRENTICE],
                             pc'[APPRENTICE] - base'[APPRENTICE], Here(APPRENTICE)', opt))
      BY Zenon, <3>1, <3>2, <2>3, <1>1, WrongSeen
    <3> QED  BY Zenon, <3>3, <1>1, Captured, ComparedAs
  <2>7. Shape'
    BY <1>1, <2>2, <2>5, Zenon DEF Shape
  <2>8. Others'
    BY Zenon, <1>1, <2>3, <2>4, <2>5, <2>6 DEF Others, Alike
  <2> QED  BY Zenon, <1>1, <1>3, <2>7, <2>8 DEF RInv, OtherArchs
<1>6. CASE BranchWrongly
  <2>1. PICK k \in DOMAIN code \ {at[APPRENTICE]} :
          /\ at' = [at EXCEPT ![APPRENTICE] = k]
          /\ pc' = [pc EXCEPT ![APPRENTICE] = base[APPRENTICE] + Start(k)]
    BY <1>6, Zenon DEF BranchWrongly
  <2>2. /\ uc' = uc /\ frame' = frame /\ raised' = raised /\ honest' = FALSE
        /\ erred' = (erred \/ arch # "m68k") /\ strict' = strict
    BY Zenon, <1>6 DEF BranchWrongly
  <2>3. /\ at' \in [Side -> DOMAIN code]
        /\ pc' = [s \in Side |-> base[s] + code[at'[s]].start]
    BY <2>1, <1>1, <1>s, ZenonT(30) DEF Others, Start
  <2>4. Safe
    <3> SUFFICES ASSUME erred'
                 PROVE  ~reginfo_is_eq(reginfo_init(MASTER), reginfo_init(APPRENTICE))'
      BY Zenon
    <3>1. arch # "m68k" /\ at[MASTER] = at[APPRENTICE]
      BY <2>2, <1>1, Zenon DEF Others
    <3>2. /\ at'[MASTER] = at[MASTER] /\ at'[APPRENTICE] = k
          /\ at[MASTER] \in DOMAIN code /\ k # at[MASTER]
      BY ZenonT(30), <3>1, <2>1, <1>1, <1>s DEF Others
    <3>3. code[at[MASTER]].start # code[k].start
      BY SMTT(30), <3>2, <1>2 DEF Image_of
    <3>4. base[MASTER] \in Int /\ base[APPRENTICE] \in Int
          /\ code[at[MASTER]].start \in Int /\ code[k].start \in Int
      BY SMTT(30), <3>2, <1>2, <1>s DEF Image_of
    <3>5. pc'[MASTER] - base'[MASTER] # pc'[APPRENTICE] - base'[APPRENTICE]
      BY SMTT(30), <2>3, <3>2, <3>3, <3>4, <1>1, <1>s
    <3> QED  BY SMTT(30), <3>1, <3>5, <1>1, Captured, ComparedAs, PlaceSeen
  <2>5. Shape'
    BY <1>1, <2>2, ZenonT(30) DEF Shape
  <2>6. Others'
    BY Zenon, <1>1, <2>2, <2>3, <2>4 DEF Others, Alike
  <2> QED  BY Zenon, <1>1, <1>3, <2>5, <2>6 DEF RInv, OtherArchs
<1>7. CASE OtherFrame
  <2>1. PICK f \in FramesOf(arch) : frame' = [s \in Side |-> f]
    BY Zenon, <1>7 DEF OtherFrame
  <2>2. /\ arch # "arm" /\ uc' = uc /\ at' = at /\ pc' = pc
        /\ honest' = honest /\ erred' = erred /\ strict' = strict /\ raised' = raised
    BY Zenon, <1>7 DEF OtherFrame, history
  <2>3. Shape'
    BY Zenon, <1>1, <2>1, <2>2 DEF Shape
  <2>4. Others'
    BY <1>1, <2>1, <2>2, <1>s, Zenon DEF Others, Alike
  <2> QED  BY Zenon, <1>1, <1>3, <2>3, <2>4 DEF RInv, OtherArchs
<1>8. CASE UnequalFrames
  <2>1. PICK f \in FramesOf(arch), g \in FramesOf(arch) :
          frame' = Pair(f, g) /\ honest' = (honest /\ Alike(f, g))
    BY Zenon, <1>8 DEF UnequalFrames
  <2>2. /\ arch # "arm" /\ uc' = uc /\ at' = at /\ pc' = pc
        /\ erred' = erred /\ strict' = strict /\ raised' = raised
    BY Zenon, <1>8 DEF UnequalFrames
  <2>3. Shape'
    BY <1>1, <2>1, <2>2, Zenon DEF Shape, Pair
  <2>4. frame'[MASTER] = f /\ frame'[APPRENTICE] = g
    BY Zenon, <1>s, <2>1 DEF Pair
  <2>5. Others'
    BY Zenon, <1>1, <2>1, <2>2, <2>4 DEF Others, Alike
  <2> QED  BY Zenon, <1>1, <1>3, <2>3, <2>5 DEF RInv, OtherArchs
<1> QED  BY Zenon, <1>4, <1>5, <1>6, <1>7, <1>8 DEF Run

\* Behind an instruction that is not the last one execution goes on at the
\* next one, on every architecture.
LEMMA GoesOn ==
  ASSUME Given, Others, arch \in OtherArchs, NEW s \in Side, Here(s).op # "testend"
  PROVE  /\ at[s] + 1 \in DOMAIN code
         /\ advance_pc(s) = base[s] + code[at[s] + 1].start
         /\ IndexAt(advance_pc(s) - base[s]) = at[s] + 1
<1> DEFINE k == at[s]
           in == Here(s)
<1>1. base[s] \in Int /\ Image_of(arch, code)
  BY Zenon, SetupFacts DEF OtherArchs
<1>2. k \in DOMAIN code /\ pc[s] = base[s] + code[k].start /\ in = code[k]
  BY Zenon DEF Others, Here
<1>3. k \in Nat /\ k + 1 \in DOMAIN code /\ k < k + 1
  BY SMTT(30), <1>1, <1>2 DEF Image_of, Here
<1>4. /\ code[k].start \in Nat /\ in.size \in Nat /\ code[k + 1].start \in Nat
      /\ code[k + 1].start = code[k].start + in.size
      /\ Sized(arch, in)
  BY SMTT(30), <1>1, <1>2, <1>3 DEF Image_of, Sized
<1>5. advance_pc(s) = pc[s] + in.size
  <2>1. CASE arch = "arm"
    <3>1. insnsize(in) = in.size
      BY Zenon, <2>1, <1>4 DEF Sized, insnsize
    <3>2. advance_pc(s) = advance_pc_arm(kernel_pc(arch, pc[s], in), in)
      BY <2>1, Zenon DEF advance_pc
    <3> QED  BY Zenon, <3>1, <3>2, <2>1 DEF advance_pc_arm, kernel_pc
  <2>2. CASE arch = "i386"
    <3>1. advance_pc(s) = advance_pc_i386(kernel_pc(arch, pc[s], in))
      BY <2>2, Zenon DEF advance_pc
    <3> QED  BY Zenon, <3>1, <2>2, <1>4 DEF advance_pc_i386, kernel_pc, Sized
  <2>3. CASE arch = "s390x"
    <3>1. advance_pc(s) = advance_pc_s390x(kernel_pc(arch, pc[s], in))
      BY <2>3, Zenon DEF advance_pc
    <3> QED  BY Zenon, <3>1, <2>3, <1>4 DEF advance_pc_s390x, kernel_pc
  <2>4. CASE arch = "aarch64"
    <3>1. advance_pc(s) = advance_pc_aarch64(kernel_pc(arch, pc[s], in))
      BY <2>4, Zenon DEF advance_pc
    <3> QED  BY Zenon, <3>1, <2>4, <1>4 DEF advance_pc_aarch64, kernel_pc, Sized
  <2>5. CASE arch = "loongarch64"
    <3>1. advance_pc(s) = advance_pc_loongarch64(kernel_pc(arch, pc[s], in))
      BY <2>5, Zenon DEF advance_pc
    <3> QED  BY Zenon, <3>1, <2>5, <1>4 DEF advance_pc_loongarch64, kernel_pc, Sized
  <2>6. CASE arch = "m68k"
    <3>1. advance_pc(s) = advance_pc_m68k(kernel_pc(arch, pc[s], in))
      BY <2>6, Zenon DEF advance_pc
    <3> QED  BY Zenon, <3>1, <2>6, <1>4 DEF advance_pc_m68k, kernel_pc, Sized
  <2> QED  BY ZenonT(30), <2>1, <2>2, <2>3, <2>4, <2>5, <2>6 DEF OtherArchs, Archs
<1>6. advance_pc(s) = base[s] + code[k + 1].start
  BY SMTT(30), <1>1, <1>2, <1>4, <1>5
<1>7. advance_pc(s) - base[s] = code[k + 1].start
  BY SMTT(30), <1>1, <1>4, <1>6
<1>8. \A j \in DOMAIN code : code[j].start = code[k + 1].start => j = k + 1
  BY SMTT(30), <1>1, <1>3 DEF Image_of
<1>9. IndexAt(code[k + 1].start) = k + 1
  BY Zenon, <1>3, <1>8 DEF IndexAt, Start
<1> QED  BY Zenon, <1>3, <1>6, <1>7, <1>9

\* A checkpoint on the other architectures.
LEMMA CheckpointStep ==
  ASSUME RInv, Checkpoint, arch # "ppc64"
  PROVE  RInv'
<1>1. /\ Given /\ Shape /\ Others /\ arch \in OtherArchs
      /\ arch' = arch /\ opt' = opt /\ base' = base /\ code' = code
      /\ st = "trap" /\ signal_count' = signal_count + 1 /\ raised' = 0
      /\ frame' = frame /\ honest' = honest /\ erred' = erred /\ strict' = strict
  BY Zenon, SetupFacts DEF RInv, Checkpoint, given, OtherArchs
<1>2. base \in [Side -> Int] /\ Image_of(arch, code)
  BY Zenon, <1>1, SetupFacts DEF OtherArchs
<1>s. Side = {MASTER, APPRENTICE} /\ MASTER # APPRENTICE
  BY Zenon DEF Side, MASTER, APPRENTICE
<1>3. Given'
  BY Zenon, <1>1 DEF Given, OtherArchs
<1>4. PICK m \in {reginfo_init(MASTER)}, a \in {reginfo_init(APPRENTICE)} :
        Mismatch(m, a) \/ OpMismatch(m, a) \/ TestEnd(m, a) \/ Resume(m, a)
  BY Zenon DEF Checkpoint
<1>5. m = reginfo_init(MASTER) /\ a = reginfo_init(APPRENTICE)
  BY Zenon, SMTT(30)
<1> DEFINE eq == reginfo_is_eq(m, a)
<1>6. /\ m = InitOf(arch, uc[MASTER], frame[MASTER], pc[MASTER] - base[MASTER], Here(MASTER), opt)
      /\ a = InitOf(arch, uc[APPRENTICE], frame[APPRENTICE], pc[APPRENTICE] - base[APPRENTICE],
                    Here(APPRENTICE), opt)
      /\ eq = EqOf(arch, m, a)
  BY <1>1, <1>5, Captured, ComparedAs, ZenonT(30)
<1>7. \A s \in Side : /\ at[s] \in DOMAIN code /\ Here(s) = code[at[s]]
                      /\ pc[s] - base[s] = code[at[s]].start
  BY SMTT(30), <1>1, <1>2 DEF Others, Here, Image_of
<1>8. erred => ~eq
  BY Zenon, <1>1, <1>5 DEF Others
<1>9. honest /\ ~OverRead => eq /\ Here(MASTER).op = Here(APPRENTICE).op
  <2> SUFFICES ASSUME honest, ~OverRead
               PROVE  eq /\ Here(MASTER).op = Here(APPRENTICE).op
    BY Zenon, SMTT(30)
  <2>1. /\ Alike(frame[MASTER], frame[APPRENTICE]) /\ uc[MASTER] = uc[APPRENTICE]
        /\ at[MASTER] = at[APPRENTICE]
    BY Zenon, <1>1 DEF Others
  <2>2. /\ Here(MASTER) = Here(APPRENTICE)
        /\ pc[MASTER] - base[MASTER] = pc[APPRENTICE] - base[APPRENTICE]
    BY Zenon, <1>7, <1>s, <2>1
  <2>3. m = a
    <3>1. CASE arch = "loongarch64"
      <4> DEFINE f == frame[MASTER]
                 g == frame[APPRENTICE]
      <4>1. /\ f.records = g.records
            /\ \/ f.behind = g.behind
               \/ parse_extcontext(f.records) = {} \/ "lasx" \in parse_extcontext(f.records)
        BY Zenon, <2>1, <3>1 DEF Alike, OverRead
      <4> HIDE DEF f, g
      <4>2. \A u, off, in : InitOf("loongarch64", u, f, off, in, opt) =
                              InitOf("loongarch64", u, g, off, in, opt)
        BY <4>1, ReadAlike
      <4> QED  BY Zenon, <1>6, <2>1, <2>2, <3>1, <4>2 DEF f, g
    <3>2. CASE arch # "loongarch64"
      BY ZenonT(30), <1>6, <2>1, <2>2, <3>2 DEF Alike
    <3> QED  BY Zenon, <3>1, <3>2
  <2> QED  BY Zenon, <2>2, <2>3, <1>1, <1>6, SelfEq
<1>10. arch # "m68k" /\ eq => at[MASTER] = at[APPRENTICE]
  <2> SUFFICES ASSUME arch # "m68k", eq
               PROVE  at[MASTER] = at[APPRENTICE]
    BY Zenon, SMTT(30)
  <2>1. pc[MASTER] - base[MASTER] = pc[APPRENTICE] - base[APPRENTICE]
    BY Zenon, <1>1, <1>6, PlaceSeen
  <2>2. code[at[MASTER]].start = code[at[APPRENTICE]].start
    BY Zenon, <2>1, <1>7, <1>s
  <2> QED  BY SMTT(30), <2>2, <1>2, <1>7, <1>s DEF Image_of
<1> HIDE DEF eq
<1>11. /\ DOMAIN Cleared = Side
       /\ DOMAIN Cleared[MASTER] = DOMAIN uc[MASTER]
       /\ DOMAIN Cleared[MASTER] = DOMAIN Cleared[APPRENTICE]
       /\ arch = "arm" /\ has_vfp(frame[MASTER]) => Cleared[MASTER].exc = 0
       /\ honest => Cleared[MASTER] = Cleared[APPRENTICE]
  <2>1. \A s \in Side : Cleared[s] = IF arch = "arm" /\ has_vfp(frame[s])
                                     THEN [uc[s] EXCEPT !.exc = 0] ELSE uc[s]
    BY Zenon DEF Cleared, clear_exceptions
  <2>2. DOMAIN Cleared = Side
    BY Zenon DEF Cleared
  <2>3. arch = "arm" /\ honest => frame[MASTER] = frame[APPRENTICE]
    BY Zenon, <1>1 DEF Others, Alike
  <2> QED  BY Zenon, <2>1, <2>2, <2>3, <1>1, <1>s DEF Others
<1>12. CASE Mismatch(m, a)
  <2>1. /\ ~eq /\ ri' = Pair(m, a) /\ named' = DumpOf(arch, m, a)
        /\ st' = "mismatch" /\ uc' = Cleared /\ at' = at /\ pc' = pc
    BY ZenonT(30), <1>1, <1>12, ComparedAs DEF Mismatch, eq, OtherArchs
  <2>2. Shape'
    BY SMTT(30), <1>1, <1>11, <2>1 DEF Shape
  <2>3. Others'
    BY <1>1, <1>11, <2>1, Zenon DEF Others, Alike
  <2>4. NoFalseAlarm'
    BY Zenon, <1>1, <1>9, <2>1 DEF NoFalseAlarm, OverRead
  <2>5. ri'[MASTER] = m /\ ri'[APPRENTICE] = a
    BY ZenonT(30), <2>1, <1>s DEF Pair
  <2>6. /\ DumpOf(arch, m, a) \subseteq Differing(m, a)
        /\ DumpOf(arch, m, a) = {} => Differing(m, a) = {"fault_address"}
        /\ DOMAIN m \cap {"insns", "NIP", "LNK"} = {}
    <3> DEFINE off == pc[MASTER] - base[MASTER]
               pff == pc[APPRENTICE] - base[APPRENTICE]
               in == Here(MASTER)
               jn == Here(APPRENTICE)
    <3>1. off = pff => in = jn
      BY SMTT(30), <1>2, <1>7, <1>s DEF Image_of
    <3>2. frame[MASTER] \in FramesOf(arch) /\ frame[APPRENTICE] \in FramesOf(arch)
      BY Zenon, <1>1, <1>s DEF Shape
    <3>3. arch \in OtherArchs /\ ~EqOf(arch, m, a)
      BY Zenon, <1>1, <1>6, <2>1
    <3>4. /\ m = InitOf(arch, uc[MASTER], frame[MASTER], off, in, opt)
          /\ a = InitOf(arch, uc[APPRENTICE], frame[APPRENTICE], pff, jn, opt)
      BY Zenon, <1>6
    <3> HIDE DEF off, pff, in, jn
    <3> QED  BY SMTT(30), <3>1, <3>2, <3>3, <3>4, DumpExplains
  <2>7. {f \in DOMAIN m \ {"insns", "NIP"} :
           IF f = "LNK" THEN Differs(m, a, f) ELSE m[f] # a[f]} = Differing(m, a)
    BY Zenon, <2>6 DEF Differing
  <2>8. MismatchNamed'
    BY SMTT(30), <2>1, <2>5, <2>6, <2>7 DEF MismatchNamed
  <2> QED  BY ZenonT(30), <1>1, <1>3, <2>2, <2>3, <2>4, <2>8 DEF RInv, OtherArchs
<1>13. CASE OpMismatch(m, a)
  <2>1. /\ eq /\ Here(MASTER).op # Here(APPRENTICE).op /\ named' = {"op"}
        /\ st' = "mismatch" /\ uc' = Cleared /\ at' = at /\ pc' = pc
    BY ZenonT(30), <1>13 DEF OpMismatch, eq
  <2>2. Shape'
    BY SMTT(30), <1>1, <1>11, <2>1 DEF Shape
  <2>3. Others'
    BY <1>1, <1>11, <2>1, Zenon DEF Others, Alike
  <2>4. NoFalseAlarm' /\ MismatchNamed'
    BY ZenonT(30), <1>1, <1>9, <2>1 DEF NoFalseAlarm, OverRead, MismatchNamed
  <2> QED  BY Zenon, <1>1, <1>3, <2>2, <2>3, <2>4 DEF RInv, OtherArchs
<1>14. CASE TestEnd(m, a)
  <2>1. eq /\ st' = "end" /\ uc' = Cleared /\ at' = at /\ pc' = pc
    BY ZenonT(30), <1>14 DEF TestEnd, eq
  <2>2. Shape'
    BY SMTT(30), <1>1, <1>11, <2>1 DEF Shape
  <2>3. Others'
    BY <1>1, <1>8, <1>11, <2>1, Zenon DEF Others, Alike
  <2>4. NoFalseAlarm' /\ MismatchNamed'
    BY ZenonT(30), <2>1 DEF NoFalseAlarm, OverRead, MismatchNamed
  <2> QED  BY Zenon, <1>1, <1>3, <2>2, <2>3, <2>4 DEF RInv, OtherArchs
<1>15. CASE Resume(m, a)
  <2>1. /\ eq /\ st' = "run"
        /\ Here(MASTER).op = Here(APPRENTICE).op /\ Here(MASTER).op # "testend"
        /\ uc' = [s \in Side |-> Cleared[s]]
        /\ pc' = [s \in Side |-> advance_pc(s)]
        /\ at' = [s \in Side |-> IndexAt(advance_pc(s) - base[s])]
    BY Zenon, <1>15, <1>1 DEF Resume, eq, reginfo_update, OtherArchs
  <2>2. \A s \in Side : /\ at[s] + 1 \in DOMAIN code
                        /\ advance_pc(s) = base[s] + code[at[s] + 1].start
                        /\ IndexAt(advance_pc(s) - base[s]) = at[s] + 1
    BY Zenon, <2>1, <1>1, <1>s, GoesOn
  <2>3. /\ at' \in [Side -> DOMAIN code]
        /\ \A s \in Side : at'[s] = at[s] + 1
        /\ pc' = [s \in Side |-> base[s] + code[at'[s]].start]
    BY Zenon, <2>1, <2>2
  <2>4. uc' = Cleared
    BY Zenon, <2>1 DEF Cleared
  <2>5. Shape'
    BY SMTT(30), <1>1, <1>11, <2>1, <2>4 DEF Shape
  <2>6. /\ arch # "m68k" => at'[MASTER] = at'[APPRENTICE]
        /\ honest => at'[MASTER] = at'[APPRENTICE]
    BY <1>1, <1>10, <2>1, <2>3, <1>s, Zenon DEF Others
  <2>7. Others'
    BY <1>1, <1>8, <1>11, <2>1, <2>3, <2>4, <2>6, ZenonT(30) DEF Others, Alike
  <2>8. NoFalseAlarm' /\ MismatchNamed'
    BY Zenon, <2>1 DEF NoFalseAlarm, OverRead, MismatchNamed
  <2> QED  BY Zenon, <1>1, <1>3, <2>5, <2>7, <2>8 DEF RInv, OtherArchs
<1> QED  BY ZenonT(30), <1>4, <1>12, <1>13, <1>14, <1>15
=============================================================================
