--------------------------- MODULE ReginfoProofs ---------------------------
(***************************************************************************)
(* The steps of ppc64 keep the invariant RInv of ReginfoSteps, and what    *)
(* follows from it: the theorems about the checkpoints of module Reginfo.  *)
(***************************************************************************)
EXTENDS ReginfoSteps

----------------------------------------------------------------------------
\* ppc64: the steps.  What is captured and compared, and what is expected, as
\* functions of the image, the place and the registers.

LEMMA CapturedPpc64 ==
  ASSUME arch = "ppc64", NEW s
  PROVE  reginfo_init(s) = Cap(uc[s], insns(code, at[s]))
  BY Zenon DEF reginfo_init, Cap

LEMMA CapturedPpc64Next ==
  ASSUME arch' = "ppc64", NEW s
  PROVE  reginfo_init(s)' = Cap(uc'[s], insns(code', at'[s]))
<1>1. reginfo_init(s)' = reginfo_init_ppc64(uc[s], insns(code, at[s]))'
  BY Zenon DEF reginfo_init
<1> QED  BY Zenon, <1>1 DEF Cap, reginfo_init_ppc64, insns, InsnAt

LEMMA ExpectedAs ==
  ASSUME arch = "ppc64", at[MASTER] = at[APPRENTICE]
  PROVE  /\ Failing = FailOf(code, at[MASTER], uc[MASTER], uc[APPRENTICE], opt, signal_count)
         /\ \A S : CleanBut(S) <=> CleanBetween(uc[MASTER], uc[APPRENTICE], S, opt)
         /\ Expected <=>
              ExpectedOf(code, at[MASTER], uc[MASTER], uc[APPRENTICE], opt, signal_count)
<1>1. Failing = FailOf(code, at[MASTER], uc[MASTER], uc[APPRENTICE], opt, signal_count)
  BY Zenon, CapturedPpc64 DEF Failing, FailOf
<1>2. \A S : CleanBut(S) <=> CleanBetween(uc[MASTER], uc[APPRENTICE], S, opt)
  BY Zenon DEF CleanBut, CleanBetween, Differ
<1> QED  BY <1>1, <1>2, Zenon DEF Expected, ExpectedOf, LoadedClean, FpscrClean, Here

LEMMA ExpectedAsNext ==
  ASSUME arch' = "ppc64", at'[MASTER] = at'[APPRENTICE]
  PROVE  /\ Failing' = FailOf(code', at'[MASTER], uc'[MASTER], uc'[APPRENTICE], opt', signal_count')
         /\ \A S : CleanBut(S)' <=> CleanBetween(uc'[MASTER], uc'[APPRENTICE], S, opt')
         /\ Expected' <=>
              ExpectedOf(code', at'[MASTER], uc'[MASTER], uc'[APPRENTICE], opt', signal_count')
<1>1. Failing' = FailOf(code', at'[MASTER], uc'[MASTER], uc'[APPRENTICE], opt', signal_count')
  BY Zenon, CapturedPpc64Next DEF Failing, FailOf
<1>2. \A S : CleanBut(S)' <=> CleanBetween(uc'[MASTER], uc'[APPRENTICE], S, opt')
  BY Zenon DEF CleanBut, CleanBetween, Differ
<1> QED  BY <1>1, <1>2, Zenon DEF Expected, ExpectedOf, LoadedClean, FpscrClean, Here

\* Where the ppc64 image is, before any step.
LEMMA Placed ==
  ASSUME RInv, arch = "ppc64"
  PROVE  /\ Block(code, opt) \/ (DOMAIN code = {1} /\ Len(code) = 1 /\ code[1].op = "compare")
         /\ Blockwise /\ opt.gregs_mask \subseteq Range(Gpr)
         /\ opt.ccr_mask \cup opt.fpscr_mask \cup opt.bits \subseteq Bit
         /\ \A i \in DOMAIN Blocks : Block(Blocks[i], opt)
         /\ signal_count \in Nat
<1>1. Given /\ Shape /\ Blockwise
  BY Zenon DEF RInv
<1>2. Block(code, opt) \/ (DOMAIN code = {1} /\ Len(code) = 1 /\ code[1].op = "compare")
  BY Zenon, <1>1 DEF Given
<1> QED  BY Zenon, <1>1, <1>2, SetupFacts DEF Shape

LEMMA SignalStep ==
  ASSUME RInv, Signal
  PROVE  RInv'
<1>1. /\ arch = "ppc64" /\ st = "run" /\ at[MASTER] \in DOMAIN code /\ Here(MASTER).op \in Traps
      /\ st' = "trap"
      /\ UNCHANGED <<arch, opt, base, code, at, pc, uc, frame, ri, signal_count, named,
                     honest, erred, strict, raised>>
  BY Zenon DEF Signal, given, place, history
<1>2. Given /\ Shape /\ Blockwise
  BY Zenon, <1>1 DEF RInv
<1>3. Given'
  BY Zenon, <1>1, <1>2 DEF Given
<1>4. Shape'
  BY Zenon, <1>1, <1>2 DEF Shape
<1>5. Failing' = Failing /\ (Expected' <=> Expected)
  <2>1. at[MASTER] = at[APPRENTICE]
    BY Zenon, <1>2 DEF Blockwise
  <2> QED  BY Zenon, <1>1, <2>1, ExpectedAs, ExpectedAsNext
<1>6. Blockwise'
  <2>1. /\ at \in [Side -> 1 .. Len(code) + 1] /\ at[MASTER] = at[APPRENTICE]
        /\ \A s \in Side : Registers(uc[s])
        /\ base[MASTER] = base[APPRENTICE] => uc[MASTER].NIP = uc[APPRENTICE].NIP
        /\ signal_count = 0 => Len(code) = 1
        /\ Len(code) = 1 /\ at[MASTER] = 1 => signal_count = 0
        /\ honest /\ ~strict => Expected
        /\ erred => Failing # {}
    BY Zenon, <1>1, <1>2 DEF Blockwise
  <2> QED  BY <1>1, <1>5, <2>1, Zenon DEF Blockwise, Here
<1> QED  BY Zenon, <1>1, <1>3, <1>4, <1>6 DEF RInv, NoFalseAlarm, MismatchNamed

LEMMA NextBlockStep ==
  ASSUME RInv, NextBlock
  PROVE  RInv'
<1>1. /\ arch = "ppc64" /\ st = "run" /\ at[MASTER] > Len(code)
      /\ at' = [s \in Side |-> 1] /\ at'[MASTER] = 1 /\ at'[APPRENTICE] = 1
      /\ UNCHANGED <<arch, opt, base, pc, uc, frame, st, ri, signal_count, named,
                     honest, erred, raised>>
      /\ strict' = FALSE
  BY Zenon DEF NextBlock, given, history, Side, MASTER, APPRENTICE
<1>2. PICK i \in DOMAIN Blocks : code' = Blocks[i]
  BY Zenon DEF NextBlock
<1>3. Given /\ Shape /\ Blockwise
  BY Zenon, <1>1 DEF RInv
<1>4. Block(code', opt)
  BY Zenon, <1>1, <1>2, Placed
<1>5. Given'
  BY Zenon, <1>1, <1>3, <1>4 DEF Given
<1>6. Shape'
  BY Zenon, <1>1, <1>3 DEF Shape
<1>7. /\ DOMAIN code' = 1 .. Len(code') /\ Len(code') \in 2 .. 4
      /\ code'[1].op # "compare" /\ code'[1].op # "illegal"
  BY SMTT(30), <1>4, BlockFacts
<1>8. Len(code) \in Nat /\ at[MASTER] # 1 /\ at[MASTER] = Len(code) + 1
  <2>1. Len(code) \in 1 .. 4
    BY <1>1, Placed, BlockFacts
  <2>2. at[MASTER] \in 1 .. Len(code) + 1
    BY Zenon, <1>3 DEF Blockwise, Side
  <2>3. at[MASTER] > Len(code)
    BY Zenon, <1>1
  <2>4. \A l \in 1 .. 4 : \A k \in 1 .. l + 1 : k > l => l \in Nat /\ k # 1 /\ k = l + 1
    OBVIOUS
  <2> QED  BY <2>1, <2>2, <2>3, <2>4, Zenon
<1>9. signal_count > 0 /\ signal_count # 0 /\ ~erred /\ CleanBut({})
  <2>1. signal_count # 0
    BY Zenon, <1>1, <1>3, <1>8 DEF Blockwise
  <2>2. ~erred
    BY <1>1, <1>3, <1>8 DEF Blockwise
  <2>3. signal_count > 0
    BY <2>1, <1>3 DEF Shape
  <2> QED  BY Zenon, <1>1, <1>3, <1>8, <2>1, <2>2, <2>3 DEF Blockwise
<1>10. CleanBut({})'
  BY <1>1, <1>9, Zenon DEF CleanBut, Differ
<1>11. Expected'
  <2>1. CleanBetween(uc'[MASTER], uc'[APPRENTICE], {}, opt')
    BY Zenon, <1>1, <1>10, ExpectedAsNext
  <2>2. ExpectedOf(code', 1, uc'[MASTER], uc'[APPRENTICE], opt', signal_count')
    BY <1>1, <1>7, <1>9, <2>1 DEF ExpectedOf, Traps
  <2> QED  BY Zenon, <1>1, <2>2, ExpectedAsNext
<1>12. Blockwise'
  <2>1. /\ \A s \in Side : Registers(uc[s])
        /\ base[MASTER] = base[APPRENTICE] => uc[MASTER].NIP = uc[APPRENTICE].NIP
    BY Zenon, <1>3 DEF Blockwise
  <2>2. at' \in [Side -> 1 .. Len(code') + 1]
    BY <1>1, <1>7
  <2>3. Len(code') # 1
    BY <1>7
  <2> QED  BY <1>1, <1>9, <1>10, <1>11, <2>1, <2>2, <2>3, Zenon DEF Blockwise
<1> QED  BY Zenon, <1>1, <1>5, <1>6, <1>12 DEF RInv, NoFalseAlarm, MismatchNamed

\* Before an instruction that does not trap: the image is a block, a checkpoint
\* has passed and nothing is wrong yet.
LEMMA Executing ==
  ASSUME RInv, arch = "ppc64", st = "run", at[MASTER] \in DOMAIN code,
         Here(MASTER).op \notin Traps
  PROVE  /\ Block(code, opt) /\ at[MASTER] \in 1 .. Len(code) - 1
         /\ Operands(Here(MASTER)) /\ Here(MASTER).op \in Alone \cup {"la", "lscbx"}
         /\ at[APPRENTICE] = at[MASTER]
         /\ signal_count \in Nat \ {0} /\ ~erred
         /\ DOMAIN code = 1 .. Len(code) /\ Len(code) \in 2 .. 4
<1>1. Blockwise
  BY Zenon DEF RInv
<1>2. Block(code, opt)
  BY Zenon, Placed DEF Here, Traps
<1>3. /\ DOMAIN code = 1 .. Len(code) /\ Len(code) \in 2 .. 4
      /\ \A k \in 1 .. Len(code) - 1 : Operands(code[k])
      /\ \A k \in 1 .. Len(code) - 1 : code[k].op \in Alone \cup {"la", "lscbx", "illegal"}
      /\ \A k \in 1 .. Len(code) : code[k].op = "compare" <=> k = Len(code)
  BY Zenon, <1>2, BlockFacts
<1>4. code[at[MASTER]].op # "compare" /\ code[at[MASTER]].op # "illegal"
  BY Zenon DEF Here, Traps
<1>5. at[MASTER] # Len(code) /\ at[MASTER] \in 1 .. Len(code)
  BY <1>3, <1>4, Zenon
<1>6. at[MASTER] \in 1 .. Len(code) - 1
  <2>1. \A l \in 2 .. 4 : \A k \in 1 .. l : k # l => k \in 1 .. l - 1
    OBVIOUS
  <2> QED  BY <1>3, <1>5, <2>1, Zenon
<1>7. signal_count # 0 /\ ~erred /\ at[APPRENTICE] = at[MASTER]
  <2>1. Len(code) # 1
    <3>1. \A l \in 2 .. 4 : l # 1
      OBVIOUS
    <3> QED  BY <1>3, <3>1, Zenon
  <2> QED  BY Zenon, <1>1, <1>5, <2>1 DEF Blockwise
<1>8. signal_count \in Nat
  BY Zenon, Placed
<1> QED  BY <1>2, <1>3, <1>4, <1>6, <1>7, <1>8, Zenon DEF Here

\* The next place of the two sides.
LEMMA Advanced ==
  ASSUME at' = [s \in Side |-> at[s] + 1], at[APPRENTICE] = at[MASTER]
  PROVE  at'[MASTER] = at[MASTER] + 1 /\ at'[APPRENTICE] = at[MASTER] + 1
  BY Zenon DEF Side

LEMMA ExecutesStep ==
  ASSUME RInv, Executes
  PROVE  RInv'
<1> DEFINE in == Here(MASTER)
           k == at[MASTER]
           u == uc[MASTER]
           v == uc[APPRENTICE]
<1>1. /\ arch = "ppc64" /\ st = "run" /\ k \in DOMAIN code /\ in.op \notin Traps
      /\ at' = [s \in Side |-> at[s] + 1]
      /\ UNCHANGED <<arch, opt, base, code, pc, frame, st, ri, signal_count, named,
                     honest, erred, raised>>
  BY Zenon DEF Executes, given
<1>2. PICK x \in Outcome(in, u, opt), y \in Outcome(in, v, opt) :
        /\ uc' = Pair(Stepped(x), Stepped(y))
        /\ strict' = (\/ strict \/ Insisted(in, u, x, opt)
                      \/ in.op = "mtlr" /\ base[MASTER] # base[APPRENTICE])
  BY Zenon DEF Executes
<1>3. Given /\ Shape /\ Blockwise
  BY Zenon, <1>1 DEF RInv
<1>4. /\ Block(code, opt) /\ k \in 1 .. Len(code) - 1
      /\ Operands(in) /\ in.op \in Alone \cup {"la", "lscbx"}
      /\ at[APPRENTICE] = k /\ signal_count \in Nat \ {0} /\ ~erred
      /\ DOMAIN code = 1 .. Len(code) /\ Len(code) \in 2 .. 4
  BY Zenon, <1>1, Executing
<1>5. opt.ccr_mask \cup opt.fpscr_mask \cup opt.bits \subseteq Bit
  BY Zenon, <1>1, Placed
<1>6. Registers(u) /\ Registers(v)
  BY Zenon, <1>3 DEF Blockwise, Side
<1>7. Registers(x) /\ x.NIP = u.NIP /\ Registers(y) /\ y.NIP = v.NIP
  BY SMTT(30), <1>4, <1>5, <1>6, OutcomeTyped
<1>8. uc'[MASTER] = Stepped(x) /\ uc'[APPRENTICE] = Stepped(y) /\ DOMAIN uc' = Side
  BY Zenon, <1>2 DEF Pair, Side, MASTER, APPRENTICE
<1>9. at'[MASTER] = k + 1 /\ at'[APPRENTICE] = k + 1
  BY Zenon, <1>1, <1>4, Advanced
<1> HIDE DEF in, u, v
<1>10. base[MASTER] = base[APPRENTICE] => u.NIP = v.NIP
  BY Zenon, <1>3 DEF Blockwise, u, v
<1>11. Given'
  BY Zenon, <1>1, <1>3 DEF Given
<1>12. Shape'
  <2>1. strict' \in BOOLEAN
    BY <1>2, Zenon
  <2> QED  BY Zenon, <1>1, <1>3, <1>4, <1>8, <2>1 DEF Shape
<1>13. honest' /\ ~strict' => Expected'
  <2> SUFFICES ASSUME honest', ~strict' PROVE Expected'
    BY Zenon
  <2>1. /\ honest /\ ~strict /\ ~Insisted(in, u, x, opt)
        /\ in.op = "mtlr" => base[MASTER] = base[APPRENTICE]
    BY <1>1, <1>2, Zenon
  <2>2. Expected
    BY Zenon, <1>1, <1>3, <2>1 DEF Blockwise
  <2>3. ExpectedOf(code, k, u, v, opt, signal_count)
    BY Zenon, <1>1, <1>4, <2>2, ExpectedAs DEF u, v
  <2>4. in = code[k]
    BY Zenon DEF in, Here
  <2> HIDE DEF k
  <2>5. ExpectedOf(code, k + 1, Stepped(x), Stepped(y), opt, signal_count)
    BY ZenonT(30), <1>1, <1>4, <1>5, <1>6, <1>10, <2>1, <2>3, <2>4, BlockStep
  <2> QED  BY Zenon, <1>1, <1>8, <1>9, <2>5, ExpectedAsNext
<1>14. Blockwise'
  <2>1. Registers(uc'[MASTER]) /\ Registers(uc'[APPRENTICE])
    BY Zenon, <1>7, <1>8, SteppedFacts
  <2>2. base'[MASTER] = base'[APPRENTICE] => uc'[MASTER].NIP = uc'[APPRENTICE].NIP
    BY SMTT(30), <1>1, <1>7, <1>8, <1>10, SteppedFacts
  <2>3. /\ k + 1 \in 1 .. Len(code) + 1 /\ k + 1 # 1 /\ k + 1 # Len(code) + 1
        /\ Len(code) # 1 /\ signal_count # 0
    <3>1. \A l \in 2 .. 4 : \A j \in 1 .. l - 1 :
            j + 1 \in 1 .. l + 1 /\ j + 1 # 1 /\ j + 1 # l + 1 /\ l # 1
      OBVIOUS
    <3> QED  BY Zenon, <1>4, <3>1
  <2>4. at' \in [Side -> 1 .. Len(code) + 1]
    BY Zenon, <1>1, <1>9, <2>3 DEF Side
  <2>5. \A s \in Side : Registers(uc'[s])
    BY Zenon, <2>1 DEF Side
  <2> HIDE DEF k
  <2> QED  BY <1>1, <1>4, <1>9, <1>13, <2>2, <2>3, <2>4, <2>5, ZenonT(30) DEF Blockwise
<1> QED  BY Zenon, <1>1, <1>11, <1>12, <1>14 DEF RInv, NoFalseAlarm, MismatchNamed

LEMMA ExecutesWronglyStep ==
  ASSUME RInv, ExecutesWrongly
  PROVE  RInv'
<1> DEFINE in == Here(MASTER)
           k == at[MASTER]
           u == uc[MASTER]
           v == uc[APPRENTICE]
           f == Target(in)
<1>1. /\ arch = "ppc64" /\ st = "run" /\ k \in DOMAIN code /\ in.op \in Ordinary
      /\ code[k + 1].op = "compare" /\ honest' = FALSE /\ strict' = strict
      /\ at' = [s \in Side |-> at[s] + 1]
      /\ UNCHANGED <<arch, opt, base, code, pc, frame, st, ri, signal_count, named, raised>>
  BY Zenon DEF ExecutesWrongly, given
<1>2. PICK x \in Outcome(in, u, opt), y \in Outcome(in, v, opt) : \E z \in Wrong(f, y[f], opt) :
        /\ uc' = Pair(Stepped(x), Stepped(Set(y, f, z)))
        /\ erred' = (erred \/ Seen(f, x[f], z, opt, signal_count + 1, InsnAt(code, k - 1)))
  BY Zenon DEF ExecutesWrongly, Set
<1>3. PICK z \in Wrong(f, y[f], opt) :
        /\ uc' = Pair(Stepped(x), Stepped(Set(y, f, z)))
        /\ erred' = (erred \/ Seen(f, x[f], z, opt, signal_count + 1, InsnAt(code, k - 1)))
  BY Zenon, <1>2
<1>4. Given /\ Shape /\ Blockwise
  BY Zenon, <1>1 DEF RInv
<1>5. in.op \notin Traps /\ in.op \in Assigning /\ f = Dest(in)
  BY Zenon, <1>1 DEF Ordinary, Traps, Assigning, Target, Dest
<1>6. /\ Block(code, opt) /\ k \in 1 .. Len(code) - 1 /\ Operands(in)
      /\ at[APPRENTICE] = k /\ signal_count \in Nat \ {0} /\ ~erred
      /\ DOMAIN code = 1 .. Len(code) /\ Len(code) \in 2 .. 4
  BY Zenon, <1>1, <1>5, Executing
<1>7. opt.bits \subseteq Bit
  BY Zenon, <1>1, Placed
<1>8. Registers(u) /\ Registers(v)
  BY Zenon, <1>4 DEF Blockwise, Side
<1>9. /\ Registers(x) /\ x.NIP = u.NIP /\ Registers(y) /\ y.NIP = v.NIP /\ f \in Range(Fields)
  BY SMTT(30), <1>5, <1>6, <1>8, Assigns DEF AssignOutcome
<1> DEFINE t == Set(y, f, z)
<1> HIDE DEF in, u, v, f
<1>10. Registers(t) /\ t.NIP = v.NIP
  <2>1. Fit(f, z)
    BY Zenon, <1>7, <1>9, WrongFits
  <2> QED  BY <1>9, <2>1, SetField
<1>11. uc'[MASTER] = Stepped(x) /\ uc'[APPRENTICE] = Stepped(t) /\ DOMAIN uc' = Side
  BY Zenon, <1>3 DEF Pair, Side, MASTER, APPRENTICE
<1>12. at'[MASTER] = k + 1 /\ at'[APPRENTICE] = k + 1
  BY Zenon, <1>1, <1>6, Advanced
<1>13. base[MASTER] = base[APPRENTICE] => u.NIP = v.NIP
  BY Zenon, <1>4 DEF Blockwise, u, v
<1>14. /\ k + 1 \in 1 .. Len(code) + 1 /\ k + 1 # 1 /\ k + 1 # Len(code) + 1
       /\ Len(code) # 1 /\ signal_count # 0 /\ k + 1 = Len(code)
  <2>1. \A l \in 2 .. 4 : \A j \in 1 .. l - 1 :
          j + 1 \in 1 .. l + 1 /\ j + 1 # 1 /\ j + 1 # l + 1 /\ l # 1 /\ j + 1 \in 1 .. l
    OBVIOUS
  <2>2. k + 1 \in 1 .. Len(code)
    BY Zenon, <1>6, <2>1
  <2>3. k + 1 = Len(code)
    BY Zenon, <1>1, <1>6, <2>2, BlockFacts
  <2> QED  BY Zenon, <1>6, <2>1, <2>3
<1>15. erred' \in BOOLEAN /\ (erred' => Seen(f, x[f], z, opt, signal_count + 1, InsnAt(code, k - 1)))
  BY <1>3, <1>6, Zenon
<1>16. erred' => Failing' # {}
  <2> SUFFICES ASSUME erred' PROVE Failing' # {}
    BY Zenon
  <2> DEFINE w == insns(code, k + 1)
  <2>1. w.prev = in /\ w.faulting.op = "compare"
    BY <1>1, <1>6, WinFacts, ZenonT(30) DEF in, Here
  <2>2. w.second_prev = InsnAt(code, k - 1)
    <3>1. (k + 1) - 2 = k - 1
      <4>1. \A l \in 2 .. 4 : \A j \in 1 .. l - 1 : (j + 1) - 2 = j - 1
        OBVIOUS
      <4> QED  BY Zenon, <1>6, <4>1
    <3> QED  BY Zenon, <3>1 DEF insns
  <2>3. signal_count + 1 \in Nat /\ signal_count + 1 > 1
    BY <1>6
  <2>4. Seen(f, x[f], z, opt, signal_count + 1, w.second_prev)
    BY Zenon, <1>15, <2>2
  <2> HIDE DEF w
  <2>5. Fails(Cap(Stepped(x), w), Cap(Stepped(t), w), opt, signal_count + 1) # {}
    BY <1>1, <1>6, <1>7, <1>8, <2>1, <2>3, <2>4, WrongFails, ZenonT(30) DEF f
  <2>6. FailOf(code, k + 1, Stepped(x), Stepped(t), opt, signal_count) # {}
    BY Zenon, <2>5 DEF FailOf, w
  <2> QED  BY Zenon, <1>1, <1>11, <1>12, <2>6, ExpectedAsNext
<1>17. Given'
  BY Zenon, <1>1, <1>4 DEF Given
<1>18. Shape'
  BY <1>1, <1>4, <1>11, <1>15, Zenon DEF Shape
<1>19. Blockwise'
  <2>1. Registers(uc'[MASTER]) /\ Registers(uc'[APPRENTICE])
    BY Zenon, <1>9, <1>10, <1>11, SteppedFacts
  <2>2. base'[MASTER] = base'[APPRENTICE] => uc'[MASTER].NIP = uc'[APPRENTICE].NIP
    BY SMTT(30), <1>1, <1>9, <1>10, <1>11, <1>13, SteppedFacts
  <2>3. at' \in [Side -> 1 .. Len(code) + 1]
    BY Zenon, <1>1, <1>12, <1>14 DEF Side
  <2>4. \A s \in Side : Registers(uc'[s])
    BY Zenon, <2>1 DEF Side
  <2> HIDE DEF k
  <2> QED  BY <1>1, <1>12, <1>14, <1>16, <2>2, <2>3, <2>4, ZenonT(30) DEF Blockwise
<1> QED  BY Zenon, <1>1, <1>17, <1>18, <1>19 DEF RInv, NoFalseAlarm, MismatchNamed

\* A checkpoint on ppc64: what the comparison looks at.
LEMMA AtTrap ==
  ASSUME RInv, Checkpoint, arch = "ppc64"
  PROVE  /\ st = "trap" /\ at[MASTER] \in DOMAIN code /\ Here(MASTER).op \in Traps
         /\ Here(APPRENTICE) = Here(MASTER) /\ at[APPRENTICE] = at[MASTER]
         /\ Registers(uc[MASTER]) /\ Registers(uc[APPRENTICE])
         /\ base[MASTER] = base[APPRENTICE] => uc[MASTER].NIP = uc[APPRENTICE].NIP
         /\ insns(code, at[MASTER]).faulting = Here(MASTER)
         /\ honest /\ ~strict => Expected
         /\ LET w == insns(code, at[MASTER])
                m == Cap(uc[MASTER], w)
                a == Cap(uc[APPRENTICE], w)
            IN /\ Failing = Fails(m, a, opt, signal_count + 1)
               /\ reginfo_is_eq(m, a) <=> Failing = {}
               /\ Mismatch(m, a) \/ OpMismatch(m, a) \/ TestEnd(m, a) \/ Resume(m, a)
         /\ signal_count' = signal_count + 1 /\ signal_count \in Nat
         /\ UNCHANGED <<arch, opt, base, code, frame, honest, erred, strict>>
<1> DEFINE w == insns(code, at[MASTER])
           m == Cap(uc[MASTER], w)
           a == Cap(uc[APPRENTICE], w)
<1>1. /\ st = "trap" /\ signal_count' = signal_count + 1
      /\ UNCHANGED <<arch, opt, base, code, frame, honest, erred, strict>>
      /\ \E mm \in {reginfo_init(MASTER)}, aa \in {reginfo_init(APPRENTICE)} :
           Mismatch(mm, aa) \/ OpMismatch(mm, aa) \/ TestEnd(mm, aa) \/ Resume(mm, aa)
  BY Zenon DEF Checkpoint, given
<1>2. Blockwise /\ Shape
  BY Zenon DEF RInv
<1>3. /\ at[MASTER] \in DOMAIN code /\ Here(MASTER).op \in Traps /\ at[APPRENTICE] = at[MASTER]
      /\ Registers(uc[MASTER]) /\ Registers(uc[APPRENTICE])
      /\ base[MASTER] = base[APPRENTICE] => uc[MASTER].NIP = uc[APPRENTICE].NIP
      /\ honest /\ ~strict => Expected
  BY <1>1, <1>2, Zenon DEF Blockwise, Side
<1>4. reginfo_init(MASTER) = m /\ reginfo_init(APPRENTICE) = a
  BY Zenon, <1>3, CapturedPpc64
<1>5. Mismatch(m, a) \/ OpMismatch(m, a) \/ TestEnd(m, a) \/ Resume(m, a)
  BY <1>1, <1>4, Zenon
<1>6. Failing = Fails(m, a, opt, signal_count + 1)
  BY Zenon, <1>4 DEF Failing
<1>7. reginfo_is_eq(m, a) <=> Failing = {}
  <2> HIDE DEF m, a
  <2>1. reginfo_is_eq(m, a) = reginfo_is_eq_ppc64(m, a, opt, signal_count + 1)
    BY Zenon DEF reginfo_is_eq
  <2> QED  BY <1>6, <2>1, Zenon DEF reginfo_is_eq_ppc64
<1>8. w.faulting = Here(MASTER) /\ Here(APPRENTICE) = Here(MASTER)
  BY Zenon, <1>3 DEF insns, InsnAt, Here
<1> HIDE DEF m, a, w
<1> QED  BY <1>1, <1>2, <1>3, <1>5, <1>6, <1>7, <1>8, ZenonT(30) DEF m, a, w, Shape

LEMMA PpcMismatchStep ==
  ASSUME RInv, Checkpoint, arch = "ppc64", NEW w, w = insns(code, at[MASTER]),
         Mismatch(Cap(uc[MASTER], w), Cap(uc[APPRENTICE], w))
  PROVE  RInv'
<1> DEFINE u == uc[MASTER]
           v == uc[APPRENTICE]
           m == Cap(u, w)
           a == Cap(v, w)
           b == Copied(m, a, opt, signal_count + 1)
<1>1. /\ st = "trap" /\ at[APPRENTICE] = at[MASTER] /\ at[MASTER] \in DOMAIN code
      /\ Here(MASTER).op \in Traps /\ Registers(u) /\ Registers(v)
      /\ base[MASTER] = base[APPRENTICE] => u.NIP = v.NIP
      /\ honest /\ ~strict => Expected
      /\ Failing = Fails(m, a, opt, signal_count + 1) /\ (reginfo_is_eq(m, a) <=> Failing = {})
      /\ signal_count' = signal_count + 1 /\ signal_count \in Nat
      /\ UNCHANGED <<arch, opt, base, code, frame, honest, erred, strict>>
  BY AtTrap, Zenon
<1>2. /\ ~reginfo_is_eq(m, a) /\ ri' = Pair(m, b) /\ named' = reginfo_dump_mismatch(m, b)
      /\ st' = "mismatch" /\ uc' = Cleared /\ at' = at
  BY Zenon DEF Mismatch
<1>3. Failing # {} /\ (~honest \/ strict)
  BY <1>1, <1>2, Zenon DEF Expected
<1>4. named' = dump_mismatch_ppc64(m, b, opt)
  <2> HIDE DEF m, b
  <2> QED  BY <1>2, Zenon DEF reginfo_dump_mismatch
<1>5. uc'[MASTER] = u /\ uc'[APPRENTICE] = v /\ DOMAIN uc' = Side
  <2>1. Cleared = [s \in Side |-> uc[s]]
    BY Zenon DEF Cleared
  <2> QED  BY Zenon, <1>2, <2>1 DEF Side
<1>6. ri'[MASTER] = m /\ ri'[APPRENTICE] = b
  <2> HIDE DEF m, b
  <2> QED  BY Zenon, <1>2 DEF Pair, Side, MASTER, APPRENTICE
<1>7. Given /\ Shape /\ Blockwise
  BY Zenon DEF RInv
<1>8. Given'
  BY Zenon, <1>1, <1>7 DEF Given
<1>9. Shape'
  BY SMTT(30), <1>1, <1>2, <1>5, <1>7 DEF Shape
<1>10. Blockwise'
  <2>1. \A s \in Side : Registers(uc'[s])
    BY <1>1, <1>5, ZenonT(30) DEF Side
  <2>2. signal_count' # 0
    BY <1>1
  <2>3. at' \in [Side -> 1 .. Len(code') + 1] /\ at'[MASTER] = at'[APPRENTICE]
    BY <1>1, <1>2, <1>7, Zenon DEF Blockwise
  <2>4. base'[MASTER] = base'[APPRENTICE] => uc'[MASTER].NIP = uc'[APPRENTICE].NIP
    BY <1>1, <1>5, Zenon
  <2> HIDE DEF u, v
  <2> QED  BY <1>1, <1>2, <2>1, <2>2, <2>3, <2>4, ZenonT(30) DEF Blockwise
<1>11. MismatchNamed'
  <2> DEFINE d == {f \in DOMAIN m \ {"insns", "NIP"} :
                     IF f = "LNK" THEN Differs(m, b, f) ELSE m[f] # b[f]}
  <2>1. named' \subseteq d /\ named' # {}
    <3> HIDE DEF u, v
    <3>1. Fails(Cap(u, w), Cap(v, w), opt, signal_count + 1) # {}
      BY Zenon, <1>1, <1>3
    <3>2. Registers(u) /\ Registers(v)
      BY <1>1, ZenonT(30)
    <3>3. LET mm == Cap(u, w)
              bb == Copied(mm, Cap(v, w), opt, signal_count + 1)
              named_now == dump_mismatch_ppc64(mm, bb, opt)
              dd == {f \in DOMAIN mm \ {"insns", "NIP"} :
                       IF f = "LNK" THEN Differs(mm, bb, f) ELSE mm[f] # bb[f]}
          IN named_now \subseteq dd /\ named_now # {}
      BY SMTT(30), <3>1, <3>2, DumpExplainsPpc64
    <3> QED  BY <1>4, <3>3, Zenon
  <2> HIDE DEF m, b
  <2> QED  BY <1>6, <2>1, Zenon DEF MismatchNamed
<1> QED  BY Zenon, <1>1, <1>3, <1>8, <1>9, <1>10, <1>11 DEF RInv, NoFalseAlarm

LEMMA PpcResumeStep ==
  ASSUME RInv, Checkpoint, arch = "ppc64", NEW w, w = insns(code, at[MASTER]),
         Resume(Cap(uc[MASTER], w), Cap(uc[APPRENTICE], w))
  PROVE  RInv'
<1> DEFINE u == uc[MASTER]
           v == uc[APPRENTICE]
           m == Cap(u, w)
           a == Cap(v, w)
           k == at[MASTER]
<1>1. /\ st = "trap" /\ at[APPRENTICE] = k /\ k \in DOMAIN code
      /\ Here(MASTER).op \in Traps /\ Here(APPRENTICE) = Here(MASTER)
      /\ Registers(u) /\ Registers(v) /\ w.faulting = Here(MASTER)
      /\ base[MASTER] = base[APPRENTICE] => u.NIP = v.NIP
      /\ honest /\ ~strict => Expected
      /\ Failing = Fails(m, a, opt, signal_count + 1) /\ (reginfo_is_eq(m, a) <=> Failing = {})
      /\ signal_count' = signal_count + 1 /\ signal_count \in Nat
      /\ UNCHANGED <<arch, opt, base, code, frame, honest, erred, strict>>
  BY AtTrap, Zenon
<1>2. /\ reginfo_is_eq(m, a) /\ uc' = [s \in Side |-> reginfo_update(s, m)]
      /\ at' = [s \in Side |-> at[s] + 1] /\ st' = "run"
  BY Zenon DEF Resume
<1>3. Given /\ Shape /\ Blockwise
  BY Zenon DEF RInv
<1>4. Failing = {} /\ ~erred
  BY Zenon, <1>1, <1>2, <1>3 DEF Blockwise
<1>5. at'[MASTER] = k + 1 /\ at'[APPRENTICE] = k + 1
  BY Zenon, <1>1, <1>2, Advanced
<1>6. /\ uc'[MASTER] = Stepped(u) /\ DOMAIN uc' = Side
      /\ uc'[APPRENTICE] = IF Here(MASTER).op = "compare"
                           THEN Stepped(reginfo_update_ppc64(v, m, opt)) ELSE Stepped(v)
  <2> HIDE DEF m
  <2>1. /\ uc'[MASTER] = reginfo_update(MASTER, m) /\ DOMAIN uc' = Side
        /\ uc'[APPRENTICE] = reginfo_update(APPRENTICE, m)
    BY Zenon, <1>2 DEF Side
  <2>2. reginfo_update(MASTER, m) = Stepped(u)
    BY Zenon DEF reginfo_update, MASTER, APPRENTICE
  <2>3. reginfo_update(APPRENTICE, m) = IF Here(MASTER).op = "compare"
                           THEN Stepped(reginfo_update_ppc64(v, m, opt)) ELSE Stepped(v)
    BY Zenon, <1>1 DEF reginfo_update
  <2> QED  BY Zenon, <2>1, <2>2, <2>3
<1>7. Given'
  BY Zenon, <1>1, <1>3 DEF Given
<1>8. Shape'
  <2>1. /\ signal_count' = signal_count + 1 /\ st' = "run" /\ DOMAIN uc' = Side
        /\ UNCHANGED <<arch, frame, honest, erred, strict>>
    BY <1>1, <1>2, <1>6, Zenon
  <2> HIDE DEF u, v, m, a, k
  <2> QED  BY <1>3, <2>1 DEF Shape
<1>9. signal_count' \in Nat \ {0} /\ signal_count' # 0 /\ signal_count' > 0
  <2>1. signal_count' = signal_count + 1 /\ signal_count \in Nat
    BY <1>1, Zenon
  <2> QED  BY <2>1
<1>10. Len(code) \in 1 .. 4 /\ DOMAIN code = 1 .. Len(code)
  <2>1. CASE Block(code, opt)
    <3>1. \A l \in 2 .. 4 : l \in 1 .. 4
      OBVIOUS
    <3> QED  BY Zenon, <2>1, <3>1, BlockFacts
  <2>2. CASE DOMAIN code = {1} /\ Len(code) = 1 /\ code[1].op = "compare"
    <3>1. 1 .. 1 = {1} /\ 1 \in 1 .. 4
      OBVIOUS
    <3> QED  BY Zenon, <2>2, <3>1
  <2> QED  BY Zenon, <2>1, <2>2, Placed
<1>11. k + 1 \in 1 .. Len(code) + 1 /\ k + 1 # 1
  <2>1. \A l \in 1 .. 4 : \A j \in 1 .. l : j + 1 \in 1 .. l + 1 /\ j + 1 # 1
    BY SMTT(30)
  <2> QED  BY Zenon, <1>1, <1>10, <2>1
<1>12. at' \in [Side -> 1 .. Len(code') + 1]
  BY Zenon, <1>1, <1>2, <1>11 DEF Side
<1>13. CASE Here(MASTER).op = "compare"
  <2> DEFINE y == reginfo_update_ppc64(v, m, opt)
  <2>1. Registers(y) /\ y.NIP = v.NIP /\ CleanBetween(u, y, {}, opt)
    <3>1. opt.gregs_mask \subseteq Range(Gpr)
      BY Zenon, Placed
    <3>2. Fails(Cap(u, w), Cap(v, w), opt, signal_count + 1) = {}
      BY Zenon, <1>1, <1>4
    <3>3. w.faulting.op = "compare"
      BY Zenon, <1>1, <1>13
    <3> HIDE DEF u, v
    <3> QED  BY SMTT(30), <1>1, <3>1, <3>2, <3>3, UpdateHeals
  <2>2. uc'[APPRENTICE] = Stepped(y)
    BY Zenon, <1>6, <1>13
  <2> HIDE DEF y, u, v, m, a
  <2>3. CleanBetween(Stepped(u), Stepped(y), {}, opt)
    BY <1>1, <2>1, SteppedClean, Zenon DEF CleanBetween
  <2>4. CleanBut({})'
    BY <1>1, <1>5, <1>6, <2>2, <2>3, ExpectedAsNext, ZenonT(30)
  <2>5. k = Len(code) /\ (code[1].op \in {"lscbx", "fadd"} => k + 1 # 2)
          /\ (code[1].op = "la" => k + 1 \notin {2, 3}) /\ k + 1 \notin DOMAIN code
    <3>1. CASE Block(code, opt)
      <4>1. /\ k = Len(code) /\ Len(code) \in 2 .. 4
            /\ code[1].op = "lscbx" => Len(code) = 3
            /\ code[1].op = "la" => Len(code) = 4
            /\ code[1].op = "fadd" => Len(code) \in {2, 3}
        BY <1>1, <1>10, <1>13, <3>1, BlockFacts, ZenonT(30) DEF Here
      <4>2. \A l \in 2 .. 4 : l + 1 # 2 /\ (l = 4 => l + 1 \notin {2, 3}) /\ l + 1 \notin 1 .. l
        OBVIOUS
      <4> QED  BY <1>10, <4>1, <4>2, Zenon
    <3>2. CASE DOMAIN code = {1} /\ Len(code) = 1 /\ code[1].op = "compare"
      <4>1. k = 1
        BY Zenon, <1>1, <3>2
      <4> QED  BY SMTT(30), <3>2, <4>1
    <3> QED  BY Zenon, <3>1, <3>2, Placed
  <2>6. Expected'
    <3>1. ExpectedOf(code, k + 1, Stepped(u), Stepped(y), opt, signal_count')
      BY Zenon, <1>11, <2>5 DEF ExpectedOf
    <3> QED  BY <1>1, <1>5, <1>6, <2>2, <3>1, ExpectedAsNext, ZenonT(30)
  <2>7. Registers(uc'[MASTER]) /\ Registers(uc'[APPRENTICE])
    BY ZenonT(30), <1>1, <1>6, <2>1, <2>2, SteppedFacts
  <2>8. base'[MASTER] = base'[APPRENTICE] => uc'[MASTER].NIP = uc'[APPRENTICE].NIP
    BY SMTT(30), <1>1, <1>6, <2>1, <2>2, SteppedFacts
  <2>9. \A s \in Side : Registers(uc'[s])
    BY Zenon, <2>7 DEF Side
  <2>10. ~erred' /\ st' = "run" /\ at'[MASTER] = at'[APPRENTICE] /\ at'[MASTER] # 1
    BY Zenon, <1>1, <1>2, <1>4, <1>5, <1>11
  <2>11. Blockwise'
    BY <1>9, <1>12, <2>4, <2>6, <2>8, <2>9, <2>10, ZenonT(30) DEF Blockwise
  <2> QED  BY ZenonT(30), <1>1, <1>7, <1>8, <2>10, <2>11 DEF RInv, NoFalseAlarm, MismatchNamed
<1>14. CASE Here(MASTER).op = "illegal"
  <2>1. Block(code, opt)
    <3>1. code[1].op = "illegal" \/ ~(DOMAIN code = {1})
      BY Zenon, <1>1, <1>14 DEF Here
    <3> QED  BY Zenon, <3>1, Placed
  <2>2. k = 2 /\ Len(code) = 4 /\ code[1].op = "la" /\ code[3].op = "addi"
    BY <1>1, <1>10, <1>14, <2>1, BlockFacts, ZenonT(30) DEF Here
  <2>3. uc'[APPRENTICE] = Stepped(v)
    BY Zenon, <1>6, <1>14
  <2> HIDE DEF u, v, m, a
  <2>4. honest' /\ ~strict' => Expected'
    <3> SUFFICES ASSUME honest', ~strict' PROVE Expected'
      BY Zenon
    <3>1. Expected
      BY Zenon, <1>1
    <3>2. ExpectedOf(code, k, u, v, opt, signal_count)
      BY Zenon, <1>1, <3>1, ExpectedAs DEF u, v
    <3>3. CleanBetween(u, v, {gpr(code[1].rt)}, opt)
      BY Zenon, <2>2, <3>2 DEF ExpectedOf
    <3>4. CleanBetween(Stepped(u), Stepped(v), {gpr(code[1].rt)}, opt)
      BY <1>1, <3>3, SteppedClean, ZenonT(30) DEF CleanBetween
    <3>5. ExpectedOf(code, 3, Stepped(u), Stepped(v), opt, signal_count')
      BY Zenon, <2>2, <3>4 DEF ExpectedOf, Traps
    <3>6. k + 1 = 3
      BY SMTT(30), <2>2
    <3> QED  BY <1>1, <1>5, <1>6, <2>3, <3>5, <3>6, ExpectedAsNext, ZenonT(30)
  <2>5. Registers(uc'[MASTER]) /\ Registers(uc'[APPRENTICE])
    BY ZenonT(30), <1>1, <1>6, <2>3, SteppedFacts
  <2>6. base'[MASTER] = base'[APPRENTICE] => uc'[MASTER].NIP = uc'[APPRENTICE].NIP
    BY SMTT(30), <1>1, <1>6, <2>3, SteppedFacts
  <2>7. \A s \in Side : Registers(uc'[s])
    BY Zenon, <2>5 DEF Side
  <2>8. /\ ~erred' /\ st' = "run" /\ at'[MASTER] = at'[APPRENTICE]
        /\ at'[MASTER] # 1 /\ at'[MASTER] # Len(code') + 1
    <3>1. k + 1 # Len(code) + 1
      BY <2>2
    <3> QED  BY ZenonT(30), <1>1, <1>2, <1>4, <1>5, <1>11, <3>1
  <2>9. Blockwise'
    BY <1>9, <1>12, <2>4, <2>6, <2>7, <2>8, ZenonT(30) DEF Blockwise
  <2> QED  BY ZenonT(30), <1>1, <1>7, <1>8, <2>8, <2>9 DEF RInv, NoFalseAlarm, MismatchNamed
<1> QED  BY <1>1, <1>13, <1>14, Zenon DEF Traps

LEMMA PpcCheckpointStep ==
  ASSUME RInv, Checkpoint, arch = "ppc64"
  PROVE  RInv'
<1> DEFINE w == insns(code, at[MASTER])
           m == Cap(uc[MASTER], w)
           a == Cap(uc[APPRENTICE], w)
<1>1. Mismatch(m, a) \/ OpMismatch(m, a) \/ TestEnd(m, a) \/ Resume(m, a)
  BY AtTrap, Zenon
<1>2. ~OpMismatch(m, a)
  BY AtTrap, Zenon DEF OpMismatch
<1>3. ~TestEnd(m, a)
  BY AtTrap, Zenon DEF TestEnd, Traps
<1>4. CASE Mismatch(m, a)
  BY Zenon, <1>4, PpcMismatchStep
<1>5. CASE Resume(m, a)
  BY Zenon, <1>5, PpcResumeStep
<1> QED  BY Zenon, <1>1, <1>2, <1>3, <1>4, <1>5

----------------------------------------------------------------------------
\* The invariant and what follows from it.

LEMMA InitRInv ==
  ASSUME Init
  PROVE  RInv
<1>1. PICK u \in Setups : /\ arch = u.arch /\ opt = u.opt /\ base = u.base /\ code = u.code
                          /\ uc = u.uc /\ pc = u.base
  BY Zenon DEF Init
<1>2. /\ frame \in [Side -> FramesOf(arch)] /\ at = [s \in Side |-> 1]
      /\ st = "run" /\ signal_count = 0 /\ named = {}
      /\ honest = Alike(frame[MASTER], frame[APPRENTICE])
      /\ erred = FALSE /\ strict = FALSE /\ raised = 0
  BY Zenon DEF Init
<1>3. /\ u.arch \in Archs /\ u.base \in [Side -> Int]
      /\ IF u.arch = "ppc64" THEN Begins_ppc64(u) ELSE Begins(u)
  BY Zenon, SetupsAssumption
<1>4. at[MASTER] = 1 /\ at[APPRENTICE] = 1
  BY Zenon, <1>2 DEF Side
<1>5. honest \in BOOLEAN /\ (honest => Alike(frame[MASTER], frame[APPRENTICE]))
  BY <1>2, Zenon DEF Alike
<1>6. CASE arch = "ppc64"
  <2>1. /\ DOMAIN code = {1} /\ Len(code) = 1 /\ code[1].op = "compare"
        /\ DOMAIN uc = Side /\ \A s \in Side : Registers(uc[s])
        /\ \A f \in Range(Gpr) \cup Special :
             Differs(uc[MASTER], uc[APPRENTICE], f) => f = "MQ" \/ Unseen(f, opt)
        /\ base[MASTER] = base[APPRENTICE] => uc[MASTER].NIP = uc[APPRENTICE].NIP
    BY Zenon, <1>1, <1>3, <1>6 DEF Begins_ppc64
  <2>2. Given
    BY <1>1, <1>6, <2>1, Zenon DEF Given
  <2>3. Shape
    BY <1>2, <1>5, <2>1, Zenon DEF Shape
  <2>4. CleanBetween(uc[MASTER], uc[APPRENTICE], {"MQ"}, opt)
    BY Zenon, <2>1, FieldFacts DEF CleanBetween
  <2>5. Expected
    <3>1. Registers(uc[MASTER]) /\ Registers(uc[APPRENTICE])
      BY Zenon, <2>1 DEF Side
    <3>2. 0 + 1 \in Nat /\ 0 + 1 <= 1
      OBVIOUS
    <3>3. FailOf(code, 1, uc[MASTER], uc[APPRENTICE], opt, 0) = {}
      BY Zenon, <2>4, <3>1, <3>2, CleanAccepted DEF FailOf
    <3>4. ExpectedOf(code, 1, uc[MASTER], uc[APPRENTICE], opt, 0)
      BY Zenon, <2>1, <2>4, <3>3 DEF ExpectedOf
    <3> QED  BY Zenon, <1>2, <1>4, <1>6, <3>4, ExpectedAs
  <2>6. at \in [Side -> 1 .. Len(code) + 1]
    BY <1>2, <2>1
  <2>7. Blockwise
    <3>1. ~(signal_count > 0)
      BY <1>2
    <3> QED  BY <1>2, <1>4, <2>1, <2>5, <2>6, <3>1, ZenonT(30) DEF Blockwise
  <2> QED  BY ZenonT(30), <1>2, <1>6, <2>2, <2>3, <2>7 DEF RInv, NoFalseAlarm, MismatchNamed
<1>7. CASE arch # "ppc64"
  <2>1. /\ Image_of(arch, code) /\ DOMAIN uc = Side /\ uc[MASTER] = uc[APPRENTICE]
        /\ arch = "arm" => "exc" \in DOMAIN uc[MASTER] /\ uc[MASTER].exc = 0
    BY Zenon, <1>1, <1>3, <1>7 DEF Begins
  <2>2. Given
    BY Zenon, <1>1, <1>7 DEF Given
  <2>3. Shape
    BY <1>2, <1>5, <2>1, Zenon DEF Shape
  <2>4. /\ Len(code) \in Nat \ {0} /\ DOMAIN code = 1 .. Len(code) /\ code[1].start = 0
    BY Zenon, <2>1 DEF Image_of
  <2>5. at \in [Side -> DOMAIN code]
    BY <1>2, <2>4
  <2>6. pc = [s \in Side |-> base[s] + code[at[s]].start]
    <3>1. \A s \in Side : base[s] \in Int /\ at[s] = 1
      BY Zenon, <1>1, <1>2, <1>3
    <3>2. \A s \in Side : base[s] + code[at[s]].start = base[s]
      BY <2>4, <3>1
    <3>3. pc = [s \in Side |-> base[s]]
      BY Zenon, <1>1, <1>3
    <3> QED  BY Zenon, <3>2, <3>3
  <2>7. Others
    BY ZenonT(30), <1>2, <1>4, <1>5, <2>1, <2>5, <2>6 DEF Others
  <2> QED  BY Zenon, <1>2, <1>7, <2>2, <2>3, <2>7 DEF RInv, NoFalseAlarm, MismatchNamed
<1> QED  BY Zenon, <1>6, <1>7

LEMMA StutterRInv ==
  ASSUME RInv, UNCHANGED vars
  PROVE  RInv'
<1>1. UNCHANGED <<arch, opt, base, code, at, pc, uc, frame, st, ri, signal_count, named,
                  honest, erred, strict, raised>>
  BY Zenon DEF vars, given, place, history
<1>2. reginfo_init(MASTER)' = reginfo_init(MASTER)
      /\ reginfo_init(APPRENTICE)' = reginfo_init(APPRENTICE)
  BY <1>1, Zenon DEF reginfo_init, Here, reginfo_init_ppc64, insns, InsnAt
<1>3. reginfo_is_eq(reginfo_init(MASTER), reginfo_init(APPRENTICE))'
        <=> reginfo_is_eq(reginfo_init(MASTER), reginfo_init(APPRENTICE))
  BY <1>1, <1>2, Zenon DEF reginfo_is_eq
<1>4. Failing' = Failing
  BY Zenon, <1>1, <1>2 DEF Failing
<1>5. Given' /\ Shape'
  BY Zenon, <1>1 DEF RInv, Given, Shape
<1>6. NoFalseAlarm' /\ MismatchNamed'
  BY Zenon, <1>1 DEF RInv, NoFalseAlarm, OverRead, MismatchNamed
<1>7. CASE arch = "ppc64"
  <2>1. Blockwise
    BY Zenon, <1>7 DEF RInv
  <2>2. Expected' <=> Expected
    BY <1>1, <1>4, Zenon DEF Expected, CleanBut, Differ, Here
  <2>3. Blockwise'
    BY <1>1, <1>4, <2>1, <2>2, Zenon DEF Blockwise, CleanBut, Differ, Here
  <2> QED  BY ZenonT(30), <1>1, <1>5, <1>6, <1>7, <2>3 DEF RInv
<1>8. CASE arch # "ppc64"
  <2>1. Others
    BY Zenon, <1>8 DEF RInv
  <2>2. Others'
    BY <1>1, <1>3, <2>1, Zenon DEF Others, Alike
  <2> QED  BY Zenon, <1>1, <1>5, <1>6, <1>8, <2>2 DEF RInv
<1> QED  BY Zenon, <1>7, <1>8

\* The invariant holds in every state of every run.
THEOREM Invariant == Spec => []RInv
<1>1. Init => RInv
  BY Zenon, InitRInv
<1>2. RInv /\ [Next]_vars => RInv'
  <2> SUFFICES ASSUME RInv, [Next]_vars PROVE RInv'
    BY Zenon
  <2>1. CASE Run
    BY Zenon, <2>1, RunStep
  <2>2. CASE NextBlock
    BY SMTT(30), <2>2, NextBlockStep
  <2>3. CASE Executes
    BY Zenon, <2>3, ExecutesStep
  <2>4. CASE ExecutesWrongly
    BY Zenon, <2>4, ExecutesWronglyStep
  <2>5. CASE Signal
    BY Zenon, <2>5, SignalStep
  <2>6. CASE Checkpoint
    BY Zenon, <2>6, CheckpointStep, PpcCheckpointStep
  <2>7. CASE UNCHANGED vars
    BY Zenon, <2>7, StutterRInv
  <2> QED  BY ZenonT(30), <2>1, <2>2, <2>3, <2>4, <2>5, <2>6, <2>7 DEF Next
<1> QED  BY <1>1, <1>2, PTL DEF Spec

\* Whatever blocks, images and contexts, two right implementations are reported
\* only where the comparison insists on a result the architecture leaves open (a
\* division judged by the MQ it has left, MQ and CR0 behind divs, mtlr with the
\* image at two addresses) or has read behind a loongarch64 context: every other
\* open result, and every address of the image, is tolerated by the
\* reginfo_is_eq behind it.
THEOREM NeverAFalseAlarm == Spec => []NoFalseAlarm
<1>1. RInv => NoFalseAlarm
  BY Zenon DEF RInv
<1> QED  BY <1>1, Invariant, PTL

\* An error in a register that both contexts hold, other than those of Missed,
\* is at the next checkpoint or has been reported, whatever the image and the
\* layout of the contexts.
THEOREM NothingIsMissed == Spec => []NothingEscapes
<1>1. RInv => NothingEscapes
  <2> SUFFICES ASSUME RInv, erred
               PROVE  st \in {"trap", "mismatch"} \/ (arch = "ppc64" /\ at[MASTER] = Len(code))
    BY Zenon DEF NothingEscapes
  <2>1. CASE arch = "ppc64"
    BY Zenon, <2>1 DEF RInv, Blockwise
  <2>2. CASE arch # "ppc64"
    BY Zenon, <2>2 DEF RInv, Others
  <2> QED  BY Zenon, <2>1, <2>2
<1> QED  BY <1>1, Invariant, PTL

\* Behind an accepted OP_COMPARE on ppc64 the apprentice goes on with the
\* master's registers: reginfo_update leaves no difference a later comparison
\* could see.
THEOREM AlwaysHealed == Spec => []Healed
<1>1. RInv => Healed
  <2> SUFFICES ASSUME RInv, arch = "ppc64", st = "run", signal_count > 0, at[MASTER] > Len(code)
               PROVE  \A f \in Range(Fields) :
                        Differ(f) => f \in Range(Gpr) \ opt.gregs_mask
                                       \/ (f = "vrregs" /\ ~opt.vrregs_mask)
    BY Zenon DEF Healed
  <2>1. Blockwise
    BY Zenon DEF RInv
  <2>2. at[MASTER] = Len(code) + 1
    <3>1. Len(code) \in 1 .. 4
      <4>1. \A l \in 2 .. 4 : l \in 1 .. 4
        OBVIOUS
      <4> QED  BY SMTT(30), <4>1, Placed, BlockFacts
    <3>2. at[MASTER] \in 1 .. Len(code) + 1
      BY Zenon, <2>1 DEF Blockwise, Side
    <3>3. \A l \in 1 .. 4 : \A k \in 1 .. l + 1 : k > l => k = l + 1
      OBVIOUS
    <3> QED  BY Zenon, <3>1, <3>2, <3>3
  <2>3. CleanBut({})
    BY Zenon, <2>1, <2>2 DEF Blockwise
  <2> QED  BY <2>3, Zenon DEF CleanBut, Unseen
<1> QED  BY <1>1, Invariant, PTL

\* What reginfo_dump_mismatch prints differs, and it prints something, but for
\* aarch64's fault address.
THEOREM MismatchesAreNamed == Spec => []MismatchNamed
<1>1. RInv => MismatchNamed
  BY Zenon DEF RInv
<1> QED  BY <1>1, Invariant, PTL

\* advance_pc, on top of what the kernel does to the program counter, leads
\* to the instruction behind the one that trapped.
THEOREM AlwaysResumes == Spec => Resumes
<1>1. RInv /\ [Next]_vars =>
        [arch # "ppc64" /\ st = "trap" /\ st' = "run" => \A s \in Side : at'[s] = at[s] + 1]_vars
  <2> SUFFICES ASSUME RInv, Next, arch # "ppc64", st = "trap", st' = "run", NEW s \in Side
               PROVE  at'[s] = at[s] + 1
    BY Zenon
  <2>1. Checkpoint
    BY Zenon DEF Next, Run, NextBlock, Executes, ExecutesWrongly, Signal
  <2>2. PICK m, a : Resume(m, a)
    BY Zenon, <2>1 DEF Checkpoint, Mismatch, OpMismatch, TestEnd
  <2>3. at'[s] = IndexAt(advance_pc(s) - base[s]) /\ Here(s).op # "testend"
    BY <2>2, Zenon DEF Resume, Side
  <2>4. Given /\ Others
    BY Zenon DEF RInv
  <2>5. arch \in OtherArchs
    BY Zenon, <2>4, SetupFacts DEF OtherArchs
  <2> QED  BY Zenon, <2>3, <2>4, <2>5, GoesOn
<1> QED  BY <1>1, Invariant, PTL DEF Spec, Resumes

\* clear_exceptions makes the flags of the next checkpoint new ones.
THEOREM ExceptionsAlwaysNew == Spec => ExceptionsAreNew
<1>1. RInv /\ [Next]_vars =>
        [arch = "arm" /\ opt = "test-fp-exc" /\ st = "trap" /\ has_vfp(frame[MASTER]) =>
           ri'[MASTER].exc = raised]_vars
  <2> SUFFICES ASSUME RInv, Next, arch = "arm", opt = "test-fp-exc", st = "trap",
                      has_vfp(frame[MASTER])
               PROVE  ri'[MASTER].exc = raised
    BY Zenon, SMTT(30)
  <2>1. Checkpoint
    BY Zenon DEF Next, Run, NextBlock, Executes, ExecutesWrongly, Signal
  <2>2. ri'[MASTER] = reginfo_init(MASTER)
    <3>1. \E a : ri' = Pair(reginfo_init(MASTER), a)
      BY <2>1, Zenon DEF Checkpoint, Mismatch, OpMismatch, TestEnd, Resume
    <3> QED  BY Zenon, <3>1 DEF Pair, Side
  <2>3. uc[MASTER].exc = raised
    BY Zenon DEF RInv, Others
  <2>4. reginfo_init(MASTER) =
          reginfo_init_arm(uc[MASTER], frame[MASTER], pc[MASTER] - base[MASTER], Here(MASTER), opt)
    BY Zenon DEF reginfo_init
  <2>5. reginfo_init(MASTER).exc = uc[MASTER].exc
    <3> DEFINE y == uc[MASTER]
               f == frame[MASTER]
               p == pc[MASTER] - base[MASTER]
               in == Here(MASTER)
    <3>1. reginfo_init(MASTER) = reginfo_init_arm(y, f, p, in, "test-fp-exc") /\ has_vfp(f)
      BY Zenon, <2>4
    <3> HIDE DEF y, f, p, in
    <3>2. reginfo_init_arm(y, f, p, in, "test-fp-exc").exc = y.exc
      BY Zenon, <3>1 DEF reginfo_init_arm
    <3>3. reginfo_init(MASTER).exc = y.exc
      BY Zenon, <3>1, <3>2
    <3> QED  BY Zenon, <3>3 DEF y
  <2> QED  BY Zenon, <2>2, <2>3, <2>5
<1> QED  BY <1>1, Invariant, PTL DEF Spec, ExceptionsAreNew
=============================================================================
