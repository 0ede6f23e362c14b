------------------------------- MODULE Insns -------------------------------
(***************************************************************************)
(* The ppc64 instructions of a test image, as far as the comparison tells  *)
(* them apart: their operands, the blocks they come in, what each may      *)
(* leave in the registers, and how a result can be wrong.  o are the       *)
(* options of the run.                                                     *)
(***************************************************************************)
EXTENDS Ppc64

\* Results and conditions an implementation gives where none is defined.
CONSTANTS Junk, JunkConditions

ASSUME JunkAssumption ==
  /\ Junk \subseteq Word
  /\ JunkConditions \subseteq SUBSET {<<0, 0>>, <<0, 1>>, <<0, 2>>}

\* The operands an instruction of the ppc64 image has.
Reg == 0 .. Len(Gpr) - 1
Bit == Nat \X Nat
Operands(in) ==
  /\ in.op \in {"li", "addi", "mr", "la", "mflr", "div", "divs", "lscbx"} => in.rt \in Reg
  /\ in.op \in {"mr", "mtlr", "div", "divs"} => in.ra \in Reg
  /\ in.op \in {"div", "divs"} => in.rb \in Reg /\ in.dot \in BOOLEAN
  /\ in.op \in {"li", "addi", "lscbx"} => in.v \in Word
  /\ in.op = "lscbx" => in.n \in Nat \ {0}
  /\ in.op = "fadd" => in.v \subseteq Bit
  /\ in.op = "mtspr" => /\ in.f \in Special \ {"LNK"}
                        /\ in.f = "MQ" => in.v \in Word
                        /\ in.f = "XER" => DOMAIN in.v = {"bits", "count"}
                        /\ in.f = "fpscr" => in.v \subseteq Bit

\* Every instruction is followed by a comparison, but for three pairs: what
\* lscbx leaves open is tolerated one instruction later, mcrfs moves a field
\* of FPSCR that fadd has set, and an address is made a number again behind
\* the illegal instruction for which it was loaded.  No instruction reads a
\* register the comparison does not see.
Alone == {"li", "addi", "mr", "bl", "mflr", "mtlr", "mtspr", "div", "divs", "mul", "fcmp",
          "fadd", "mcrfs"}
Block(c, o) ==
  /\ DOMAIN c = 1 .. Len(c) /\ Len(c) \in 2 .. 4
  /\ c[Len(c)].op = "compare"
  /\ \A k \in 1 .. Len(c) - 1 : Operands(c[k])
  /\ \/ Len(c) = 2 /\ c[1].op \in Alone
     \/ Len(c) = 3 /\ c[1].op = "lscbx" /\ c[2].op = "li"
     \/ Len(c) = 3 /\ c[1].op = "fadd" /\ c[2].op = "mcrfs"
     \/ Len(c) = 4 /\ c[1].op = "la" /\ c[2].op = "illegal" /\ c[3].op = "addi"
          /\ c[3].rt = c[1].rt
  /\ c[1].op \in {"mr", "mtlr", "div", "divs"} => gpr(c[1].ra) \in o.gregs_mask
  /\ c[1].op \in {"div", "divs"} => gpr(c[1].rb) \in o.gregs_mask

\* The registers of a side, and those the comparison does not see.
Registers(u) ==
  /\ DOMAIN u = Range(Gpr) \cup Special \cup {"NIP"}
  /\ \A f \in Range(Gpr) \cup {"MQ", "LNK", "NIP"} : u[f] \in Word
  /\ DOMAIN u.XER = {"bits", "count"} /\ u.fpscr \subseteq Bit
Unseen(f, o) == f \in Range(Gpr) \ o.gregs_mask \/ (f = "vrregs" /\ ~o.vrregs_mask)

----------------------------------------------------------------------------
\* What the architecture and the options of the run allow as the state after
\* the instruction in.
BitsOf(f, bits) == {<<f, b>> : b \in bits}
Low(n) == 2 ^ (ByteBits * (Bytes - (n % Bytes)))

\* div divides the double word of RA and MQ, divs the word RA.  The result is
\* defined when the quotient fits in a word.
Dividend(in, u) == IF in.op = "div" THEN Signed(u[gpr(in.ra)]) * Words + u.MQ
                                    ELSE Signed(u[gpr(in.ra)])
Divisor(in, u) == Signed(u[gpr(in.rb)])
Divides(in, u) == Divisor(in, u) # 0 /\ Fits(Quotient(Dividend(in, u), Divisor(in, u)))

\* A quotient in RT, a remainder in MQ and, in the record form, a condition c
\* and a copy of SO in the first field of CR.
DividedInto(in, u, q, r, c) ==
  LET so == IF "SO" \in u.XER.bits THEN {<<0, 3>>} ELSE {} IN
  [u EXCEPT ![gpr(in.rt)] = q, !.MQ = r,
            !.CCR = IF in.dot THEN (@ \ Field(@, 0)) \cup c \cup so ELSE @]

\* LT, GT and EQ, as the remainder is.
Condition(r) == {IF r < 0 THEN <<0, 0>> ELSE IF r > 0 THEN <<0, 1>> ELSE <<0, 2>>}

Divided(in, u) ==
  LET q == Quotient(Dividend(in, u), Divisor(in, u))
      r == Dividend(in, u) - q * Divisor(in, u)
  IN IF Divides(in, u)
     THEN {DividedInto(in, u, q % Words, r % Words, Condition(r))}
     ELSE {DividedInto(in, u, x[1], x[2], x[3]) : x \in Junk \X Junk \X JunkConditions}

\* Divisions whose result the architecture leaves open and the comparison
\* insists on all the same.  u are the master's registers before, x behind the
\* instruction.  A div is judged by the MQ it has left instead of the one it
\* has read; of divs, only the quotient is let pass.
Insisted(in, u, x, o) ==
  \/ in.op = "div" /\ ~Divides(in, u) /\ ~div_undefined(in, x)
  \/ in.op = "divs" /\ ~Divides(in, u) /\ (o.mq_mask \/ in.dot)

\* The last register lscbx loads.
LastLoaded(in) == gpr((in.rt + (in.n - 1) \div Bytes) % Len(Gpr))

\* n bytes of the word in.v, over and over; the rest of the last register is
\* not defined.
Loaded(in, u) ==
  LET reg(k) == gpr((in.rt + k) % Len(Gpr))
      last == (in.n - 1) \div Bytes
      full == [f \in DOMAIN u |-> IF \E k \in 0 .. last : f = reg(k) THEN in.v ELSE u[f]]
      rest == IF in.n % Bytes = 0 THEN 1 ELSE Low(in.n)
  IN {[full EXCEPT ![LastLoaded(in)] = (in.v \div rest) * rest + (x % rest), !.XER.count = in.n]
        : x \in Junk}

Outcome(in, u, o) ==
  CASE in.op \in {"li", "addi"} -> {[u EXCEPT ![gpr(in.rt)] = in.v]}
    [] in.op = "mr" -> {[u EXCEPT ![gpr(in.rt)] = u[gpr(in.ra)]]}
    [] in.op = "la" -> {[u EXCEPT ![gpr(in.rt)] = u.NIP]}
    [] in.op = "bl" -> {[u EXCEPT !.LNK = (u.NIP + 1) % Words]}
    [] in.op = "mflr" -> {[u EXCEPT ![gpr(in.rt)] = u.LNK]}
    [] in.op = "mtlr" -> {[u EXCEPT !.LNK = u[gpr(in.ra)]]}
    [] in.op = "mtspr" -> {[u EXCEPT ![in.f] = in.v]}
    [] in.op \in {"div", "divs"} -> Divided(in, u)
    [] in.op = "lscbx" -> Loaded(in, u)
    [] in.op = "mul" -> IF o.use_601 THEN {[u EXCEPT !.MQ = x] : x \in Junk} ELSE {u}
    [] in.op = "fcmp" ->
         LET free == {b \in 0 .. 3 : <<1, b>> \notin o.ccr_mask} IN
         {[u EXCEPT !.CCR = (@ \ Field(@, in.rt)) \cup BitsOf(in.rt, (in.v \ free) \cup x)]
            : x \in SUBSET free}
    [] in.op = "fadd" ->
         {[u EXCEPT !.fpscr = in.v \cup x] : x \in SUBSET (o.bits \ o.fpscr_mask)}
    [] in.op = "mcrfs" ->
         {[u EXCEPT !.CCR = (@ \ Field(@, in.rt)) \cup Moved(u.fpscr, in.ra, in.rt)]}

Ordinary == {"li", "addi", "mr", "mtspr", "bl"}
Target(in) == IF in.op = "mtspr" THEN in.f ELSE IF in.op = "bl" THEN "LNK" ELSE gpr(in.rt)
Wrong(f, x, o) ==
  IF f = "XER" THEN {[x EXCEPT !.bits = (@ \cup {"CA"}) \ (@ \cap {"CA"})]}
  ELSE IF f \in {"CCR", "fpscr"} THEN {(x \cup {b}) \ (x \cap {b}) : b \in o.bits}
  ELSE {(x + 1) % Words}

Stepped(u) == [u EXCEPT !.NIP = (@ + 1) % Words]
Traps == {"illegal", "compare"}

----------------------------------------------------------------------------
\* Does the comparison at the n-th checkpoint have to find that register f
\* holds y instead of x?  The bytes behind those of an lscbx are not looked at
\* one instruction later, and MQ not at the first checkpoint; prev is the
\* instruction before the one that went wrong.
Seen(f, x, y, o, n, prev) ==
  CASE f = "XER" -> XerUnder(x, o.xer_mask) # XerUnder(y, o.xer_mask)
    [] f = "CCR" -> x \cap o.ccr_mask # y \cap o.ccr_mask
    [] f = "fpscr" -> x \cap o.fpscr_mask # y \cap o.fpscr_mask
    [] f = "LNK" -> TRUE
    [] f = "MQ" -> o.mq_mask /\ n > 1 /\ x # y
    [] f = "vrregs" -> o.vrregs_mask /\ x # y
    [] f \in Range(Gpr) -> f \in o.gregs_mask /\ prev.op # "lscbx" /\ x # y
    [] OTHER -> x # y

\* The instruction at a place of the image c; nothing outside it.
InsnAt(c, k) == IF k \in DOMAIN c THEN c[k] ELSE [op |-> "none"]

\* The registers and the window of instructions around the trap.
insns(c, k) == [second_prev |-> InsnAt(c, k - 2), prev |-> InsnAt(c, k - 1),
                faulting |-> InsnAt(c, k), next |-> InsnAt(c, k + 1)]
reginfo_init_ppc64(u, w) ==
  [f \in DOMAIN u \cup {"insns"} |-> IF f = "insns" THEN w ELSE u[f]]
=============================================================================
