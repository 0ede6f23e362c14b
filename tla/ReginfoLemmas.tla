--------------------------- MODULE ReginfoLemmas ---------------------------
(***************************************************************************)
(* Lemmas about the ppc64 operators of module Insns: what an instruction   *)
(* leaves in the registers, what of it may differ between the two sides,   *)
(* why the comparison accepts that, and what reginfo_update makes of it.   *)
(***************************************************************************)
EXTENDS Insns, TLAPS

----------------------------------------------------------------------------
\* Arithmetic

\* Division with remainder is unique.
LEMMA DivUnique ==
  ASSUME NEW W \in Nat \ {0}, NEW k \in Int, NEW r \in 0 .. W - 1
  PROVE  (W * k + r) % W = r /\ (W * k + r) \div W = k
<1> DEFINE x == W * k + r
           q == x \div W
           p == x % W
<1>1. x \in Int
  OBVIOUS
<1>2. q \in Int /\ p \in 0 .. W - 1 /\ x = W * q + p
  BY <1>1
<1>3. W * k + r = W * q + p
  BY Zenon, <1>2
<1> HIDE DEF x, q, p
<1>4. W * (k - q) = p - r
  BY <1>2, <1>3
<1>5. ~(k - q >= 1)
  <2> SUFFICES ASSUME k - q >= 1 PROVE FALSE
    BY Zenon
  <2>1. W * (k - q) >= W
    BY <1>2
  <2> QED  BY <2>1, <1>2, <1>4
<1>6. ~(k - q <= -1)
  <2> SUFFICES ASSUME k - q <= -1 PROVE FALSE
    BY Zenon
  <2>1. W * (k - q) <= -W
    BY <1>2
  <2> QED  BY <2>1, <1>2, <1>4
<1>7. k = q
  BY <1>2, <1>5, <1>6
<1>8. r = p
  BY <1>2, <1>3, <1>7
<1> QED  BY Zenon, <1>7, <1>8 DEF x, q, p

\* A multiple of the modulus may be added.
LEMMA ModShift ==
  ASSUME NEW W \in Nat \ {0}, NEW y \in Int, NEW q \in Int
  PROVE  (y + W * q) % W = y % W
<1> DEFINE k == y \div W
           r == y % W
<1>1. k \in Int /\ r \in 0 .. W - 1 /\ y = W * k + r
  OBVIOUS
<1> HIDE DEF k, r
<1>2. y + W * q = W * (k + q) + r
  BY <1>1
<1>3. k + q \in Int
  BY <1>1
<1>4. (W * (k + q) + r) % W = r
  BY Zenon, <1>1, <1>3, DivUnique
<1> QED  BY Zenon, <1>2, <1>4 DEF r

\* The remainder of a number decides that of its predecessor.
LEMMA ModPred ==
  ASSUME NEW W \in Nat \ {0}, NEW y \in Int
  PROVE  (y - 1) % W = ((y % W) - 1) % W
<1> DEFINE k == y \div W
           r == y % W
<1>1. k \in Int /\ r \in 0 .. W - 1 /\ y = W * k + r
  OBVIOUS
<1> HIDE DEF k, r
<1>2. y - 1 = (r - 1) + W * k /\ r - 1 \in Int
  BY <1>1
<1>3. ((r - 1) + W * k) % W = (r - 1) % W
  BY <1>1, <1>2, ModShift, Zenon
<1> QED  BY Zenon, <1>2, <1>3 DEF r

\* How far a is from b, when b goes one word on.
LEMMA ModStep ==
  ASSUME NEW W \in Nat \ {0}, NEW a \in Int, NEW b \in Int
  PROVE  (a - ((b + 1) % W)) % W = (((a - b) % W) - 1) % W
<1> DEFINE k == (b + 1) \div W
           r == (b + 1) % W
<1>1. k \in Int /\ r \in 0 .. W - 1 /\ b + 1 = W * k + r
  OBVIOUS
<1> HIDE DEF k, r
<1>2. a - r = ((a - b) - 1) + W * k /\ (a - b) - 1 \in Int
  BY <1>1
<1>3. (((a - b) - 1) + W * k) % W = ((a - b) - 1) % W
  BY <1>1, <1>2, ModShift, Zenon
<1> DEFINE y == a - b
<1>4. y \in Int
  OBVIOUS
<1> HIDE DEF y
<1>5. (y - 1) % W = ((y % W) - 1) % W
  BY <1>4, ModPred, Zenon
<1> QED  BY Zenon, <1>2, <1>3, <1>5 DEF r, y

\* The next address is one away.
LEMMA ModSucc ==
  ASSUME NEW W \in Nat \ {0, 1}, NEW b \in 0 .. W - 1
  PROVE  (((b + 1) % W) - b) % W = 1
<1>1. CASE b = W - 1
  <2>1. b + 1 = W * 1 + 0
    BY <1>1
  <2>2. (W * 1 + 0) % W = 0
    BY DivUnique
  <2>3. (b + 1) % W = 0
    BY Zenon, <2>1, <2>2
  <2>4. 0 - b = W * (-1) + 1
    BY <1>1
  <2>5. (W * (-1) + 1) % W = 1
    BY DivUnique
  <2> QED  BY Zenon, <2>3, <2>4, <2>5
<1>2. CASE b < W - 1
  <2>1. (W * 0 + (b + 1)) % W = b + 1
    BY <1>2, DivUnique
  <2>2. (b + 1) % W = b + 1
    BY <2>1
  <2>3. (W * 0 + 1) % W = 1
    BY DivUnique
  <2> QED  BY <2>2, <2>3
<1> QED  BY <1>1, <1>2

\* A word whose part below r is replaced is a word and keeps the rest.
LEMMA LowReplaced ==
  ASSUME NEW W \in Nat \ {0}, NEW r \in Nat \ {0}, W % r = 0,
         NEW v \in 0 .. W - 1, NEW x \in Nat
  PROVE  /\ (v \div r) * r + (x % r) \in 0 .. W - 1
         /\ ((v \div r) * r + (x % r)) \div r = v \div r
<1> DEFINE q == W \div r
           k == v \div r
           p == v % r
           s == x % r
<1>1. q \in Int /\ W = r * q
  OBVIOUS
<1>2. k \in Int /\ p \in 0 .. r - 1 /\ v = r * k + p
  OBVIOUS
<1>3. s \in 0 .. r - 1
  OBVIOUS
<1> HIDE DEF q, k, p, s
<1>4. k >= 0
  <2> SUFFICES ASSUME k <= -1 PROVE FALSE
    BY <1>2
  <2>1. r * k <= -r
    BY <1>2
  <2> QED  BY <2>1, <1>2
<1>5. k <= q - 1
  <2> SUFFICES ASSUME k >= q PROVE FALSE
    BY <1>1, <1>2
  <2>1. r * k >= r * q
    BY <1>1, <1>2
  <2> QED  BY <2>1, <1>1, <1>2
<1>6. r * k >= 0 /\ r * k <= r * q - r
  <2>1. r * k >= 0
    BY <1>2, <1>4
  <2>2. r * (q - 1) >= r * k
    BY <1>1, <1>2, <1>5
  <2>3. r * (q - 1) = r * q - r
    BY <1>1
  <2> QED  BY Zenon, <2>1, <2>2, <2>3, <1>1, <1>2
<1>7. k * r = r * k /\ k * r \in Int
  BY <1>2
<1>8. k * r + s \in 0 .. W - 1
  BY <1>1, <1>3, <1>6, <1>7
<1>9. (r * k + s) \div r = k
  BY Zenon, <1>2, <1>3, DivUnique
<1> QED  BY Zenon, <1>7, <1>8, <1>9 DEF k, s

\* A word is zero exactly if it is zero as a signed number.
LEMMA SignedZero ==
  ASSUME NEW x \in Word
  PROVE  Signed(x) \in Int /\ (Signed(x) = 0 <=> x = 0)
<1> DEFINE W == Words
<1>1. W \in Nat \ {0, 1}
  BY Zenon, WordsAssumption
<1>2. x \in 0 .. W - 1 /\ Signed(x) = IF x >= W \div 2 THEN x - W ELSE x
  BY Zenon DEF Word, Signed
<1> HIDE DEF W
<1> QED  BY <1>1, <1>2

\* The quotient of integers is one.
LEMMA QuotientInt ==
  ASSUME NEW n \in Int, NEW d \in Int \ {0}
  PROVE  Quotient(n, d) \in Int
<1> DEFINE x == IF n < 0 THEN -n ELSE n
           y == IF d < 0 THEN -d ELSE d
<1>1. x \in Int /\ y \in Nat \ {0}
  OBVIOUS
<1> HIDE DEF x, y
<1>2. x \div y \in Int
  BY <1>1
<1> QED  BY <1>2 DEF Quotient, x, y

----------------------------------------------------------------------------
\* The registers of ppc64

LEMMA GprFacts ==
  /\ Len(Gpr) \in Nat \ {0} /\ DOMAIN Gpr = 1 .. Len(Gpr)
  /\ \A i \in Reg : gpr(i) \in Range(Gpr)
  /\ \A i, j \in Reg : gpr(i) = gpr(j) => i = j
<1>1. Len(Gpr) \in Nat \ {0} /\ DOMAIN Gpr = 1 .. Len(Gpr)
  BY GprAssumption
<1>2. \A i \in Reg : i + 1 \in DOMAIN Gpr
  BY <1>1 DEF Reg
<1>3. \A i \in Reg : gpr(i) \in Range(Gpr)
  BY Zenon, <1>2 DEF gpr, Range
<1>4. ASSUME NEW i \in Reg, NEW j \in Reg, gpr(i) = gpr(j)
      PROVE  i = j
  <2>1. i + 1 = j + 1
    BY Zenon, <1>2, <1>4, GprAssumption DEF gpr
  <2> QED  BY <2>1 DEF Reg
<1> QED  BY Zenon, <1>1, <1>3, <1>4

\* Fields lists every register once.
LEMMA Concatenated ==
  ASSUME NEW S, NEW p \in Seq(S), NEW q \in Seq(S)
  PROVE  /\ p \o q \in Seq(S) /\ Len(p \o q) = Len(p) + Len(q)
         /\ \A i \in 1 .. Len(p) + Len(q) :
              (p \o q)[i] = IF i <= Len(p) THEN p[i] ELSE q[i - Len(p)]
  OBVIOUS

LEMMA FieldFacts ==
  /\ Range(Fields) = Range(Gpr) \cup Special
  /\ \A i, j \in DOMAIN Fields : Fields[i] = Fields[j] => i = j
  /\ \A i \in DOMAIN Fields : Fields[i] \in Range(Fields)
  /\ \A i \in DOMAIN Fields : i \in Nat
  /\ \A f \in Range(Fields) : \E i \in DOMAIN Fields : Fields[i] = f
<1> DEFINE N == Len(Gpr)
           T == <<"XER", "LNK", "CTR", "CCR", "MQ", "fpscr", "fpregs", "vrregs">>
<1>1. N \in Nat /\ DOMAIN Gpr = 1 .. N
  BY Zenon, GprFacts
<1>2. Gpr \in Seq(Range(Gpr) \cup Special) /\ T \in Seq(Range(Gpr) \cup Special) /\ Len(T) = 8
  <2>1. Gpr \in Seq(Range(Gpr) \cup Special)
    BY GprAssumption
  <2> QED  BY <2>1 DEF Special
<1>3. /\ DOMAIN Fields = 1 .. N + 8
      /\ \A i \in 1 .. N : Fields[i] = Gpr[i]
      /\ \A i \in N + 1 .. N + 8 : Fields[i] = T[i - N]
  <2> DEFINE S == Range(Gpr) \cup Special
  <2>1. Fields = Gpr \o T
    BY Zenon DEF Fields
  <2> HIDE DEF T, S
  <2>2. Gpr \in Seq(S) /\ T \in Seq(S) /\ Len(T) = 8
    BY Zenon, <1>2 DEF S
  <2>3. Len(Gpr \o T) = N + 8 /\ DOMAIN (Gpr \o T) = 1 .. Len(Gpr \o T)
    <3>1. Gpr \o T \in Seq(S)
      BY Zenon, <2>2, Concatenated
    <3>2. Len(Gpr \o T) = Len(Gpr) + Len(T)
      BY <2>2, Concatenated, Zenon
    <3>3. \A q \in Seq(S) : DOMAIN q = 1 .. Len(q)
      OBVIOUS
    <3>4. DOMAIN (Gpr \o T) = 1 .. Len(Gpr \o T)
      BY <3>1, <3>3, Zenon
    <3> QED  BY Zenon, <3>2, <3>4, <2>2
  <2>4. \A i \in 1 .. Len(Gpr) + Len(T) :
          (Gpr \o T)[i] = IF i <= Len(Gpr) THEN Gpr[i] ELSE T[i - Len(Gpr)]
    BY <2>2, Concatenated, Zenon
  <2> HIDE DEF N
  <2>5. Len(Gpr) = N
    BY Zenon DEF N
  <2>6. /\ \A i \in 1 .. N : i \in 1 .. N + 8 /\ i <= N
        /\ \A i \in N + 1 .. N + 8 : i \in 1 .. N + 8 /\ ~(i <= N)
    BY <1>1
  <2> QED  BY Zenon, <2>1, <2>2, <2>3, <2>4, <2>5, <2>6
<1>4. \A k \in 1 .. 8 : T[k] \in Special
  BY DEF Special
<1>5. \A j, k \in 1 .. 8 : T[j] = T[k] => j = k
  OBVIOUS
<1>6. \A x \in Special : \E k \in 1 .. 8 : T[k] = x
  BY DEF Special
<1>7. \A i \in 1 .. N : Gpr[i] \in Range(Gpr)
  BY Zenon, <1>1 DEF Range
<1> HIDE DEF T
<1>8. ASSUME NEW o, NEW i \in DOMAIN Fields
      PROVE  \/ i \in 1 .. N /\ Fields[i] \in Range(Gpr)
             \/ i \in N + 1 .. N + 8 /\ i - N \in 1 .. 8 /\ Fields[i] \in Special
  <2>1. i \in 1 .. N \/ (i \in N + 1 .. N + 8 /\ i - N \in 1 .. 8)
    BY SMTT(30), <1>1, <1>3
  <2>2. CASE i \in 1 .. N
    BY Zenon, <2>2, <1>3, <1>7
  <2>3. CASE i \in N + 1 .. N + 8 /\ i - N \in 1 .. 8
    BY Zenon, <2>3, <1>3, <1>4
  <2> QED  BY Zenon, <2>1, <2>2, <2>3
<1>9. \A i, j \in DOMAIN Fields : Fields[i] = Fields[j] => i = j
  <2> SUFFICES ASSUME NEW i \in DOMAIN Fields, NEW j \in DOMAIN Fields, Fields[i] = Fields[j]
               PROVE  i = j
    BY Zenon
  <2>0. Range(Gpr) \cap Special = {}
    BY Zenon, GprAssumption
  <2>1. CASE i \in 1 .. N /\ j \in 1 .. N
    BY Zenon, <2>1, <1>1, <1>3, GprAssumption
  <2>2. CASE i \in N + 1 .. N + 8 /\ j \in N + 1 .. N + 8
    <3>1. i - N \in 1 .. 8 /\ j - N \in 1 .. 8
      <4> HIDE DEF N, T
      <4> QED  BY SMTT(30), <2>2, <1>1
    <3>a. T[i - N] = T[j - N]
      BY <2>2, <1>3, Zenon
    <3>2. i - N = j - N
      BY Zenon, <3>1, <3>a, <1>5
    <3> QED  BY <3>2, <2>2, <1>1
  <2> QED  BY Zenon, <2>0, <2>1, <2>2, <1>8
<1>10. \A f \in Range(Gpr) \cup Special : \E i \in DOMAIN Fields : Fields[i] = f
  <2> SUFFICES ASSUME NEW f \in Range(Gpr) \cup Special
               PROVE  \E i \in DOMAIN Fields : Fields[i] = f
    BY Zenon
  <2>1. CASE f \in Range(Gpr)
    <3>1. PICK i \in 1 .. N : Gpr[i] = f
      BY Zenon, <2>1, <1>1 DEF Range
    <3> QED  BY <3>1, <1>1, <1>3
  <2>2. CASE f \in Special
    <3>1. PICK k \in 1 .. 8 : T[k] = f
      BY Zenon, <2>2, <1>6
    <3>2. N + k \in N + 1 .. N + 8 /\ N + k - N = k /\ N + k \in 1 .. N + 8
      BY <1>1
    <3> QED  BY <3>1, <3>2, <1>3
  <2> QED  BY Zenon, <2>1, <2>2
<1>11. \A i \in DOMAIN Fields : Fields[i] \in Range(Gpr) \cup Special
  BY Zenon, <1>8
<1>12. Range(Fields) = Range(Gpr) \cup Special
  BY Zenon, <1>10, <1>11 DEF Range
<1> QED  BY <1>1, <1>3, <1>9, <1>10, <1>11, <1>12

\* What is captured on ppc64, and registers that differ only in S or where no
\* mask lets the comparison look.
Cap(u, w) == reginfo_init_ppc64(u, w)
CleanBetween(u, v, S, o) == \A f \in Range(Fields) : Differs(u, v, f) => f \in S \/ Unseen(f, o)

LEMMA NameFacts ==
  /\ Range(Gpr) \cap (Special \cup {"NIP", "insns"}) = {}
  /\ \A f \in Range(Fields) : f \in Range(Gpr) \/ f \in Special
  /\ Range(Gpr) \subseteq Range(Fields) /\ Special \subseteq Range(Fields)
  /\ "NIP" \notin Range(Fields) /\ "insns" \notin Range(Fields)
<1>1. Range(Gpr) \cap (Special \cup {"NIP", "insns"}) = {}
  BY Zenon, GprAssumption
<1>2. Range(Fields) = Range(Gpr) \cup Special
  BY Zenon, FieldFacts
<1> QED  BY Zenon, <1>1, <1>2 DEF Special

LEMMA CapFacts ==
  ASSUME NEW u, Registers(u), NEW w
  PROVE  /\ Cap(u, w).insns = w
         /\ \A f \in Range(Fields) \cup {"NIP"} : Cap(u, w)[f] = u[f]
         /\ DOMAIN Cap(u, w) = Range(Fields) \cup {"NIP", "insns"}
<1>1. DOMAIN u = Range(Fields) \cup {"NIP"}
  BY Zenon, FieldFacts DEF Registers
<1> QED  BY Zenon, <1>1, NameFacts DEF Cap, reginfo_init_ppc64

LEMMA CapDiffers ==
  ASSUME NEW u, Registers(u), NEW v, Registers(v), NEW w, NEW f \in Range(Fields)
  PROVE  Differs(Cap(u, w), Cap(v, w), f) <=> Differs(u, v, f)
<1>1. "LNK" \in Range(Fields)
  BY Zenon, NameFacts DEF Special
<1>2. /\ Cap(u, w)[f] = u[f] /\ Cap(v, w)[f] = v[f]
      /\ Cap(u, w).LNK = u.LNK /\ Cap(v, w).LNK = v.LNK
      /\ Cap(u, w).NIP = u.NIP /\ Cap(v, w).NIP = v.NIP
  BY <1>1, CapFacts
<1> QED  BY Zenon, <1>2 DEF Differs

\* The tolerances, register by register.
LEMMA ToleratedCases ==
  ASSUME NEW m, NEW a, NEW o, NEW n
  PROVE  /\ \A f \in Range(Gpr) : Tolerated(m, a, f, o, n) <=> gregs_tolerated(m, a, f)
         /\ Tolerated(m, a, "XER", o, n) <=> (XerUnder(m.XER, o.xer_mask) = XerUnder(a.XER, o.xer_mask))
         /\ Tolerated(m, a, "CCR", o, n) <=> (m.CCR \cap CcrMask(m, o) = a.CCR \cap CcrMask(m, o))
         /\ Tolerated(m, a, "MQ", o, n) <=> mq_tolerated(m, o, n)
         /\ Tolerated(m, a, "fpscr", o, n) <=>
              (m.fpscr \cap o.fpscr_mask = a.fpscr \cap o.fpscr_mask)
         /\ Tolerated(m, a, "vrregs", o, n) <=> vrregs_tolerated(o)
         /\ \A f \in {"LNK", "CTR", "fpregs"} : ~Tolerated(m, a, f, o, n)
<1>1. \A f \in Range(Gpr) : Tolerated(m, a, f, o, n) <=> gregs_tolerated(m, a, f)
  BY NameFacts, Zenon DEF Tolerated, Special
<1>2. Special \cap Range(Gpr) = {}
  BY Zenon, NameFacts
<1>3. /\ "XER" \notin Range(Gpr) /\ "CCR" \notin Range(Gpr) /\ "MQ" \notin Range(Gpr)
      /\ "fpscr" \notin Range(Gpr) /\ "vrregs" \notin Range(Gpr) /\ "LNK" \notin Range(Gpr)
      /\ "CTR" \notin Range(Gpr) /\ "fpregs" \notin Range(Gpr)
  BY Zenon, <1>2 DEF Special
<1>4. Tolerated(m, a, "XER", o, n) <=> (XerUnder(m.XER, o.xer_mask) = XerUnder(a.XER, o.xer_mask))
  BY <1>3, Zenon DEF Tolerated
<1>5. Tolerated(m, a, "CCR", o, n) <=> (m.CCR \cap CcrMask(m, o) = a.CCR \cap CcrMask(m, o))
  BY <1>3, Zenon DEF Tolerated
<1>6. Tolerated(m, a, "MQ", o, n) <=> mq_tolerated(m, o, n)
  BY <1>3, Zenon DEF Tolerated
<1>7. Tolerated(m, a, "fpscr", o, n) <=> (m.fpscr \cap o.fpscr_mask = a.fpscr \cap o.fpscr_mask)
  BY <1>3, Zenon DEF Tolerated
<1>8. Tolerated(m, a, "vrregs", o, n) <=> vrregs_tolerated(o)
  BY <1>3, Zenon DEF Tolerated
<1>9. /\ ~Tolerated(m, a, "LNK", o, n) /\ ~Tolerated(m, a, "CTR", o, n)
      /\ ~Tolerated(m, a, "fpregs", o, n)
  BY <1>3, Zenon DEF Tolerated
<1> QED  BY <1>1, <1>4, <1>5, <1>6, <1>7, <1>8, <1>9, Zenon

LEMMA FailsFacts ==
  ASSUME NEW m, NEW a, NEW o, NEW n
  PROVE  Fails(m, a, o, n) = {} <=>
           \A f \in Range(Fields) :
             Differs(m, a, f) => Ignored(m, a, f, o) \/ Tolerated(m, a, f, o, n)
<1>1. ASSUME Fails(m, a, o, n) = {}, NEW f \in Range(Fields), Differs(m, a, f)
      PROVE  Ignored(m, a, f, o) \/ Tolerated(m, a, f, o, n)
  <2>1. PICK i \in DOMAIN Fields : Fields[i] = f
    BY Zenon, FieldFacts
  <2> QED  BY <1>1, <2>1, Zenon DEF Fails
<1>2. ASSUME \A f \in Range(Fields) :
               Differs(m, a, f) => Ignored(m, a, f, o) \/ Tolerated(m, a, f, o, n),
             NEW i \in Fails(m, a, o, n)
      PROVE  FALSE
  <2>1. i \in DOMAIN Fields /\ Fields[i] \in Range(Fields)
    BY Zenon, <1>2, FieldFacts DEF Fails
  <2> QED  BY <1>2, <2>1, Zenon DEF Fails
<1> QED  BY Zenon, <1>1, <1>2

\* Registers that are as far apart as the masks allow compare equal.
LEMMA CleanAccepted ==
  ASSUME NEW u, Registers(u), NEW v, Registers(v), NEW o, NEW w, NEW n \in Nat,
         NEW S, CleanBetween(u, v, S, o), S \subseteq {"MQ"}, S = {} \/ n <= 1
  PROVE  Fails(Cap(u, w), Cap(v, w), o, n) = {}
<1> DEFINE m == Cap(u, w)
           a == Cap(v, w)
<1> SUFFICES ASSUME NEW f \in Range(Fields), Differs(m, a, f)
             PROVE  Ignored(m, a, f, o) \/ Tolerated(m, a, f, o, n)
  BY Zenon, FailsFacts
<1>1. f \in S \/ Unseen(f, o)
  BY Zenon, CapDiffers DEF CleanBetween
<1> HIDE DEF m, a
<1>2. CASE f \in S
  <2>1. f = "MQ" /\ n <= 1
    BY Zenon, <1>2
  <2>2. mq_tolerated(m, o, n)
    BY Zenon, <2>1 DEF mq_tolerated
  <2>3. Tolerated(m, a, "MQ", o, n) <=> mq_tolerated(m, o, n)
    BY Zenon, ToleratedCases
  <2> QED  BY <2>1, <2>2, <2>3, Zenon
<1>3. CASE f \in Range(Gpr) \ o.gregs_mask
  <2>1. f \notin local_gregs_mask(a, o)
    BY Zenon, <1>3 DEF local_gregs_mask
  <2> QED  BY Zenon, <1>3, <2>1 DEF Ignored
<1>4. CASE f = "vrregs" /\ ~o.vrregs_mask
  <2>1. Tolerated(m, a, "vrregs", o, n) <=> vrregs_tolerated(o)
    BY Zenon, ToleratedCases
  <2> QED  BY <1>4, <2>1, Zenon DEF vrregs_tolerated
<1> QED  BY <1>1, <1>2, <1>3, <1>4, Zenon DEF Unseen

\* The link registers are as far from the program counters as before when
\* both sides go one instruction on.
LEMMA SteppedFacts ==
  ASSUME NEW u, Registers(u)
  PROVE  /\ Registers(Stepped(u)) /\ Stepped(u).NIP = (u.NIP + 1) % Words
         /\ \A f \in Range(Fields) : Stepped(u)[f] = u[f]
<1>1. Words \in Nat \ {0} /\ u.NIP \in Int
  BY WordsAssumption DEF Registers, Word
<1>2. (u.NIP + 1) % Words \in Word
  <2> DEFINE W == Words
             x == u.NIP
  <2>1. W \in Nat \ {0} /\ x \in Int
    BY Zenon, <1>1
  <2> HIDE DEF W, x
  <2>2. (x + 1) % W \in 0 .. W - 1
    BY <2>1
  <2> QED  BY Zenon, <2>2 DEF W, x, Word
<1>3. /\ DOMAIN Stepped(u) = DOMAIN u
      /\ "NIP" \in DOMAIN u
      /\ Stepped(u).NIP = (u.NIP + 1) % Words
      /\ \A f \in DOMAIN u \ {"NIP"} : Stepped(u)[f] = u[f]
  BY Zenon DEF Stepped, Registers
<1>4. \A f \in Range(Fields) : f \in DOMAIN u \ {"NIP"}
  BY Zenon, FieldFacts, NameFacts DEF Registers
<1>5. "XER" \in DOMAIN u \ {"NIP"} /\ "fpscr" \in DOMAIN u \ {"NIP"}
  BY Zenon DEF Registers, Special
<1>6. Registers(Stepped(u))
  <2>1. DOMAIN Stepped(u) = Range(Gpr) \cup Special \cup {"NIP"}
    BY Zenon, <1>3 DEF Registers
  <2>2. DOMAIN Stepped(u).XER = {"bits", "count"} /\ Stepped(u).fpscr \subseteq Bit
    BY Zenon, <1>3, <1>5 DEF Registers
  <2>3. ASSUME NEW f \in Range(Gpr) \cup {"MQ", "LNK", "NIP"}
        PROVE  Stepped(u)[f] \in Word
    <3>1. u[f] \in Word /\ f \in DOMAIN u
      BY Zenon DEF Registers, Special
    <3> QED  BY Zenon, <3>1, <1>2, <1>3
  <2> QED  BY <2>1, <2>2, <2>3, Zenon DEF Registers
<1> QED  BY Zenon, <1>3, <1>4, <1>6

LEMMA SteppedDiffers ==
  ASSUME NEW u, Registers(u), NEW v, Registers(v), NEW f \in Range(Fields),
         Differs(Stepped(u), Stepped(v), f)
  PROVE  Differs(u, v, f)
<1>1. CASE f # "LNK"
  BY Zenon, <1>1, SteppedFacts DEF Differs
<1>2. CASE f = "LNK"
  <2>1. "LNK" \in Range(Fields)
    BY Zenon, <1>2
  <2>2. /\ Stepped(u).LNK = u.LNK /\ Stepped(v).LNK = v.LNK
        /\ Stepped(u).NIP = (u.NIP + 1) % Words /\ Stepped(v).NIP = (v.NIP + 1) % Words
    BY Zenon, <2>1, SteppedFacts
  <2>3. /\ Words \in Nat \ {0} /\ u.LNK \in Int /\ u.NIP \in Int
        /\ v.LNK \in Int /\ v.NIP \in Int
    BY WordsAssumption DEF Registers, Word
  <2>4. /\ (u.LNK - ((u.NIP + 1) % Words)) % Words = (((u.LNK - u.NIP) % Words) - 1) % Words
        /\ (v.LNK - ((v.NIP + 1) % Words)) % Words = (((v.LNK - v.NIP) % Words) - 1) % Words
    BY <2>3, ModStep, Zenon
  <2>5. (u.LNK - ((u.NIP + 1) % Words)) % Words # (v.LNK - ((v.NIP + 1) % Words)) % Words
    BY <1>2, <2>2, Zenon DEF Differs
  <2>6. (u.LNK - u.NIP) % Words # (v.LNK - v.NIP) % Words
    BY <2>4, <2>5, Zenon
  <2> QED  BY Zenon, <1>2, <2>6 DEF Differs
<1> QED  BY Zenon, <1>1, <1>2

\* After an accepted comparison the apprentice has the master's registers, but
\* for those no mask lets the comparison see.
LEMMA UpdateHeals ==
  ASSUME NEW u, Registers(u), NEW v, Registers(v), NEW w, NEW o, NEW n,
         o.gregs_mask \subseteq Range(Gpr), w.faulting.op = "compare",
         Fails(Cap(u, w), Cap(v, w), o, n) = {}
  PROVE  LET y == reginfo_update_ppc64(v, Cap(u, w), o)
         IN Registers(y) /\ y.NIP = v.NIP /\ CleanBetween(u, y, {}, o)
<1> DEFINE m == Cap(u, w)
           a == Cap(v, w)
           R == o.gregs_mask \cup {"CCR", "XER", "MQ", "fpregs", "fpscr"}
           y == reginfo_update_ppc64(v, m, o)
<1>1. R \subseteq Range(Fields) /\ "NIP" \notin R /\ "LNK" \notin R
  BY Zenon, NameFacts DEF Special
<1>2. \A f \in Range(Fields) : m[f] = u[f]
  BY CapFacts
<1>3. DOMAIN v = Range(Fields) \cup {"NIP"} /\ DOMAIN u = DOMAIN v
  BY Zenon, FieldFacts DEF Registers
<1>4. /\ DOMAIN y = DOMAIN v
      /\ \A f \in DOMAIN v : y[f] = IF f \in R THEN u[f] ELSE v[f]
  <2>1. y = [f \in DOMAIN v |-> IF f \in R THEN m[f] ELSE v[f]]
    BY Zenon DEF reginfo_update_ppc64
  <2> HIDE DEF y, m, R
  <2> QED  BY Zenon, <2>1, <1>1, <1>2
<1> HIDE DEF y, m, a
<1>5. y.NIP = v.NIP /\ y.LNK = v.LNK
  BY Zenon, <1>1, <1>3, <1>4, NameFacts DEF Special
<1>6. Registers(y)
  <2>1. DOMAIN y.XER = {"bits", "count"} /\ y.fpscr \subseteq Bit
    <3>1. "XER" \in DOMAIN v /\ "fpscr" \in DOMAIN v
      BY Zenon DEF Registers, Special
    <3> QED  BY Zenon, <3>1, <1>4 DEF Registers
  <2>2. ASSUME NEW f \in Range(Gpr) \cup {"MQ", "LNK", "NIP"}
        PROVE  y[f] \in Word
    <3>1. u[f] \in Word /\ v[f] \in Word /\ f \in DOMAIN v
      BY Zenon DEF Registers, Special
    <3> QED  BY Zenon, <3>1, <1>4
  <2>3. DOMAIN y = Range(Gpr) \cup Special \cup {"NIP"}
    BY Zenon, <1>4 DEF Registers
  <2> QED  BY <2>1, <2>2, <2>3, Zenon DEF Registers
<1>7. ASSUME NEW f \in Range(Fields), Differs(u, y, f)
      PROVE  Unseen(f, o)
  <2>1. f \notin R
    <3> SUFFICES ASSUME f \in R PROVE FALSE
      BY Zenon
    <3>1. f # "LNK" /\ y[f] = u[f]
      BY Zenon, <1>1, <1>3, <1>4
    <3> QED  BY Zenon, <3>1, <1>7 DEF Differs
  <2>2. Differs(u, v, f)
    <3>1. y[f] = v[f]
      BY Zenon, <1>3, <1>4, <2>1
    <3> QED  BY <3>1, <1>5, <1>7, Zenon DEF Differs
  <2>3. Ignored(m, a, f, o) \/ Tolerated(m, a, f, o, n)
    BY Zenon, <2>2, CapDiffers, FailsFacts DEF m, a
  <2>4. CASE f \in Range(Gpr)
    BY Zenon, <2>1, <2>4 DEF Unseen
  <2>5. CASE f \in Special
    <3>1. f \in {"LNK", "CTR", "vrregs"}
      BY Zenon, <2>1, <2>5 DEF Special
    <3>2. ~Ignored(m, a, f, o)
      BY Zenon, <2>5, NameFacts DEF Ignored
    <3>3. f = "vrregs"
      BY Zenon, <3>1, <3>2, <2>3, ToleratedCases
    <3>4. vrregs_tolerated(o)
      BY Zenon, <3>2, <3>3, <2>3, ToleratedCases
    <3> QED  BY <3>3, <3>4, Zenon DEF vrregs_tolerated, Unseen
  <2> QED  BY Zenon, <2>4, <2>5, NameFacts
<1>8. CleanBetween(u, y, {}, o)
  BY <1>7, Zenon DEF CleanBetween
<1> QED  BY Zenon, <1>5, <1>6, <1>8 DEF y, m

\* A comparison that gives up has something to print: the register at which
\* it did, which it has not copied.
LEMMA DumpExplainsPpc64 ==
  ASSUME NEW u, Registers(u), NEW v, Registers(v), NEW w, NEW o, NEW n,
         Fails(Cap(u, w), Cap(v, w), o, n) # {}
  PROVE  LET m == Cap(u, w)
             b == Copied(m, Cap(v, w), o, n)
             named_now == dump_mismatch_ppc64(m, b, o)
             d == {f \in DOMAIN m \ {"insns", "NIP"} :
                     IF f = "LNK" THEN Differs(m, b, f) ELSE m[f] # b[f]}
         IN named_now \subseteq d /\ named_now # {}
<1> DEFINE m == Cap(u, w)
           a == Cap(v, w)
           b == Copied(m, a, o, n)
           d == {f \in DOMAIN m \ {"insns", "NIP"} :
                   IF f = "LNK" THEN Differs(m, b, f) ELSE m[f] # b[f]}
           passed == {Fields[i] : i \in {j \in DOMAIN Fields : \A k \in Fails(m, a, o, n) : j < k}}
<1>1. DOMAIN m = Range(Fields) \cup {"NIP", "insns"} /\ DOMAIN a = DOMAIN m
  BY Zenon, CapFacts
<1>2. Fails(m, a, o, n) # {}
  BY Zenon
<1> HIDE DEF m, a
<1>3. dump_mismatch_ppc64(m, b, o) \subseteq d
  <2>1. \A f \in Range(Fields) : f \in DOMAIN m \ {"insns", "NIP"}
    BY Zenon, <1>1, NameFacts
  <2> HIDE DEF b
  <2> QED  BY Zenon, <2>1 DEF dump_mismatch_ppc64, Differs
<1>4. b = [f \in DOMAIN a |->
             IF f \in passed /\ f # "LNK" /\ ~Ignored(m, a, f, o) THEN m[f] ELSE a[f]]
  BY Zenon DEF Copied
<1>5. PICK i \in Fails(m, a, o, n) : TRUE
  BY Zenon, <1>2
<1>6. /\ i \in DOMAIN Fields /\ Fields[i] \in Range(Fields) /\ i \in Nat
      /\ Differs(m, a, Fields[i]) /\ ~Ignored(m, a, Fields[i], o)
  BY Zenon, <1>5, FieldFacts DEF Fails
<1>7. Fields[i] \notin passed
  <2> SUFFICES ASSUME Fields[i] \in passed PROVE FALSE
    BY Zenon
  <2>1. PICK j \in DOMAIN Fields : Fields[j] = Fields[i] /\ \A k \in Fails(m, a, o, n) : j < k
    BY Zenon
  <2>2. j = i /\ j < i
    BY Zenon, <2>1, <1>5, <1>6, FieldFacts
  <2> QED  BY <2>2, <1>6
<1>8. "NIP" \notin passed
  BY FieldFacts, NameFacts
<1> HIDE DEF passed
<1>9. b[Fields[i]] = a[Fields[i]] /\ b.NIP = a.NIP /\ b.LNK = a.LNK
  <2>1. "NIP" \in DOMAIN a /\ "LNK" \in DOMAIN a /\ Fields[i] \in DOMAIN a
    BY Zenon, <1>1, <1>6, NameFacts DEF Special
  <2> HIDE DEF b
  <2> QED  BY Zenon, <2>1, <1>4, <1>7, <1>8
<1> HIDE DEF b
<1>10. Differs(m, b, Fields[i])
  BY <1>6, <1>9, Zenon DEF Differs
<1>11. Fields[i] \in Range(Gpr) => Fields[i] \in o.gregs_mask
  BY Zenon, <1>6 DEF Ignored, local_gregs_mask
<1>12. Fields[i] \in dump_mismatch_ppc64(m, b, o)
  BY Zenon, <1>6, <1>10, <1>11 DEF dump_mismatch_ppc64
<1> QED  BY Zenon, <1>3, <1>12 DEF m, a, b

----------------------------------------------------------------------------
\* The instructions of ppc64

\* What may be written to register f.
Fit(f, val) ==
  /\ f \in Range(Gpr) \cup {"MQ", "LNK"} => val \in Word
  /\ f = "XER" => DOMAIN val = {"bits", "count"}
  /\ f = "fpscr" => val \subseteq Bit

Set(u, f, val) == [u EXCEPT ![f] = val]

LEMMA SetField ==
  ASSUME NEW u, Registers(u), NEW f \in Range(Fields), NEW val, Fit(f, val)
  PROVE  /\ Registers(Set(u, f, val)) /\ Set(u, f, val).NIP = u.NIP /\ Set(u, f, val)[f] = val
         /\ \A g \in Range(Fields) \ {f} : Set(u, f, val)[g] = u[g]
<1> DEFINE x == Set(u, f, val)
<1>1. DOMAIN u = Range(Fields) \cup {"NIP"} /\ "NIP" # f
  BY Zenon, FieldFacts, NameFacts DEF Registers
<1>2. /\ DOMAIN x = DOMAIN u /\ x[f] = val
      /\ \A g \in DOMAIN u \ {f} : x[g] = u[g]
  BY Zenon, <1>1 DEF Set
<1> HIDE DEF x
<1>3. x.NIP = u.NIP /\ \A g \in Range(Fields) \ {f} : x[g] = u[g]
  BY Zenon, <1>1, <1>2
<1>4. DOMAIN x = Range(Gpr) \cup Special \cup {"NIP"}
  BY Zenon, <1>2 DEF Registers
<1>5. ASSUME NEW g \in Range(Gpr) \cup {"MQ", "LNK", "NIP"}
      PROVE  x[g] \in Word
  <2>1. u[g] \in Word /\ g \in DOMAIN u
    BY Zenon DEF Registers, Special
  <2>2. CASE g = f
    BY Zenon, <2>2, <1>1, <1>2 DEF Fit
  <2>3. CASE g # f
    BY Zenon, <2>1, <2>3, <1>2
  <2> QED  BY Zenon, <2>2, <2>3
<1>6. DOMAIN x.XER = {"bits", "count"} /\ x.fpscr \subseteq Bit
  <2>1. "XER" \in DOMAIN u /\ "fpscr" \in DOMAIN u
    BY Zenon DEF Registers, Special
  <2>2. DOMAIN u.XER = {"bits", "count"} /\ u.fpscr \subseteq Bit
    BY Zenon DEF Registers
  <2> QED  BY Zenon, <1>2, <2>1, <2>2 DEF Fit
<1>7. Registers(x)
  BY <1>4, <1>5, <1>6, Zenon DEF Registers
<1> QED  BY Zenon, <1>2, <1>3, <1>7 DEF x

\* The outcomes, operation by operation.
LEMMA OutcomeCases ==
  ASSUME NEW in, NEW u, NEW o
  PROVE  /\ in.op \in {"li", "addi"} => Outcome(in, u, o) = {[u EXCEPT ![gpr(in.rt)] = in.v]}
         /\ in.op = "mr" => Outcome(in, u, o) = {[u EXCEPT ![gpr(in.rt)] = u[gpr(in.ra)]]}
         /\ in.op = "la" => Outcome(in, u, o) = {[u EXCEPT ![gpr(in.rt)] = u.NIP]}
         /\ in.op = "bl" => Outcome(in, u, o) = {[u EXCEPT !.LNK = (u.NIP + 1) % Words]}
         /\ in.op = "mflr" => Outcome(in, u, o) = {[u EXCEPT ![gpr(in.rt)] = u.LNK]}
         /\ in.op = "mtlr" => Outcome(in, u, o) = {[u EXCEPT !.LNK = u[gpr(in.ra)]]}
         /\ in.op = "mtspr" => Outcome(in, u, o) = {[u EXCEPT ![in.f] = in.v]}
<1>1. in.op \in {"li", "addi"} => Outcome(in, u, o) = {[u EXCEPT ![gpr(in.rt)] = in.v]}
  BY Zenon DEF Outcome
<1>2. in.op = "mr" => Outcome(in, u, o) = {[u EXCEPT ![gpr(in.rt)] = u[gpr(in.ra)]]}
  BY Zenon DEF Outcome
<1>3. in.op = "la" => Outcome(in, u, o) = {[u EXCEPT ![gpr(in.rt)] = u.NIP]}
  BY Zenon DEF Outcome
<1>4. in.op = "bl" => Outcome(in, u, o) = {[u EXCEPT !.LNK = (u.NIP + 1) % Words]}
  BY Zenon DEF Outcome
<1>5. in.op = "mflr" => Outcome(in, u, o) = {[u EXCEPT ![gpr(in.rt)] = u.LNK]}
  BY Zenon DEF Outcome
<1>6. in.op = "mtlr" => Outcome(in, u, o) = {[u EXCEPT !.LNK = u[gpr(in.ra)]]}
  BY Zenon DEF Outcome
<1>7. in.op = "mtspr" => Outcome(in, u, o) = {[u EXCEPT ![in.f] = in.v]}
  BY Zenon DEF Outcome
<1> QED  BY Zenon, <1>1, <1>2, <1>3, <1>4, <1>5, <1>6, <1>7

LEMMA OutcomeCasesArithmetic ==
  ASSUME NEW in, NEW u, NEW o
  PROVE  /\ in.op \in {"div", "divs"} => Outcome(in, u, o) = Divided(in, u)
         /\ in.op = "lscbx" => Outcome(in, u, o) = Loaded(in, u)
         /\ in.op = "mul" => Outcome(in, u, o) =
              IF o.use_601 THEN {[u EXCEPT !.MQ = x] : x \in Junk} ELSE {u}
         /\ in.op = "fcmp" => \A x \in Outcome(in, u, o) :
              LET free == {b \in 0 .. 3 : <<1, b>> \notin o.ccr_mask} IN
              \E z \in SUBSET free :
                x = [u EXCEPT !.CCR = (u.CCR \ Field(u.CCR, in.rt))
                                        \cup BitsOf(in.rt, (in.v \ free) \cup z)]
         /\ in.op = "fadd" => Outcome(in, u, o) =
              {[u EXCEPT !.fpscr = in.v \cup x] : x \in SUBSET (o.bits \ o.fpscr_mask)}
         /\ in.op = "mcrfs" => \A x \in Outcome(in, u, o) :
              x = [u EXCEPT !.CCR = (u.CCR \ Field(u.CCR, in.rt)) \cup Moved(u.fpscr, in.ra, in.rt)]
<1>1. in.op \in {"div", "divs"} => Outcome(in, u, o) = Divided(in, u)
  BY Zenon DEF Outcome
<1>3. in.op = "lscbx" => Outcome(in, u, o) = Loaded(in, u)
  BY Zenon DEF Outcome
<1>4. in.op = "mul" => Outcome(in, u, o) =
              IF o.use_601 THEN {[u EXCEPT !.MQ = x] : x \in Junk} ELSE {u}
  BY Zenon DEF Outcome
<1>5. in.op = "fcmp" => \A x \in Outcome(in, u, o) :
              LET free == {b \in 0 .. 3 : <<1, b>> \notin o.ccr_mask} IN
              \E z \in SUBSET free :
                x = [u EXCEPT !.CCR = (u.CCR \ Field(u.CCR, in.rt))
                                        \cup BitsOf(in.rt, (in.v \ free) \cup z)]
  <2> DEFINE free == {b \in 0 .. 3 : <<1, b>> \notin o.ccr_mask}
             new(z) == [u EXCEPT !.CCR = (u.CCR \ Field(u.CCR, in.rt))
                                           \cup BitsOf(in.rt, (in.v \ free) \cup z)]
  <2>1. in.op = "fcmp" => Outcome(in, u, o) = {new(z) : z \in SUBSET free}
    BY Zenon DEF Outcome
  <2> HIDE DEF new
  <2>2. in.op = "fcmp" => \A x \in Outcome(in, u, o) : \E z \in SUBSET free : x = new(z)
    BY Zenon, <2>1
  <2> QED  BY Zenon, <2>2 DEF new
<1>6. in.op = "fadd" => Outcome(in, u, o) =
              {[u EXCEPT !.fpscr = in.v \cup x] : x \in SUBSET (o.bits \ o.fpscr_mask)}
  BY Zenon DEF Outcome
<1>7. in.op = "mcrfs" => \A x \in Outcome(in, u, o) :
              x = [u EXCEPT !.CCR = (u.CCR \ Field(u.CCR, in.rt)) \cup Moved(u.fpscr, in.ra, in.rt)]
  <2>1. in.op = "mcrfs" => Outcome(in, u, o) =
          {[u EXCEPT !.CCR = (u.CCR \ Field(u.CCR, in.rt)) \cup Moved(u.fpscr, in.ra, in.rt)]}
    BY Zenon DEF Outcome
  <2> QED  BY <2>1, Zenon
<1> QED  BY <1>1, <1>3, <1>4, <1>5, <1>6, <1>7, Zenon

\* The instructions that give one register a value, and which.
Assigning == {"li", "addi", "mr", "la", "bl", "mflr", "mtlr", "mtspr"}
Dest(in) == IF in.op = "mtspr" THEN in.f ELSE IF in.op \in {"bl", "mtlr"} THEN "LNK"
            ELSE gpr(in.rt)
Assigned(in, u) ==
  IF in.op \in {"li", "addi", "mtspr"} THEN in.v
  ELSE IF in.op \in {"mr", "mtlr"} THEN u[gpr(in.ra)]
  ELSE IF in.op = "la" THEN u.NIP
  ELSE IF in.op = "bl" THEN (u.NIP + 1) % Words ELSE u.LNK

LEMMA ModWord ==
  ASSUME NEW n \in Int
  PROVE  n % Words \in Word
<1> DEFINE W == Words
<1>1. W \in Nat \ {0}
  BY Zenon, WordsAssumption
<1> HIDE DEF W
<1>2. n % W \in 0 .. W - 1
  BY <1>1
<1> QED  BY Zenon, <1>2 DEF W, Word

\* What each kind of instruction leaves in the registers, under a name.
AssignOutcome(in, u, x) ==
  /\ Dest(in) \in Range(Fields) /\ Fit(Dest(in), Assigned(in, u))
  /\ x = Set(u, Dest(in), Assigned(in, u))
  /\ Registers(x) /\ x.NIP = u.NIP /\ x[Dest(in)] = Assigned(in, u)
  /\ \A g \in Range(Fields) \ {Dest(in)} : x[g] = u[g]

LEMMA Assigns ==
  ASSUME NEW u, Registers(u), NEW in, Operands(in), in.op \in Assigning, NEW o, NEW x \in Outcome(in, u, o)
  PROVE  AssignOutcome(in, u, x)
<1> USE DEF AssignOutcome
<1>1. Dest(in) \in Range(Fields) /\ (Dest(in) \in Range(Gpr) \/ Dest(in) = "LNK" \/ in.op = "mtspr")
  BY Zenon, NameFacts, GprFacts DEF Dest, Assigning, Operands, Special
<1>2. x = Set(u, Dest(in), Assigned(in, u))
  <2>1. CASE in.op \in {"li", "addi"}
    BY <2>1, OutcomeCases DEF Dest, Assigned, Set
  <2>2. CASE in.op = "mr"
    BY <2>2, OutcomeCases DEF Dest, Assigned, Set
  <2>3. CASE in.op = "la"
    BY <2>3, OutcomeCases DEF Dest, Assigned, Set
  <2>4. CASE in.op = "bl"
    <3>1. Outcome(in, u, o) = {[u EXCEPT !.LNK = (u.NIP + 1) % Words]}
      BY <2>4, Zenon DEF Outcome
    <3>2. Dest(in) = "LNK" /\ Assigned(in, u) = (u.NIP + 1) % Words
      BY <2>4, Zenon DEF Dest, Assigned
    <3> QED  BY <3>1, <3>2, Zenon DEF Set
  <2>5. CASE in.op = "mflr"
    BY <2>5, OutcomeCases DEF Dest, Assigned, Set
  <2>6. CASE in.op = "mtlr"
    BY <2>6, OutcomeCases DEF Dest, Assigned, Set
  <2>7. CASE in.op = "mtspr"
    BY <2>7, OutcomeCases DEF Dest, Assigned, Set
  <2> QED  BY Zenon, <2>1, <2>2, <2>3, <2>4, <2>5, <2>6, <2>7 DEF Assigning
<1>3. Fit(Dest(in), Assigned(in, u))
  <2>1. CASE in.op = "mtspr"
    <3>1. in.f \in Special \ {"LNK"} /\ in.f \notin Range(Gpr)
      BY Zenon, <2>1, NameFacts DEF Operands
    <3> QED  BY Zenon, <2>1, <3>1 DEF Dest, Assigned, Fit, Operands
  <2>2. CASE in.op # "mtspr"
    <3>1. Dest(in) # "XER" /\ Dest(in) # "fpscr"
      BY Zenon, <2>2, <1>1, NameFacts DEF Special
    <3>2. u.NIP \in Word /\ u.LNK \in Word /\ \A i \in Reg : u[gpr(i)] \in Word
      BY Zenon, GprFacts DEF Registers
    <3>3. (u.NIP + 1) % Words \in Word
      <4>1. u.NIP + 1 \in Int
        BY <3>2, WordsAssumption DEF Word
      <4> QED  BY Zenon, <4>1, ModWord
    <3>4. Assigned(in, u) \in Word
      BY Zenon, <2>2, <3>2, <3>3 DEF Assigned, Operands, Assigning
    <3> QED  BY Zenon, <3>1, <3>4 DEF Fit
  <2> QED  BY Zenon, <2>1, <2>2
<1>4. /\ Registers(x) /\ x.NIP = u.NIP /\ x[Dest(in)] = Assigned(in, u)
      /\ \A g \in Range(Fields) \ {Dest(in)} : x[g] = u[g]
  BY <1>1, <1>2, <1>3, SetField
<1> QED  BY Zenon, <1>1, <1>2, <1>3, <1>4

\* div and divs: the quotient, the remainder and, in the record form, the
\* condition; anything at all where the quotient does not fit.
Quot(in, u) == Quotient(Dividend(in, u), Divisor(in, u))
Rem(in, u) == Dividend(in, u) - Quot(in, u) * Divisor(in, u)
SoOf(u) == IF "SO" \in u.XER.bits THEN {<<0, 3>>} ELSE {}
CrOf(u, c) == (u.CCR \ Field(u.CCR, 0)) \cup c \cup SoOf(u)

DivOutcome(in, u, x) ==
  /\ Registers(x) /\ x.NIP = u.NIP
  /\ \A g \in Range(Fields) \ {gpr(in.rt), "MQ", "CCR"} : x[g] = u[g]
  /\ ~in.dot => x.CCR = u.CCR
  /\ Divides(in, u) => /\ x[gpr(in.rt)] = Quot(in, u) % Words /\ x.MQ = Rem(in, u) % Words
                       /\ in.dot => x.CCR = CrOf(u, Condition(Rem(in, u)))
  /\ ~Divides(in, u) /\ in.dot => \E c \in JunkConditions : x.CCR = CrOf(u, c)

LEMMA QuotientTyped ==
  ASSUME NEW u, Registers(u), NEW in, Operands(in), in.op \in {"div", "divs"}, Divides(in, u)
  PROVE  Quot(in, u) % Words \in Word /\ Rem(in, u) % Words \in Word
<1> DEFINE n == Dividend(in, u)
           dd == Divisor(in, u)
           q == Quot(in, u)
<1>1. /\ gpr(in.ra) \in Range(Gpr) /\ gpr(in.rb) \in Range(Gpr)
  BY Zenon, GprFacts DEF Operands
<1>2. u.MQ \in Word /\ u[gpr(in.ra)] \in Word /\ u[gpr(in.rb)] \in Word
  BY Zenon, <1>1 DEF Registers
<1>3. dd \in Int /\ dd # 0
  BY Zenon, <1>2, SignedZero DEF Divides, Divisor
<1>4. Signed(u[gpr(in.ra)]) \in Int
  BY Zenon, <1>2, SignedZero
<1>5. u.MQ \in Int /\ Words \in Int
  BY <1>2, WordsAssumption DEF Word
<1>6. n \in Int
  <2> DEFINE s == Signed(u[gpr(in.ra)])
  <2>1. n = s * Words + u.MQ \/ n = s
    BY Zenon DEF Dividend
  <2> HIDE DEF n, s, Words
  <2>2. s \in Int
    BY Zenon, <1>4 DEF s
  <2> QED  BY <1>5, <2>1, <2>2
<1>7. q = Quotient(n, dd) /\ Rem(in, u) = n - q * dd
  BY Zenon DEF Quot, Rem
<1> HIDE DEF n, dd, q
<1>8. q \in Int
  BY Zenon, <1>3, <1>6, <1>7, QuotientInt
<1>9. Rem(in, u) \in Int
  BY <1>3, <1>6, <1>7, <1>8
<1> QED  BY Zenon, <1>8, <1>9, ModWord DEF q

LEMMA DivisionSets ==
  ASSUME NEW u, Registers(u), NEW in, Operands(in), in.op \in {"div", "divs"},
         NEW a \in Word, NEW b \in Word, NEW c
  PROVE  LET x == DividedInto(in, u, a, b, c) IN
         /\ Registers(x) /\ x.NIP = u.NIP /\ x[gpr(in.rt)] = a /\ x.MQ = b
         /\ x.CCR = IF in.dot THEN CrOf(u, c) ELSE u.CCR
         /\ \A g \in Range(Fields) \ {gpr(in.rt), "MQ", "CCR"} : x[g] = u[g]
<1> DEFINE t == gpr(in.rt)
           cc == IF in.dot THEN CrOf(u, c) ELSE u.CCR
           y == Set(u, t, a)
           z == Set(y, "MQ", b)
           x == Set(z, "CCR", cc)
<1>1. /\ t \in Range(Fields) /\ t # "MQ" /\ t # "CCR"
      /\ "MQ" \in Range(Fields) /\ "CCR" \in Range(Fields)
  BY Zenon, GprFacts, NameFacts DEF Operands, Special
<1>2. t \in Range(Gpr) /\ \A g \in {"MQ", "CCR"} : g \notin Range(Gpr)
  BY Zenon, GprFacts, NameFacts DEF Operands, Special
<1>3. DividedInto(in, u, a, b, c) = x
  BY Zenon DEF DividedInto, Set, SoOf, CrOf
<1> HIDE DEF t, cc
<1>7. Fit(t, a) /\ Fit("MQ", b) /\ Fit("CCR", cc)
  BY Zenon, <1>1, <1>2, NameFacts DEF Fit, Special
<1>4. /\ Registers(y) /\ y.NIP = u.NIP /\ y[t] = a
      /\ \A g \in Range(Fields) \ {t} : y[g] = u[g]
  BY <1>1, <1>7, SetField
<1> HIDE DEF y
<1>5. /\ Registers(z) /\ z.NIP = y.NIP /\ z["MQ"] = b
      /\ \A g \in Range(Fields) \ {"MQ"} : z[g] = y[g]
  BY <1>1, <1>7, <1>4, SetField
<1> HIDE DEF z
<1>6. /\ Registers(x) /\ x.NIP = z.NIP /\ x["CCR"] = cc
      /\ \A g \in Range(Fields) \ {"CCR"} : x[g] = z[g]
  BY <1>1, <1>7, <1>5, SetField
<1> HIDE DEF x
<1> QED  BY Zenon, <1>1, <1>3, <1>4, <1>5, <1>6 DEF cc, t

LEMMA Division ==
  ASSUME NEW u, Registers(u), NEW in, Operands(in), in.op \in {"div", "divs"},
         NEW o, NEW x \in Outcome(in, u, o)
  PROVE  DivOutcome(in, u, x)
<1> DEFINE to(a, b, c) == DividedInto(in, u, a, b, c)
<1>0. in.dot \in BOOLEAN
  BY Zenon DEF Operands
<1>1. Outcome(in, u, o) =
        IF Divides(in, u)
        THEN {to(Quot(in, u) % Words, Rem(in, u) % Words, Condition(Rem(in, u)))}
        ELSE {to(a[1], a[2], a[3]) : a \in Junk \X Junk \X JunkConditions}
  BY Zenon, OutcomeCasesArithmetic DEF Divided, Quot, Rem
<1> HIDE DEF to
<1>2. ASSUME NEW a \in Word, NEW b \in Word, NEW c
      PROVE  /\ Registers(to(a, b, c)) /\ to(a, b, c).NIP = u.NIP
             /\ to(a, b, c)[gpr(in.rt)] = a /\ to(a, b, c).MQ = b
             /\ to(a, b, c).CCR = IF in.dot THEN CrOf(u, c) ELSE u.CCR
             /\ \A g \in Range(Fields) \ {gpr(in.rt), "MQ", "CCR"} : to(a, b, c)[g] = u[g]
  BY DivisionSets DEF to
<1>3. CASE Divides(in, u)
  <2>1. x = to(Quot(in, u) % Words, Rem(in, u) % Words, Condition(Rem(in, u)))
    BY Zenon, <1>1, <1>3
  <2>2. Quot(in, u) % Words \in Word /\ Rem(in, u) % Words \in Word
    BY Zenon, <1>3, QuotientTyped
  <2>3. /\ Registers(x) /\ x.NIP = u.NIP
        /\ x[gpr(in.rt)] = Quot(in, u) % Words /\ x.MQ = Rem(in, u) % Words
        /\ x.CCR = IF in.dot THEN CrOf(u, Condition(Rem(in, u))) ELSE u.CCR
        /\ \A g \in Range(Fields) \ {gpr(in.rt), "MQ", "CCR"} : x[g] = u[g]
    BY <1>2, <2>1, <2>2
  <2> QED  BY Zenon, <1>0, <1>3, <2>3 DEF DivOutcome
<1>4. CASE ~Divides(in, u)
  <2>1. PICK p \in Junk \X Junk \X JunkConditions : x = to(p[1], p[2], p[3])
    BY Zenon, <1>1, <1>4
  <2>2. p[1] \in Word /\ p[2] \in Word /\ p[3] \in JunkConditions
    BY JunkAssumption
  <2>3. /\ Registers(x) /\ x.NIP = u.NIP
        /\ x.CCR = IF in.dot THEN CrOf(u, p[3]) ELSE u.CCR
        /\ \A g \in Range(Fields) \ {gpr(in.rt), "MQ", "CCR"} : x[g] = u[g]
    BY <1>2, <2>1, <2>2
  <2> QED  BY Zenon, <1>0, <1>4, <2>2, <2>3 DEF DivOutcome
<1> QED  BY Zenon, <1>3, <1>4

\* mul, the comparisons and the floating point instructions.
LEMMA SetsOne ==
  ASSUME NEW u, Registers(u), NEW f \in Special \ {"LNK", "XER"}, NEW val,
         f = "MQ" => val \in Word, f = "fpscr" => val \subseteq Bit
  PROVE  /\ Registers(Set(u, f, val)) /\ Set(u, f, val).NIP = u.NIP /\ Set(u, f, val)[f] = val
         /\ \A g \in Range(Fields) \ {f} : Set(u, f, val)[g] = u[g]
<1>1. f \in Range(Fields) /\ Fit(f, val)
  BY Zenon, NameFacts DEF Fit
<1> QED  BY <1>1, SetField

MulOutcome(in, u, x, o) ==
  /\ Registers(x) /\ x.NIP = u.NIP /\ \A g \in Range(Fields) \ {"MQ"} : x[g] = u[g]
  /\ ~o.use_601 => x = u

LEMMA Multiplies ==
  ASSUME NEW u, Registers(u), NEW in, in.op = "mul", NEW o, NEW x \in Outcome(in, u, o)
  PROVE  MulOutcome(in, u, x, o)
<1> USE DEF MulOutcome
<1>1. Outcome(in, u, o) = IF o.use_601 THEN {Set(u, "MQ", a) : a \in Junk} ELSE {u}
  BY OutcomeCasesArithmetic, Zenon DEF Set
<1>2. CASE o.use_601
  <2>1. PICK a \in Word : x = Set(u, "MQ", a)
    BY Zenon, <1>1, <1>2, JunkAssumption
  <2> QED  BY <1>2, <2>1, SetsOne DEF Special
<1>3. CASE ~o.use_601
  <2>1. x = u
    BY <1>1, <1>3, Zenon
  <2> QED  BY Zenon, <2>1
<1> QED  BY <1>2, <1>3, Zenon

Free(o) == {b \in 0 .. 3 : <<1, b>> \notin o.ccr_mask}
Cleared_of(bits, f) == bits \ Field(bits, f)

FcmpOutcome(in, u, x, o) ==
  /\ Registers(x) /\ x.NIP = u.NIP /\ \A g \in Range(Fields) \ {"CCR"} : x[g] = u[g]
  /\ \E z \in SUBSET Free(o) :
       x.CCR = Cleared_of(u.CCR, in.rt) \cup BitsOf(in.rt, (in.v \ Free(o)) \cup z)

LEMMA ComparesFloats ==
  ASSUME NEW u, Registers(u), NEW in, in.op = "fcmp", NEW o, NEW x \in Outcome(in, u, o)
  PROVE  FcmpOutcome(in, u, x, o)
<1>1. PICK z \in SUBSET Free(o) :
        x = Set(u, "CCR", Cleared_of(u.CCR, in.rt) \cup BitsOf(in.rt, (in.v \ Free(o)) \cup z))
  BY OutcomeCasesArithmetic, ZenonT(30) DEF Set, Free, Cleared_of
<1> DEFINE val == Cleared_of(u.CCR, in.rt) \cup BitsOf(in.rt, (in.v \ Free(o)) \cup z)
<1>2. x = Set(u, "CCR", val)
  BY Zenon, <1>1
<1>3. "CCR" \in Special \ {"LNK", "XER"}
  BY Zenon DEF Special
<1> HIDE DEF val
<1>4. /\ Registers(x) /\ x.NIP = u.NIP /\ x.CCR = val
      /\ \A g \in Range(Fields) \ {"CCR"} : x[g] = u[g]
  BY <1>2, <1>3, SetsOne
<1> QED  BY <1>4, Zenon DEF val, FcmpOutcome

LEMMA MovesField ==
  ASSUME NEW u, Registers(u), NEW in, in.op = "mcrfs", NEW o, NEW x \in Outcome(in, u, o)
  PROVE  /\ Registers(x) /\ x.NIP = u.NIP
         /\ \A g \in Range(Fields) \ {"CCR"} : x[g] = u[g]
         /\ x.CCR = Cleared_of(u.CCR, in.rt) \cup Moved(u.fpscr, in.ra, in.rt)
<1> DEFINE val == Cleared_of(u.CCR, in.rt) \cup Moved(u.fpscr, in.ra, in.rt)
<1>1. x = Set(u, "CCR", val)
  BY OutcomeCasesArithmetic, Zenon DEF Set, Cleared_of
<1>2. "CCR" \in Special \ {"LNK", "XER"}
  BY Zenon DEF Special
<1> HIDE DEF val
<1>3. /\ Registers(x) /\ x.NIP = u.NIP /\ x.CCR = val
      /\ \A g \in Range(Fields) \ {"CCR"} : x[g] = u[g]
  BY <1>1, <1>2, SetsOne
<1> QED  BY Zenon, <1>3 DEF val

LEMMA AddsFloats ==
  ASSUME NEW u, Registers(u), NEW in, Operands(in), in.op = "fadd", NEW o, NEW x \in Outcome(in, u, o),
         o.bits \subseteq Bit
  PROVE  /\ Registers(x) /\ x.NIP = u.NIP
         /\ \A g \in Range(Fields) \ {"fpscr"} : x[g] = u[g]
         /\ x.fpscr \cap o.fpscr_mask = in.v \cap o.fpscr_mask
<1>1. PICK z \in SUBSET (o.bits \ o.fpscr_mask) : x = Set(u, "fpscr", in.v \cup z)
  <2>1. Outcome(in, u, o) = {Set(u, "fpscr", in.v \cup z) : z \in SUBSET (o.bits \ o.fpscr_mask)}
    BY OutcomeCasesArithmetic, Zenon DEF Set
  <2> QED  BY Zenon, <2>1
<1>2. "fpscr" \in Special \ {"LNK", "XER"} /\ in.v \cup z \subseteq Bit
  BY Zenon DEF Special, Operands
<1>3. /\ Registers(x) /\ x.NIP = u.NIP /\ x.fpscr = in.v \cup z
      /\ \A g \in Range(Fields) \ {"fpscr"} : x[g] = u[g]
  BY <1>1, <1>2, SetsOne
<1> QED  BY Zenon, <1>3

----------------------------------------------------------------------------
\* One instruction on both sides

LEMMA SameSource ==
  ASSUME NEW u, NEW v, NEW S, NEW o, CleanBetween(u, v, S, o),
         NEW f \in Range(Fields), f # "LNK", f \notin S, ~Unseen(f, o)
  PROVE  u[f] = v[f]
  BY Zenon DEF CleanBetween, Differs

LEMMA SameLink ==
  ASSUME NEW u, NEW v, NEW S, NEW o, CleanBetween(u, v, S, o), "LNK" \notin S
  PROVE  (u.LNK - u.NIP) % Words = (v.LNK - v.NIP) % Words
<1>1. "LNK" \in Range(Fields) /\ ~Unseen("LNK", o)
  BY Zenon, NameFacts DEF Special, Unseen
<1>2. ~Differs(u, v, "LNK")
  BY Zenon, <1>1 DEF CleanBetween
<1> QED  BY <1>2, Zenon DEF Differs

LEMMA Untouched ==
  ASSUME NEW u, NEW v, NEW x, NEW y, x.NIP = u.NIP, y.NIP = v.NIP,
         NEW f, x[f] = u[f], y[f] = v[f], Differs(x, y, f)
  PROVE  Differs(u, v, f)
<1>1. CASE f = "LNK"
  BY <1>1, Zenon DEF Differs
<1>2. CASE f # "LNK"
  BY <1>2, Zenon DEF Differs
<1> QED  BY Zenon, <1>1, <1>2

\* What is different, and seen, has to be tolerated where the program
\* counters are one instruction on.
LEMMA Accepts ==
  ASSUME NEW x, Registers(x), NEW y, Registers(y), NEW w, NEW o, NEW n,
         \A f \in Range(Fields) :
           Differs(x, y, f) => Unseen(f, o) \/
             Tolerated(Cap(Stepped(x), w), Cap(Stepped(y), w), f, o, n)
  PROVE  Fails(Cap(Stepped(x), w), Cap(Stepped(y), w), o, n) = {}
<1> DEFINE m == Cap(Stepped(x), w)
           a == Cap(Stepped(y), w)
<1>1. Registers(Stepped(x)) /\ Registers(Stepped(y))
  BY Zenon, SteppedFacts
<1>2. ASSUME NEW f \in Range(Fields), Differs(m, a, f)
      PROVE  Ignored(m, a, f, o) \/ Tolerated(m, a, f, o, n)
  <2>1. Differs(x, y, f)
    BY Zenon, <1>1, <1>2, CapDiffers, SteppedDiffers
  <2>2. CASE Unseen(f, o)
    <3> HIDE DEF m, a
    <3>1. CASE f \in Range(Gpr) \ o.gregs_mask
      BY Zenon, <3>1 DEF Ignored, local_gregs_mask
    <3>2. CASE f = "vrregs" /\ ~o.vrregs_mask
      <4>1. Tolerated(m, a, "vrregs", o, n) <=> vrregs_tolerated(o)
        BY Zenon, ToleratedCases
      <4> QED  BY <3>2, <4>1, Zenon DEF vrregs_tolerated
    <3> QED  BY <2>2, <3>1, <3>2, Zenon DEF Unseen
  <2> QED  BY Zenon, <2>1, <2>2
<1> QED  BY Zenon, <1>2, FailsFacts

\* Why an assigned register differs: it did before, or it is an address.
Carried(in, u, v, x, y, f) ==
  \/ f # Dest(in) /\ Differs(u, v, f)
  \/ /\ f = Dest(in) /\ in.op \in {"la", "mflr"} /\ f = gpr(in.rt)
     /\ in.op = "mflr" => (x[f] - x.NIP) % Words = (y[f] - y.NIP) % Words

\* The registers an instruction does not touch are as they were, and what it
\* assigns is the same on both sides, or an address.
LEMMA AssignPair ==
  ASSUME NEW u, Registers(u), NEW v, Registers(v), NEW in, Operands(in), in.op \in Assigning,
         NEW S, NEW o, CleanBetween(u, v, S, o), "LNK" \notin S,
         in.op \in {"mr", "mtlr"} => gpr(in.ra) \in o.gregs_mask \ S,
         in.op = "mtlr" => u.NIP = v.NIP,
         NEW x \in Outcome(in, u, o), NEW y \in Outcome(in, v, o),
         NEW f \in Range(Fields), Differs(x, y, f)
  PROVE  Carried(in, u, v, x, y, f)
<1> USE DEF Carried
<1> DEFINE t == Dest(in)
<1>1. /\ x.NIP = u.NIP /\ x[t] = Assigned(in, u) /\ \A g \in Range(Fields) \ {t} : x[g] = u[g]
      /\ y.NIP = v.NIP /\ y[t] = Assigned(in, v) /\ \A g \in Range(Fields) \ {t} : y[g] = v[g]
      /\ t \in Range(Fields)
  BY Assigns DEF AssignOutcome
<1>2. CASE f # t
  <2>1. x[f] = u[f] /\ y[f] = v[f]
    BY Zenon, <1>1, <1>2
  <2>2. Differs(u, v, f)
    BY <1>1, <2>1, Untouched, Zenon
  <2> QED  BY Zenon, <1>2, <2>2
<1>3. CASE f = t /\ in.op \in {"li", "addi", "mtspr"}
  <2>1. x[f] = y[f]
    BY Zenon, <1>1, <1>3 DEF Assigned
  <2>2. f # "LNK"
    BY Zenon, <1>3, NameFacts, GprFacts DEF Dest, Operands, Special
  <2> QED  BY Zenon, <2>1, <2>2 DEF Differs
<1>4. CASE f = t /\ in.op \in {"mr", "mtlr"}
  <2>1. gpr(in.ra) \in Range(Gpr) /\ ~Unseen(gpr(in.ra), o) /\ gpr(in.ra) # "LNK"
        /\ gpr(in.ra) \in Range(Fields) /\ gpr(in.ra) \notin S
    BY Zenon, <1>4, GprFacts, NameFacts DEF Unseen, Operands, Special
  <2>2. u[gpr(in.ra)] = v[gpr(in.ra)]
    BY Zenon, <2>1, SameSource
  <2>3. x[f] = y[f]
    BY Zenon, <1>1, <1>4, <2>2 DEF Assigned
  <2>4. CASE f = "LNK"
    <3>1. in.op = "mtlr"
      BY Zenon, <1>4, <2>4, NameFacts, GprFacts DEF Dest, Operands, Special
    <3>2. x.NIP = y.NIP /\ x.LNK = y.LNK
      BY Zenon, <1>1, <2>3, <2>4, <3>1
    <3> QED  BY <2>4, <3>2, Zenon DEF Differs
  <2>5. CASE f # "LNK"
    BY Zenon, <2>3, <2>5 DEF Differs
  <2> QED  BY Zenon, <2>4, <2>5
<1>5. CASE f = t /\ in.op = "bl"
  <2>1. f = "LNK" /\ x.LNK = (u.NIP + 1) % Words /\ y.LNK = (v.NIP + 1) % Words
    BY <1>1, <1>5, Zenon DEF Dest, Assigned
  <2>2. Words \in Nat \ {0, 1} /\ u.NIP \in 0 .. Words - 1 /\ v.NIP \in 0 .. Words - 1
    BY Zenon, WordsAssumption DEF Registers, Word
  <2>3. (((u.NIP + 1) % Words) - u.NIP) % Words = 1 /\ (((v.NIP + 1) % Words) - v.NIP) % Words = 1
    BY <2>2, ModSucc, Zenon
  <2> QED  BY <1>1, <2>1, <2>3, Zenon DEF Differs
<1>6. CASE f = t /\ in.op = "mflr"
  <2>1. t = gpr(in.rt) /\ x[t] = u.LNK /\ y[t] = v.LNK
    BY <1>1, <1>6, Zenon DEF Dest, Assigned
  <2>2. (u.LNK - u.NIP) % Words = (v.LNK - v.NIP) % Words
    BY Zenon, SameLink
  <2> QED  BY <1>1, <1>6, <2>1, <2>2, Zenon
<1>7. CASE f = t /\ in.op = "la"
  BY Zenon, <1>7 DEF Dest
<1> QED  BY Zenon, <1>2, <1>3, <1>4, <1>5, <1>6, <1>7 DEF Assigning

LEMMA CapStepped ==
  ASSUME NEW x, Registers(x), NEW w
  PROVE  /\ \A f \in Range(Fields) : Cap(Stepped(x), w)[f] = x[f]
         /\ Cap(Stepped(x), w).NIP = (x.NIP + 1) % Words
         /\ Cap(Stepped(x), w).insns = w
<1>1. Registers(Stepped(x))
  BY Zenon, SteppedFacts
<1> QED  BY <1>1, SteppedFacts, CapFacts

\* mflr: the two addresses differ as the program counters do.
LEMMA LinkTolerated ==
  ASSUME NEW x, Registers(x), NEW y, Registers(y), NEW w, NEW o, NEW n,
         NEW f \in Range(Gpr), w.prev.op = "mflr", f = gpr(w.prev.rt),
         (x[f] - x.NIP) % Words = (y[f] - y.NIP) % Words
  PROVE  Tolerated(Cap(Stepped(x), w), Cap(Stepped(y), w), f, o, n)
<1> DEFINE m == Cap(Stepped(x), w)
           a == Cap(Stepped(y), w)
<1>1. /\ m[f] = x[f] /\ m.NIP = (x.NIP + 1) % Words /\ m.insns = w
      /\ a[f] = y[f] /\ a.NIP = (y.NIP + 1) % Words
  BY CapStepped, NameFacts
<1> HIDE DEF m, a
<1>2. Words \in Nat \ {0} /\ x[f] \in Int /\ x.NIP \in Int /\ y[f] \in Int /\ y.NIP \in Int
  BY WordsAssumption DEF Registers, Word
<1>3. /\ (x[f] - ((x.NIP + 1) % Words)) % Words = (((x[f] - x.NIP) % Words) - 1) % Words
      /\ (y[f] - ((y.NIP + 1) % Words)) % Words = (((y[f] - y.NIP) % Words) - 1) % Words
  BY <1>2, ModStep, Zenon
<1>4. (m[f] - m.NIP) % Words = (a[f] - a.NIP) % Words
  BY <1>1, <1>3, Zenon
<1>5. gregs_tolerated(m, a, f)
  BY <1>1, <1>4, Zenon DEF gregs_tolerated
<1> QED  BY <1>5, ToleratedCases, Zenon DEF m, a

\* What reginfo_is_eq takes for an undefined division is one: divs_undefined
\* sees the operands as they were, unless one of them is the target.
LEMMA ShortDivisionTolerated ==
  ASSUME NEW u, Registers(u), NEW in, Operands(in), in.op = "divs", NEW o, NEW x \in Outcome(in, u, o),
         ~Divides(in, u), NEW m, \A g \in Range(Fields) : m[g] = x[g]
  PROVE  divs_undefined(in, m)
<1>1. CASE Overwritten(in)
  BY Zenon, <1>1 DEF divs_undefined
<1>2. CASE ~Overwritten(in)
  <2> DEFINE t == gpr(in.rt)
             p == gpr(in.ra)
             q == gpr(in.rb)
  <2>1. /\ p \in Range(Gpr) /\ q \in Range(Gpr) /\ p \notin {t, "MQ", "CCR"} /\ q \notin {t, "MQ", "CCR"}
        /\ p \in Range(Fields) /\ q \in Range(Fields)
    BY Zenon, <1>2, GprFacts, NameFacts DEF Operands, Overwritten, Special
  <2>2. \A g \in Range(Fields) \ {t, "MQ", "CCR"} : x[g] = u[g]
    <3>1. DivOutcome(in, u, x)
      BY Zenon, Division
    <3> QED  BY Zenon, <3>1 DEF DivOutcome
  <2>3. m[p] = u[p] /\ m[q] = u[q] /\ u[q] \in Word
    BY Zenon, <2>1, <2>2 DEF Registers
  <2>4. CASE Signed(u[q]) = 0
    <3>1. m[q] = 0
      BY Zenon, <2>3, <2>4, SignedZero
    <3> QED  BY Zenon, <3>1 DEF divs_undefined
  <2>5. CASE ~Fits(Quotient(Signed(u[p]), Signed(u[q])))
    BY <2>3, <2>5, Zenon DEF divs_undefined
  <2>6. Divides(in, u) <=> Signed(u[q]) # 0 /\ Fits(Quotient(Signed(u[p]), Signed(u[q])))
    BY Zenon DEF Divides, Dividend, Divisor
  <2> QED  BY <2>4, <2>5, <2>6, Zenon
<1> QED  BY Zenon, <1>1, <1>2

\* div_undefined looks at the operands and MQ only.
LEMMA JudgedAlike ==
  ASSUME NEW in, Operands(in), in.op = "div", NEW x, NEW m,
         \A g \in Range(Fields) : m[g] = x[g], div_undefined(in, x)
  PROVE  div_undefined(in, m)
<1>1. gpr(in.ra) \in Range(Fields) /\ gpr(in.rb) \in Range(Fields) /\ "MQ" \in Range(Fields)
  BY Zenon, GprFacts, NameFacts DEF Operands, Special
<1>2. m[gpr(in.ra)] = x[gpr(in.ra)] /\ m[gpr(in.rb)] = x[gpr(in.rb)] /\ m.MQ = x.MQ
  BY Zenon, <1>1
<1> QED  BY Zenon, <1>2 DEF div_undefined

\* Under the mask of an undefined div. the conditions are not looked at.
LEMMA ConditionMasked ==
  ASSUME NEW u, NEW c \in JunkConditions, NEW d \in JunkConditions, NEW M
  PROVE  CrOf(u, c) \cap (M \ {<<0, 0>>, <<0, 1>>, <<0, 2>>})
           = CrOf(u, d) \cap (M \ {<<0, 0>>, <<0, 1>>, <<0, 2>>})
<1> DEFINE B == {<<0, 0>>, <<0, 1>>, <<0, 2>>}
           K == u.CCR \ Field(u.CCR, 0)
           S == SoOf(u)
<1>1. c \subseteq B /\ d \subseteq B
  BY Zenon, JunkAssumption
<1> HIDE DEF B, K, S
<1>2. (K \cup c \cup S) \cap (M \ B) = (K \cup d \cup S) \cap (M \ B)
  BY Zenon, <1>1
<1> QED  BY Zenon, <1>2 DEF B, K, S, CrOf

\* fcmp: the bits of the field that the mask of cr1 leaves out are not looked at.
LEMMA FcmpMask ==
  ASSUME NEW M, M \subseteq Bit, NEW o, M = o.ccr_mask, NEW C, NEW rt, NEW v,
         NEW z \in SUBSET Free(o), NEW z2,
         NEW b, b \in Cleared_of(C, rt) \cup BitsOf(rt, (v \ Free(o)) \cup z),
         b \in ((M \ Field(M, rt)) \cup Moved(M, 1, rt)) \cap M
  PROVE  b \in Cleared_of(C, rt) \cup BitsOf(rt, (v \ Free(o)) \cup z2)
<1>1. CASE b \in Cleared_of(C, rt)
  BY Zenon, <1>1
<1>2. CASE b \in BitsOf(rt, v \ Free(o))
  BY Zenon, <1>2 DEF BitsOf
<1>3. CASE b \in BitsOf(rt, z)
  <2>1. PICK c \in z : b = <<rt, c>>
    BY Zenon, <1>3 DEF BitsOf
  <2>2. <<1, c>> \notin M
    BY Zenon, <2>1 DEF Free
  <2>3. b[1] = rt /\ b[2] = c
    BY Zenon, <2>1
  <2>4. b \in Moved(M, 1, rt)
    BY Zenon, <2>3 DEF Field
  <2>5. PICK d \in M : d[1] = 1 /\ b = <<rt, d[2]>>
    BY Zenon, <2>4 DEF Moved, Field
  <2>6. d = <<d[1], d[2]>>
    BY <2>5 DEF Bit
  <2>7. d[2] = c
    BY <2>3, <2>5
  <2> QED  BY Zenon, <2>2, <2>5, <2>6, <2>7
<1> QED  BY Zenon, <1>1, <1>2, <1>3 DEF BitsOf

\* mcrfs: the bits that come from bits of FPSCR the mask leaves out are not
\* looked at.
LEMMA McrfsMask ==
  ASSUME NEW M, NEW F, F \subseteq Bit, NEW p, p \subseteq Bit, NEW q,
         p \cap F = q \cap F, NEW C, NEW ra, NEW rt
  PROVE  (Cleared_of(C, rt) \cup Moved(p, ra, rt))
           \cap (((M \ Field(M, rt)) \cup Moved(F, ra, rt)) \cap M)
             \subseteq Cleared_of(C, rt) \cup Moved(q, ra, rt)
<1> SUFFICES ASSUME NEW b, b \in Cleared_of(C, rt) \cup Moved(p, ra, rt),
                    b \in ((M \ Field(M, rt)) \cup Moved(F, ra, rt)) \cap M
             PROVE  b \in Cleared_of(C, rt) \cup Moved(q, ra, rt)
  BY Zenon
<1>1. CASE b \in Cleared_of(C, rt)
  BY Zenon, <1>1
<1>2. CASE b \in Moved(p, ra, rt)
  <2>1. PICK c \in p : c[1] = ra /\ b = <<rt, c[2]>>
    BY Zenon, <1>2 DEF Moved, Field
  <2>2. b[1] = rt /\ b[2] = c[2]
    BY Zenon, <2>1
  <2>3. b \in Moved(F, ra, rt)
    BY Zenon, <2>2 DEF Field
  <2>4. PICK d \in F : d[1] = ra /\ b = <<rt, d[2]>>
    BY Zenon, <2>3 DEF Moved, Field
  <2>5. c = <<c[1], c[2]>> /\ d = <<d[1], d[2]>> /\ d[2] = c[2]
    BY <2>1, <2>2, <2>4 DEF Bit
  <2>6. c = d
    BY Zenon, <2>1, <2>4, <2>5
  <2>7. c \in q
    BY Zenon, <2>1, <2>4, <2>6
  <2> QED  BY Zenon, <2>1, <2>7 DEF Moved, Field
<1> QED  BY Zenon, <1>1, <1>2

LEMMA McrfsSame ==
  ASSUME NEW M, NEW F, F \subseteq Bit, NEW p, p \subseteq Bit, NEW q, q \subseteq Bit,
         p \cap F = q \cap F, NEW C, NEW ra, NEW rt
  PROVE  (Cleared_of(C, rt) \cup Moved(p, ra, rt))
           \cap (((M \ Field(M, rt)) \cup Moved(F, ra, rt)) \cap M)
         = (Cleared_of(C, rt) \cup Moved(q, ra, rt))
           \cap (((M \ Field(M, rt)) \cup Moved(F, ra, rt)) \cap M)
<1> DEFINE mask == ((M \ Field(M, rt)) \cup Moved(F, ra, rt)) \cap M
           P == Cleared_of(C, rt) \cup Moved(p, ra, rt)
           Q == Cleared_of(C, rt) \cup Moved(q, ra, rt)
<1>1. P \cap mask \subseteq Q
  BY Zenon, McrfsMask
<1>2. Q \cap mask \subseteq P
  BY Zenon, McrfsMask
<1> HIDE DEF mask, P, Q
<1>3. P \cap mask = Q \cap mask
  BY Zenon, <1>1, <1>2
<1> QED  BY Zenon, <1>3 DEF mask, P, Q

\* The same of the registers of two sides.
LEMMA McrfsRegisters ==
  ASSUME NEW u, u.fpscr \subseteq Bit, NEW v, v.fpscr \subseteq Bit,
         NEW o, o.fpscr_mask \subseteq Bit,
         u.fpscr \cap o.fpscr_mask = v.fpscr \cap o.fpscr_mask, NEW in
  PROVE  LET M == o.ccr_mask
             mask == ((M \ Field(M, in.rt)) \cup Moved(o.fpscr_mask, in.ra, in.rt)) \cap M
         IN (Cleared_of(u.CCR, in.rt) \cup Moved(u.fpscr, in.ra, in.rt)) \cap mask
              = (Cleared_of(u.CCR, in.rt) \cup Moved(v.fpscr, in.ra, in.rt)) \cap mask
BY McrfsSame

\* mcrfs, with FPSCRs that are the same under the mask.
LEMMA MovesAccepted ==
  ASSUME NEW u, Registers(u), NEW v, Registers(v), NEW o, o.fpscr_mask \subseteq Bit,
         NEW S, CleanBetween(u, v, S, o), S \subseteq {"fpscr"},
         u.fpscr \cap o.fpscr_mask = v.fpscr \cap o.fpscr_mask,
         NEW in, in.op = "mcrfs", NEW x \in Outcome(in, u, o), NEW y \in Outcome(in, v, o),
         NEW w, w.prev = in, NEW n
  PROVE  Fails(Cap(Stepped(x), w), Cap(Stepped(y), w), o, n) = {}
<1> DEFINE m == Cap(Stepped(x), w)
           a == Cap(Stepped(y), w)
           M == o.ccr_mask
           F == o.fpscr_mask
           mask == ((M \ Field(M, in.rt)) \cup Moved(F, in.ra, in.rt)) \cap M
<1>1. /\ Registers(x) /\ x.NIP = u.NIP /\ \A g \in Range(Fields) \ {"CCR"} : x[g] = u[g]
      /\ x.CCR = Cleared_of(u.CCR, in.rt) \cup Moved(u.fpscr, in.ra, in.rt)
  BY MovesField
<1>2. /\ Registers(y) /\ y.NIP = v.NIP /\ \A g \in Range(Fields) \ {"CCR"} : y[g] = v[g]
      /\ y.CCR = Cleared_of(v.CCR, in.rt) \cup Moved(v.fpscr, in.ra, in.rt)
  BY MovesField
<1>3. "CCR" \in Range(Fields) /\ "fpscr" \in Range(Fields) /\ ~Unseen("CCR", o)
  BY Zenon, NameFacts DEF Special, Unseen
<1>4. /\ m.CCR = x.CCR /\ m.fpscr = x.fpscr /\ m.insns = w
      /\ a.CCR = y.CCR /\ a.fpscr = y.fpscr
  BY <1>1, <1>2, <1>3, CapStepped
<1>5. u.CCR = v.CCR
  BY <1>3, SameSource
<1>6. CcrMask(m, o) = mask
  <2> HIDE DEF m
  <2> QED  BY Zenon, <1>4 DEF CcrMask
<1>7. u.fpscr \subseteq Bit /\ v.fpscr \subseteq Bit
  BY Zenon DEF Registers
<1>8. ASSUME NEW f \in Range(Fields), Differs(x, y, f)
      PROVE  Unseen(f, o) \/ Tolerated(m, a, f, o, n)
  <2>1. CASE f = "CCR"
    <3>1. (Cleared_of(u.CCR, in.rt) \cup Moved(u.fpscr, in.ra, in.rt)) \cap mask
            = (Cleared_of(u.CCR, in.rt) \cup Moved(v.fpscr, in.ra, in.rt)) \cap mask
      BY <1>7, McrfsRegisters
    <3>2. x.CCR \cap mask = y.CCR \cap mask
      BY Zenon, <3>1, <1>1, <1>2, <1>5
    <3> HIDE DEF m, a, mask
    <3>3. m.CCR \cap CcrMask(m, o) = a.CCR \cap CcrMask(m, o)
      BY Zenon, <1>4, <1>6, <3>2
    <3> QED  BY Zenon, <2>1, <3>3, ToleratedCases
  <2>2. CASE f # "CCR"
    <3>1. Differs(u, v, f)
      BY Zenon, <1>1, <1>2, <1>8, <2>2, Untouched
    <3>2. f = "fpscr" \/ Unseen(f, o)
      BY <3>1, Zenon DEF CleanBetween
    <3>3. CASE f = "fpscr"
      <4> HIDE DEF m, a
      <4>1. m.fpscr \cap F = a.fpscr \cap F
        BY Zenon, <1>1, <1>2, <1>3, <1>4
      <4> QED  BY Zenon, <3>3, <4>1, ToleratedCases
    <3> QED  BY Zenon, <3>2, <3>3
  <2> QED  BY Zenon, <2>1, <2>2
<1> QED  BY Zenon, <1>1, <1>2, <1>8, Accepts

\* An instruction that stands alone before a comparison.
LEMMA AloneAccepted ==
  ASSUME NEW u, Registers(u), NEW v, Registers(v), NEW o, CleanBetween(u, v, {}, o),
         o.ccr_mask \cup o.fpscr_mask \cup o.bits \subseteq Bit,
         NEW in, Operands(in), in.op \in Alone,
         in.op \in {"mr", "mtlr", "div", "divs"} => gpr(in.ra) \in o.gregs_mask,
         in.op \in {"div", "divs"} => gpr(in.rb) \in o.gregs_mask,
         in.op = "mtlr" => u.NIP = v.NIP,
         NEW x \in Outcome(in, u, o), NEW y \in Outcome(in, v, o), ~Insisted(in, u, x, o),
         NEW w, w.prev = in, NEW n
  PROVE  Fails(Cap(Stepped(x), w), Cap(Stepped(y), w), o, n) = {}
<1> DEFINE m == Cap(Stepped(x), w)
           a == Cap(Stepped(y), w)
<1>0. \A g : Differs(u, v, g) /\ g \in Range(Fields) => Unseen(g, o)
  BY Zenon DEF CleanBetween
<1>1. CASE in.op \in Assigning
  <2>1. Registers(x) /\ Registers(y)
    BY Zenon, <1>1, Assigns DEF AssignOutcome
  <2>2. ASSUME NEW f \in Range(Fields), Differs(x, y, f)
        PROVE  Unseen(f, o) \/ Tolerated(m, a, f, o, n)
    <3>1. \/ Differs(u, v, f)
          \/ /\ in.op \in {"la", "mflr"} /\ f = gpr(in.rt)
             /\ in.op = "mflr" => (x[f] - x.NIP) % Words = (y[f] - y.NIP) % Words
      <4>1. /\ "LNK" \notin {} /\ CleanBetween(u, v, {}, o)
            /\ in.op \in {"mr", "mtlr"} => gpr(in.ra) \in o.gregs_mask \ {}
        BY Zenon
      <4>2. Carried(in, u, v, x, y, f)
        BY Zenon, <1>1, <2>2, <4>1, AssignPair
      <4> QED  BY Zenon, <4>2 DEF Carried
    <3>2. CASE Differs(u, v, f)
      BY Zenon, <3>2, <1>0
    <3>3. CASE in.op = "mflr" /\ f = gpr(in.rt) /\ (x[f] - x.NIP) % Words = (y[f] - y.NIP) % Words
      <4>1. f \in Range(Gpr)
        BY Zenon, <3>3, GprFacts DEF Operands
      <4> QED  BY Zenon, <2>1, <3>3, <4>1, LinkTolerated
    <3> QED  BY Zenon, <3>1, <3>2, <3>3 DEF Alone
  <2> QED  BY Zenon, <2>1, <2>2, Accepts
<1>2. CASE in.op \in {"div", "divs"}
  <2> DEFINE t == gpr(in.rt)
  <2>1. /\ t \in Range(Gpr) /\ t \in Range(Fields)
        /\ gpr(in.ra) \in Range(Gpr) /\ gpr(in.rb) \in Range(Gpr)
        /\ gpr(in.ra) \in Range(Fields) /\ gpr(in.rb) \in Range(Fields)
        /\ {"MQ", "CCR", "XER"} \subseteq Range(Fields) /\ t # "LNK"
        /\ gpr(in.ra) # "LNK" /\ gpr(in.rb) # "LNK"
    BY Zenon, <1>2, GprFacts, NameFacts DEF Operands, Special
  <2>2. /\ ~Unseen(gpr(in.ra), o) /\ ~Unseen(gpr(in.rb), o)
        /\ \A g \in {"MQ", "CCR", "XER"} : ~Unseen(g, o)
    BY Zenon, <1>2, <2>1, NameFacts DEF Unseen, Special
  <2>3. /\ u[gpr(in.ra)] = v[gpr(in.ra)] /\ u[gpr(in.rb)] = v[gpr(in.rb)]
        /\ u["MQ"] = v["MQ"] /\ u["CCR"] = v["CCR"] /\ u["XER"] = v["XER"]
    BY SMTT(30), <2>1, <2>2, SameSource
  <2>4. DivOutcome(in, u, x) /\ DivOutcome(in, v, y)
    BY Zenon, <1>2, Division
  <2>5. /\ Registers(x) /\ Registers(y) /\ x.NIP = u.NIP /\ y.NIP = v.NIP
        /\ \A g \in Range(Fields) \ {t, "MQ", "CCR"} : x[g] = u[g] /\ y[g] = v[g]
    BY Zenon, <2>4 DEF DivOutcome
  <2>6. m.insns = w /\ \A g \in Range(Fields) : m[g] = x[g] /\ a[g] = y[g]
    BY ZenonT(30), <2>5, CapStepped
  <2>7. Dividend(in, u) = Dividend(in, v) /\ Divisor(in, u) = Divisor(in, v)
    BY Zenon, <2>3 DEF Dividend, Divisor
  <2>8. Divides(in, u) = Divides(in, v) /\ Quot(in, u) = Quot(in, v) /\ Rem(in, u) = Rem(in, v)
    BY Zenon, <2>7 DEF Divides, Quot, Rem
  <2>9. \A c : CrOf(u, c) = CrOf(v, c)
    BY Zenon, <2>3 DEF CrOf, SoOf
  <2>10. in.dot \in BOOLEAN
    BY Zenon, <1>2 DEF Operands
  <2>11. ASSUME NEW f \in Range(Fields), Differs(x, y, f)
         PROVE  Unseen(f, o) \/ Tolerated(m, a, f, o, n)
    <3>1. CASE f \notin {t, "MQ", "CCR"}
      <4>1. Differs(u, v, f)
        BY Zenon, <2>5, <2>11, <3>1, Untouched
      <4> QED  BY Zenon, <4>1, <1>0
    <3>2. CASE f \in {t, "MQ", "CCR"} /\ Divides(in, u)
      <4>1. x[f] = y[f]
        <5>1. CASE f = t
          BY Zenon, <2>4, <2>8, <3>2, <5>1 DEF DivOutcome
        <5>2. CASE f = "MQ"
          BY Zenon, <2>4, <2>8, <3>2, <5>2 DEF DivOutcome
        <5>3. CASE f = "CCR"
          BY ZenonT(30), <2>3, <2>4, <2>8, <2>9, <2>10, <3>2, <5>3 DEF DivOutcome
        <5> QED  BY Zenon, <3>2, <5>1, <5>2, <5>3
      <4> QED  BY Zenon, <2>1, <2>11, <3>2, <4>1 DEF Differs
    <3>3. CASE f = "CCR" /\ ~in.dot
      <4>1. x.CCR = y.CCR
        BY Zenon, <2>3, <2>4, <3>3 DEF DivOutcome
      <4> QED  BY Zenon, <2>11, <3>3, <4>1 DEF Differs
    <3>4. CASE in.op = "div" /\ ~Divides(in, u) /\ (f = "CCR" => in.dot) /\ f \in {t, "MQ", "CCR"}
      <4>1. div_undefined(in, x)
        BY Zenon, <3>4 DEF Insisted
      <4>2. div_undefined(in, m)
        BY <2>6, <3>4, <4>1, JudgedAlike
      <4> HIDE DEF m, a
      <4>3. CASE f = t
        <5>1. gregs_tolerated(m, a, f)
          BY <2>6, <3>4, <4>2, <4>3, Zenon DEF gregs_tolerated
        <5> QED  BY <2>1, <4>3, <5>1, ToleratedCases, Zenon
      <4>4. CASE f = "MQ"
        <5>1. mq_tolerated(m, o, n)
          BY <2>6, <3>4, <4>2, Zenon DEF mq_tolerated
        <5> QED  BY <4>4, <5>1, ToleratedCases, Zenon
      <4>5. CASE f = "CCR"
        <5> DEFINE mask == o.ccr_mask \ {<<0, 0>>, <<0, 1>>, <<0, 2>>}
        <5>1. CcrMask(m, o) = mask
          BY Zenon, <2>6, <3>4, <4>2, <4>5 DEF CcrMask
        <5>2. PICK c \in JunkConditions : x.CCR = CrOf(u, c)
          BY Zenon, <2>4, <3>4, <4>5 DEF DivOutcome
        <5>3. PICK d \in JunkConditions : y.CCR = CrOf(u, d)
          BY Zenon, <2>4, <2>8, <2>9, <3>4, <4>5 DEF DivOutcome
        <5>4. x.CCR \cap mask = y.CCR \cap mask
          BY <5>2, <5>3, ConditionMasked
        <5> HIDE DEF mask
        <5>5. m.CCR = x.CCR /\ a.CCR = y.CCR
          BY Zenon, <2>1, <2>6
        <5>6. m.CCR \cap CcrMask(m, o) = a.CCR \cap CcrMask(m, o)
          BY Zenon, <5>1, <5>4, <5>5
        <5> QED  BY Zenon, <4>5, <5>6, ToleratedCases
      <4> QED  BY Zenon, <3>4, <4>3, <4>4, <4>5
    <3>5. CASE in.op = "divs" /\ ~Divides(in, u) /\ f \in {t, "MQ"}
      <4>1. ~o.mq_mask
        BY Zenon, <3>5 DEF Insisted
      <4>2. divs_undefined(in, m)
        BY <2>6, <3>5, ShortDivisionTolerated
      <4> HIDE DEF m, a
      <4>3. CASE f = t
        <5>1. gregs_tolerated(m, a, f)
          BY <2>6, <3>5, <4>2, <4>3, Zenon DEF gregs_tolerated
        <5> QED  BY <2>1, <4>3, <5>1, ToleratedCases, Zenon
      <4>4. CASE f = "MQ"
        <5>1. mq_tolerated(m, o, n)
          BY <4>1, Zenon DEF mq_tolerated
        <5> QED  BY <4>4, <5>1, ToleratedCases, Zenon
      <4> QED  BY Zenon, <3>5, <4>3, <4>4
    <3>6. in.op = "divs" /\ ~Divides(in, u) => ~in.dot
      BY Zenon DEF Insisted
    <3> QED  BY Zenon, <1>2, <2>10, <3>1, <3>2, <3>3, <3>4, <3>5, <3>6
  <2> QED  BY Zenon, <2>5, <2>11, Accepts
<1>3. CASE in.op = "mul"
  <2>1. MulOutcome(in, u, x, o)
    BY Zenon, <1>3, Multiplies
  <2>2. MulOutcome(in, v, y, o)
    BY Zenon, <1>3, Multiplies
  <2> USE DEF MulOutcome
  <2>3. m.insns = w
    BY Zenon, <2>1, CapStepped
  <2>4. ASSUME NEW f \in Range(Fields), Differs(x, y, f)
        PROVE  Unseen(f, o) \/ Tolerated(m, a, f, o, n)
    <3>1. CASE f # "MQ"
      <4>1. Differs(u, v, f)
        BY Zenon, <2>1, <2>2, <2>4, <3>1, Untouched
      <4> QED  BY Zenon, <4>1, <1>0
    <3>2. CASE f = "MQ" /\ o.use_601
      <4> HIDE DEF m, a
      <4>1. mq_tolerated(m, o, n)
        BY <1>3, <2>3, <3>2, Zenon DEF mq_tolerated
      <4> QED  BY Zenon, <3>2, <4>1, ToleratedCases
    <3>3. CASE ~o.use_601
      <4>1. x = u /\ y = v
        BY <2>1, <2>2, <3>3, ZenonT(30)
      <4> QED  BY Zenon, <4>1, <2>4, <1>0
    <3> QED  BY <3>1, <3>2, <3>3, Zenon
  <2> QED  BY Zenon, <2>1, <2>2, <2>4, Accepts
<1>4. CASE in.op = "fcmp"
  <2> DEFINE M == o.ccr_mask
             mask == ((M \ Field(M, in.rt)) \cup Moved(M, 1, in.rt)) \cap M
             to(z) == Cleared_of(u.CCR, in.rt) \cup BitsOf(in.rt, (in.v \ Free(o)) \cup z)
  <2>1. "CCR" \in Range(Fields) /\ ~Unseen("CCR", o)
    BY Zenon, NameFacts DEF Special, Unseen
  <2>2. u.CCR = v.CCR
    BY <2>1, SameSource
  <2>3. FcmpOutcome(in, u, x, o)
    BY Zenon, <1>4, ComparesFloats
  <2>4. FcmpOutcome(in, v, y, o)
    BY Zenon, <1>4, ComparesFloats
  <2> USE DEF FcmpOutcome
  <2>5. PICK z1 \in SUBSET Free(o) : x.CCR = to(z1)
    BY <2>3, Zenon
  <2>6. PICK z2 \in SUBSET Free(o) : y.CCR = to(z2)
    BY <2>2, <2>4, Zenon
  <2>7. M \subseteq Bit
    BY Zenon
  <2>8. x.CCR \cap mask \subseteq y.CCR \cap mask
    <3> SUFFICES ASSUME NEW b \in x.CCR, b \in mask PROVE b \in y.CCR
      BY Zenon
    <3> QED  BY <2>5, <2>6, <2>7, FcmpMask, Zenon
  <2>9. y.CCR \cap mask \subseteq x.CCR \cap mask
    <3> SUFFICES ASSUME NEW b \in y.CCR, b \in mask PROVE b \in x.CCR
      BY Zenon
    <3> QED  BY <2>5, <2>6, <2>7, FcmpMask, Zenon
  <2>10. m.CCR = x.CCR /\ a.CCR = y.CCR /\ m.insns = w
    <3>1. Registers(x) /\ Registers(y)
      BY <2>3, <2>4, Zenon
    <3> QED  BY <2>1, <3>1, CapStepped
  <2>11. CcrMask(m, o) = mask
    <3> HIDE DEF m
    <3> QED  BY Zenon, <1>4, <2>10 DEF CcrMask
  <2>12. ASSUME NEW f \in Range(Fields), Differs(x, y, f)
         PROVE  Unseen(f, o) \/ Tolerated(m, a, f, o, n)
    <3>1. CASE f # "CCR"
      <4>1. Differs(u, v, f)
        BY Zenon, <2>3, <2>4, <2>12, <3>1, Untouched
      <4> QED  BY Zenon, <4>1, <1>0
    <3>2. CASE f = "CCR"
      <4> HIDE DEF m, a, mask
      <4>1. m.CCR \cap CcrMask(m, o) = a.CCR \cap CcrMask(m, o)
        BY Zenon, <2>8, <2>9, <2>10, <2>11
      <4> QED  BY Zenon, <3>2, <4>1, ToleratedCases
    <3> QED  BY Zenon, <3>1, <3>2
  <2> QED  BY <2>3, <2>4, <2>12, Accepts, Zenon
<1>5. CASE in.op = "fadd"
  <2>1. /\ Registers(x) /\ x.NIP = u.NIP /\ \A g \in Range(Fields) \ {"fpscr"} : x[g] = u[g]
        /\ x.fpscr \cap o.fpscr_mask = in.v \cap o.fpscr_mask
    BY <1>5, AddsFloats
  <2>2. /\ Registers(y) /\ y.NIP = v.NIP /\ \A g \in Range(Fields) \ {"fpscr"} : y[g] = v[g]
        /\ y.fpscr \cap o.fpscr_mask = in.v \cap o.fpscr_mask
    BY SMTT(30), <1>5, AddsFloats
  <2>3. m.fpscr = x.fpscr /\ a.fpscr = y.fpscr
    BY SMTT(30), <2>1, <2>2, CapStepped, NameFacts DEF Special
  <2>4. ASSUME NEW f \in Range(Fields), Differs(x, y, f)
        PROVE  Unseen(f, o) \/ Tolerated(m, a, f, o, n)
    <3>1. CASE f # "fpscr"
      <4>1. Differs(u, v, f)
        BY Zenon, <2>1, <2>2, <2>4, <3>1, Untouched
      <4> QED  BY Zenon, <4>1, <1>0
    <3>2. CASE f = "fpscr"
      <4> HIDE DEF m, a
      <4> QED  BY Zenon, <3>2, <2>1, <2>2, <2>3, ToleratedCases
    <3> QED  BY Zenon, <3>1, <3>2
  <2> QED  BY Zenon, <2>1, <2>2, <2>4, Accepts
<1>6. CASE in.op = "mcrfs"
  <2>1. "fpscr" \in Range(Fields) /\ ~Unseen("fpscr", o)
    BY Zenon, NameFacts DEF Special, Unseen
  <2>2. u.fpscr = v.fpscr
    BY <2>1, SameSource
  <2> QED  BY <1>6, <2>2, MovesAccepted
<1> QED  BY Zenon, <1>1, <1>2, <1>3, <1>4, <1>5, <1>6 DEF Alone, Assigning

----------------------------------------------------------------------------
\* The pairs of instructions.

\* lscbx: the registers it loads, and the bytes it leaves open.
LoadedRegs(in) == {gpr((in.rt + k) % Len(Gpr)) : k \in 0 .. (in.n - 1) \div Bytes}
LowOf(in) == IF in.n % Bytes = 0 THEN 1 ELSE Low(in.n)

LEMMA LowFacts ==
  ASSUME NEW in, in.n \in Nat \ {0}, in.rt \in Reg
  PROVE  /\ LowOf(in) \in Nat \ {0} /\ Words % LowOf(in) = 0 /\ Words \in Nat \ {0, 1}
         /\ (in.n - 1) \div Bytes \in Nat /\ LastLoaded(in) \in LoadedRegs(in)
         /\ LoadedRegs(in) \subseteq Range(Gpr)
<1>1. /\ Bytes \in Nat \ {0} /\ ByteBits \in Nat \ {0} /\ Words \in Nat \ {0, 1}
      /\ \A k \in 1 .. Bytes :
           2 ^ (ByteBits * k) \in Nat \ {0} /\ Words % (2 ^ (ByteBits * k)) = 0
  BY Zenon, WordsAssumption
<1>2. LowOf(in) \in Nat \ {0} /\ Words % LowOf(in) = 0
  <2>1. CASE in.n % Bytes = 0
    <3>1. LowOf(in) = 1
      BY Zenon, <2>1 DEF LowOf
    <3> HIDE DEF Words
    <3>2. \A W \in Nat : W % 1 = 0
      OBVIOUS
    <3> QED  BY <1>1, <3>1, <3>2
  <2>2. CASE in.n % Bytes # 0
    <3> DEFINE k == Bytes - (in.n % Bytes)
    <3>1. k \in 1 .. Bytes
      BY <1>1
    <3>2. LowOf(in) = 2 ^ (ByteBits * k)
      BY Zenon, <2>2 DEF LowOf, Low
    <3> HIDE DEF k
    <3> QED  BY Zenon, <1>1, <3>1, <3>2
  <2> QED  BY Zenon, <2>1, <2>2
<1>3. (in.n - 1) \div Bytes \in Nat
  <2>1. in.n - 1 \in Nat
    OBVIOUS
  <2>2. \A a \in Nat, b \in Nat \ {0} : a \div b \in Nat
    OBVIOUS
  <2> QED  BY Zenon, <1>1, <2>1, <2>2
<1>4. LastLoaded(in) \in LoadedRegs(in)
  <2> DEFINE last == (in.n - 1) \div Bytes
  <2>1. last \in 0 .. last
    BY <1>3
  <2> QED  BY Zenon, <2>1 DEF LastLoaded, LoadedRegs
<1>5. LoadedRegs(in) \subseteq Range(Gpr)
  <2> SUFFICES ASSUME NEW k \in 0 .. (in.n - 1) \div Bytes
               PROVE  gpr((in.rt + k) % Len(Gpr)) \in Range(Gpr)
    BY Zenon DEF LoadedRegs
  <2>1. k \in Nat /\ in.rt \in Nat /\ Len(Gpr) \in Nat \ {0}
    BY <1>3, GprFacts DEF Reg
  <2>2. \A a, b \in Nat : \A c \in Nat \ {0} : (a + b) % c \in 0 .. c - 1
    OBVIOUS
  <2>3. (in.rt + k) % Len(Gpr) \in Reg
    BY Zenon, <2>1, <2>2 DEF Reg
  <2> QED  BY Zenon, <2>3, GprFacts
<1> QED  BY Zenon, <1>1, <1>2, <1>3, <1>4, <1>5

LoadOutcome(in, u, x) ==
  /\ Registers(x) /\ x.NIP = u.NIP
  /\ x.XER = [u.XER EXCEPT !.count = in.n] /\ x.XER.count = in.n
  /\ \A g \in LoadedRegs(in) \ {LastLoaded(in)} : x[g] = in.v
  /\ \A g \in Range(Fields) \ (LoadedRegs(in) \cup {"XER"}) : x[g] = u[g]
  /\ x[LastLoaded(in)] \div LowOf(in) = in.v \div LowOf(in)
  /\ in.n % Bytes = 0 => x[LastLoaded(in)] = in.v

LEMMA Loads ==
  ASSUME NEW u, Registers(u), NEW in, Operands(in), in.op = "lscbx", NEW o, NEW x \in Outcome(in, u, o)
  PROVE  LoadOutcome(in, u, x)
<1> USE DEF LoadOutcome
<1> DEFINE last == LastLoaded(in)
           rest == LowOf(in)
           full == [f \in DOMAIN u |-> IF f \in LoadedRegs(in) THEN in.v ELSE u[f]]
           val(z) == (in.v \div rest) * rest + (z % rest)
           xer == [u.XER EXCEPT !.count = in.n]
<1>1. in.n \in Nat \ {0} /\ in.rt \in Reg /\ in.v \in Word
  BY Zenon DEF Operands
<1>2. /\ rest \in Nat \ {0} /\ Words % rest = 0 /\ Words \in Nat \ {0, 1}
      /\ last \in LoadedRegs(in) /\ LoadedRegs(in) \subseteq Range(Gpr)
  BY Zenon, <1>1, LowFacts
<1>3. PICK z \in Junk : x = [full EXCEPT ![last] = val(z), !.XER.count = in.n]
  <2>1. x \in Loaded(in, u)
    BY Zenon, OutcomeCasesArithmetic
  <2> DEFINE reg(k) == gpr((in.rt + k) % Len(Gpr))
             top == (in.n - 1) \div Bytes
             raw == [f \in DOMAIN u |-> IF \E k \in 0 .. top : f = reg(k) THEN in.v ELSE u[f]]
             low == IF in.n % Bytes = 0 THEN 1 ELSE Low(in.n)
  <2>2. PICK z \in Junk :
          x = [raw EXCEPT ![LastLoaded(in)] = (in.v \div low) * low + (z % low), !.XER.count = in.n]
    BY <2>1, Zenon DEF Loaded
  <2>3. raw = full /\ low = rest
    BY Zenon DEF LoadedRegs, LowOf
  <2> HIDE DEF raw, reg, top, low, full, rest
  <2> QED  BY <2>2, <2>3, Zenon
<1>4. z \in Nat
  BY <1>2, JunkAssumption DEF Word
<1>5. val(z) \in Word /\ val(z) \div rest = in.v \div rest
  <2> HIDE DEF rest
  <2>1. in.v \in 0 .. Words - 1
    BY Zenon, <1>1 DEF Word
  <2> DEFINE V == in.v
             W == Words
  <2>2. V \in 0 .. W - 1 /\ W \in Nat \ {0} /\ W % rest = 0
    BY Zenon, <1>2, <2>1
  <2>3. V = in.v /\ Word = 0 .. W - 1
    BY Zenon DEF Word
  <2> HIDE DEF V, W
  <2>4. (V \div rest) * rest + (z % rest) \in 0 .. W - 1
        /\ ((V \div rest) * rest + (z % rest)) \div rest = V \div rest
    BY <1>2, <1>4, <2>2, LowReplaced, Zenon
  <2> QED  BY Zenon, <2>3, <2>4
<1>6. in.n % Bytes = 0 => val(z) = in.v
  <2> SUFFICES ASSUME in.n % Bytes = 0 PROVE val(z) = in.v
    BY Zenon
  <2>1. rest = 1
    BY Zenon DEF LowOf
  <2>2. in.v \in Int
    BY <1>1, <1>2 DEF Word
  <2>3. \A a, b \in Int : (a \div 1) * 1 + (b % 1) = a
    OBVIOUS
  <2> QED  BY <1>4, <2>1, <2>2, <2>3
<1> HIDE DEF val, rest, last
<1>7. /\ DOMAIN u = Range(Gpr) \cup Special \cup {"NIP"}
      /\ \A f \in Range(Gpr) \cup {"MQ", "LNK", "NIP"} : u[f] \in Word
      /\ DOMAIN u.XER = {"bits", "count"} /\ u.fpscr \subseteq Bit
  BY Zenon DEF Registers
<1>8. "XER" \in DOMAIN u /\ "XER" \notin Range(Gpr) /\ "NIP" \notin Range(Gpr)
  BY Zenon, <1>7, NameFacts DEF Special
<1>9. full.XER = u.XER /\ DOMAIN full = DOMAIN u
  BY Zenon, <1>2, <1>8
<1>10. x = [f \in DOMAIN u |-> IF f = "XER" THEN xer ELSE IF f = last THEN val(z) ELSE full[f]]
  <2>1. last # "XER" /\ last \in DOMAIN u
    BY Zenon, <1>2, <1>7, <1>8
  <2>2. [full EXCEPT ![last] = val(z)].XER = u.XER
    BY <1>9, <2>1
  <2> HIDE DEF full
  <2> QED  BY <1>3, <1>9, <2>1, <2>2, Zenon
<1>11. /\ x.XER = xer /\ x[last] = val(z) /\ x.NIP = u.NIP /\ DOMAIN x = DOMAIN u
       /\ \A g \in LoadedRegs(in) \ {last} : x[g] = in.v
       /\ \A g \in (Range(Fields) \cup {"NIP"}) \ (LoadedRegs(in) \cup {"XER"}) : x[g] = u[g]
  <2>1. Range(Fields) \subseteq DOMAIN u /\ "NIP" \in DOMAIN u /\ LoadedRegs(in) \subseteq DOMAIN u
    BY Zenon, <1>2, <1>7, FieldFacts
  <2>2. last # "XER" /\ last \in DOMAIN u
    BY Zenon, <1>2, <1>7, <1>8
  <2> HIDE DEF xer
  <2> QED  BY Zenon, <1>2, <1>8, <1>10, <2>1, <2>2
<1>12. DOMAIN xer = {"bits", "count"} /\ xer.count = in.n
  BY Zenon, <1>7
<1>13. Registers(x)
  <2>1. \A f \in Range(Gpr) \cup {"MQ", "LNK", "NIP"} : x[f] \in Word
    <3> SUFFICES ASSUME NEW f \in Range(Gpr) \cup {"MQ", "LNK", "NIP"} PROVE x[f] \in Word
      BY Zenon
    <3>1. f \in Range(Fields) \cup {"NIP"} /\ f # "XER"
      BY Zenon, NameFacts DEF Special
    <3>2. CASE f = last
      BY Zenon, <1>5, <1>11, <3>2
    <3>3. CASE f \in LoadedRegs(in) \ {last}
      BY Zenon, <1>1, <1>11, <3>3
    <3>4. CASE f \notin LoadedRegs(in)
      BY Zenon, <1>7, <1>11, <3>1, <3>4
    <3> QED  BY Zenon, <3>2, <3>3, <3>4
  <2>2. x.fpscr = u.fpscr
    <3>1. "fpscr" \in Range(Fields) \ (LoadedRegs(in) \cup {"XER"})
      BY Zenon, <1>2, NameFacts DEF Special
    <3> QED  BY Zenon, <1>11, <3>1
  <2> HIDE DEF xer
  <2> QED  BY Zenon, <1>7, <1>11, <1>12, <2>1, <2>2 DEF Registers
<1> QED  BY Zenon, <1>5, <1>6, <1>11, <1>12, <1>13 DEF last, rest

\* Whatever the instruction, the registers stay registers.
LEMMA OutcomeTyped ==
  ASSUME NEW u, Registers(u), NEW in, Operands(in), in.op \in Alone \cup {"la", "lscbx"},
         NEW o, o.bits \subseteq Bit, NEW x \in Outcome(in, u, o)
  PROVE  Registers(x) /\ x.NIP = u.NIP
<1>1. CASE in.op \in Assigning
  BY <1>1, Assigns DEF AssignOutcome
<1>2. CASE in.op \in {"div", "divs"}
  <2>1. DivOutcome(in, u, x)
    BY Zenon, <1>2, Division
  <2> QED  BY Zenon, <2>1 DEF DivOutcome
<1>4. CASE in.op = "mul"
  BY <1>4, Multiplies DEF MulOutcome
<1>5. CASE in.op = "fcmp"
  <2>1. FcmpOutcome(in, u, x, o)
    BY Zenon, <1>5, ComparesFloats
  <2> QED  BY Zenon, <2>1 DEF FcmpOutcome
<1>6. CASE in.op = "fadd"
  BY <1>6, AddsFloats
<1>7. CASE in.op = "mcrfs"
  BY <1>7, MovesField
<1>8. CASE in.op = "lscbx"
  <2>1. LoadOutcome(in, u, x)
    BY Zenon, <1>8, Loads
  <2> QED  BY Zenon, <2>1 DEF LoadOutcome
<1> QED  BY Zenon, <1>1, <1>2, <1>4, <1>5, <1>6, <1>7, <1>8 DEF Alone, Assigning

\* What differs behind an instruction differs before its program counter is
\* stepped.
LEMMA SteppedClean ==
  ASSUME NEW x, Registers(x), NEW y, Registers(y), NEW S, NEW o,
         \A f \in Range(Fields) : Differs(x, y, f) => f \in S \/ Unseen(f, o)
  PROVE  CleanBetween(Stepped(x), Stepped(y), S, o)
  BY Zenon, SteppedDiffers DEF CleanBetween

LoadedClean(in, u, v, o) ==
  /\ u.XER.count = in.n
  /\ CleanBetween(u, v, IF in.n % Bytes = 0 THEN {} ELSE {LastLoaded(in)}, o)
  /\ in.n % Bytes # 0 => u[LastLoaded(in)] \div Low(in.n) = v[LastLoaded(in)] \div Low(in.n)

\* Behind lscbx only the rest of the last register differs.
LEMMA LoadsPair ==
  ASSUME NEW u, Registers(u), NEW v, Registers(v), NEW o, CleanBetween(u, v, {}, o),
         NEW in, Operands(in), in.op = "lscbx",
         NEW x \in Outcome(in, u, o), NEW y \in Outcome(in, v, o)
  PROVE  LoadedClean(in, Stepped(x), Stepped(y), o)
<1> DEFINE f == LastLoaded(in)
           S == IF in.n % Bytes = 0 THEN {} ELSE {f}
           P(r, z) ==
             /\ Registers(z) /\ z.NIP = r.NIP
             /\ z.XER = [r.XER EXCEPT !.count = in.n] /\ z.XER.count = in.n
             /\ \A g \in LoadedRegs(in) \ {f} : z[g] = in.v
             /\ \A g \in Range(Fields) \ (LoadedRegs(in) \cup {"XER"}) : z[g] = r[g]
             /\ z[f] \div LowOf(in) = in.v \div LowOf(in)
             /\ in.n % Bytes = 0 => z[f] = in.v
<1>0. LoadOutcome(in, u, x) /\ LoadOutcome(in, v, y)
  BY Zenon, Loads
<1>1. P(u, x)
  BY <1>0, Zenon DEF LoadOutcome
<1>2. P(v, y)
  BY <1>0, Zenon DEF LoadOutcome
<1>3. /\ f \in LoadedRegs(in) /\ LoadedRegs(in) \subseteq Range(Gpr)
      /\ Range(Gpr) \subseteq Range(Fields) /\ "XER" \in Range(Fields)
      /\ "XER" \notin Range(Gpr) /\ "LNK" \notin Range(Gpr)
  BY Zenon, LowFacts, NameFacts DEF Operands, Special
<1>4. u.XER = v.XER
  <2>1. ~Unseen("XER", o)
    BY Zenon, <1>3 DEF Unseen
  <2> QED  BY <1>3, <2>1, SameSource
<1> HIDE DEF f
<1>5. ASSUME NEW g \in Range(Fields), Differs(x, y, g) PROVE g \in S \/ Unseen(g, o)
  <2>1. CASE g = "XER"
    BY Zenon, <1>1, <1>2, <1>4, <1>5, <2>1 DEF Differs
  <2>2. CASE g \in LoadedRegs(in) \ {f}
    BY Zenon, <1>1, <1>2, <1>3, <1>5, <2>2 DEF Differs
  <2>3. CASE g = f
    BY Zenon, <1>1, <1>2, <1>3, <1>5, <2>3 DEF Differs
  <2>4. CASE g \notin LoadedRegs(in) \cup {"XER"}
    <3>1. Differs(u, v, g)
      BY Zenon, <1>1, <1>2, <1>5, <2>4, Untouched
    <3> QED  BY Zenon, <3>1 DEF CleanBetween
  <2> QED  BY Zenon, <2>1, <2>2, <2>3, <2>4
<1> HIDE DEF S
<1>6. CleanBetween(Stepped(x), Stepped(y), S, o)
  BY Zenon, <1>1, <1>2, <1>5, SteppedClean
<1>7. Stepped(x).XER.count = in.n
  BY <1>1, <1>3, SteppedFacts, ZenonT(30)
<1>8. in.n % Bytes # 0 => Stepped(x)[f] \div Low(in.n) = Stepped(y)[f] \div Low(in.n)
  <2> SUFFICES ASSUME in.n % Bytes # 0
               PROVE  Stepped(x)[f] \div Low(in.n) = Stepped(y)[f] \div Low(in.n)
    BY Zenon
  <2>1. LowOf(in) = Low(in.n)
    BY Zenon DEF LowOf
  <2>2. Stepped(x)[f] = x[f] /\ Stepped(y)[f] = y[f]
    BY <1>1, <1>2, <1>3, SteppedFacts
  <2> HIDE DEF P
  <2>3. x[f] \div LowOf(in) = y[f] \div LowOf(in)
    BY Zenon, <1>1, <1>2 DEF P
  <2> QED  BY Zenon, <2>1, <2>2, <2>3
<1> QED  BY Zenon, <1>6, <1>7, <1>8 DEF S, f, LoadedClean

\* One instruction later that rest is tolerated, or overwritten.
LEMMA LoadThenLi ==
  ASSUME NEW u, Registers(u), NEW v, Registers(v), NEW in, Operands(in), in.op = "lscbx",
         u.XER.count = in.n,
         NEW o, CleanBetween(u, v, IF in.n % Bytes = 0 THEN {} ELSE {LastLoaded(in)}, o),
         in.n % Bytes # 0 =>
           u[LastLoaded(in)] \div Low(in.n) = v[LastLoaded(in)] \div Low(in.n),
         NEW li, Operands(li), li.op = "li", NEW x \in Outcome(li, u, o), NEW y \in Outcome(li, v, o),
         NEW w, w.second_prev = in, NEW n
  PROVE  Fails(Cap(Stepped(x), w), Cap(Stepped(y), w), o, n) = {}
<1> DEFINE f == LastLoaded(in)
           S == IF in.n % Bytes = 0 THEN {} ELSE {f}
           m == Cap(Stepped(x), w)
           a == Cap(Stepped(y), w)
<1>1. /\ f \in Range(Gpr) /\ "XER" \in Range(Fields) /\ Range(Gpr) \subseteq Range(Fields)
      /\ "XER" \notin Range(Gpr) /\ "LNK" \notin Range(Gpr)
  BY Zenon, LowFacts, NameFacts DEF Operands, Special
<1>2. li.op \in Assigning /\ li.op \notin {"la", "mflr", "mr", "mtlr"} /\ Dest(li) \in Range(Gpr)
  BY Zenon, GprFacts DEF Assigning, Dest, Operands
<1>3. /\ Registers(x) /\ \A g \in Range(Fields) \ {Dest(li)} : x[g] = u[g]
      /\ Registers(y) /\ \A g \in Range(Fields) \ {Dest(li)} : y[g] = v[g]
  BY SMTT(30), <1>2, Assigns DEF AssignOutcome
<1>4. /\ \A g \in Range(Fields) : m[g] = x[g] /\ a[g] = y[g]
      /\ m.insns = w
  BY SMTT(30), <1>3, CapStepped
<1>5. m.XER.count = in.n
  BY Zenon, <1>1, <1>2, <1>3, <1>4
<1> HIDE DEF f, m, a
<1>6. ASSUME NEW g \in Range(Fields), Differs(x, y, g)
      PROVE  Unseen(g, o) \/ Tolerated(m, a, g, o, n)
  <2>1. "LNK" \notin S /\ CleanBetween(u, v, S, o)
    BY Zenon, <1>1 DEF f
  <2> HIDE DEF S
  <2>2. g # Dest(li) /\ Differs(u, v, g)
    <3>1. Carried(li, u, v, x, y, g)
      BY Zenon, <1>2, <1>6, <2>1, AssignPair
    <3> QED  BY Zenon, <1>2, <3>1 DEF Carried
  <2>3. CASE g \in S
    <3>1. g = f /\ in.n % Bytes # 0
      BY Zenon, <2>3 DEF S
    <3>2. m[g] \div Low(in.n) = a[g] \div Low(in.n)
      BY Zenon, <1>3, <1>4, <2>2, <3>1 DEF f
    <3>3. lscbx_rest(m.insns.second_prev, m, a, g)
      BY <1>4, <1>5, <3>1, <3>2, Zenon DEF lscbx_rest, f, LastLoaded, Low
    <3>4. gregs_tolerated(m, a, g)
      BY <3>3, ZenonT(30) DEF gregs_tolerated
    <3> QED  BY <1>1, <3>1, <3>4, ToleratedCases, Zenon
  <2>4. CASE g \notin S
    BY Zenon, <2>1, <2>2, <2>4 DEF CleanBetween
  <2> QED  BY Zenon, <2>3, <2>4
<1> QED  BY <1>3, <1>6, Accepts, Zenon DEF m, a

\* Behind fadd only the bits of FPSCR differ that the mask leaves out.
LEMMA AddsPair ==
  ASSUME NEW u, Registers(u), NEW v, Registers(v), NEW o, CleanBetween(u, v, {}, o),
         NEW in, Operands(in), in.op = "fadd", o.bits \subseteq Bit,
         NEW x \in Outcome(in, u, o), NEW y \in Outcome(in, v, o)
  PROVE  /\ CleanBetween(Stepped(x), Stepped(y), {"fpscr"}, o)
         /\ Stepped(x).fpscr \cap o.fpscr_mask = Stepped(y).fpscr \cap o.fpscr_mask
<1>1. /\ Registers(x) /\ x.NIP = u.NIP /\ \A g \in Range(Fields) \ {"fpscr"} : x[g] = u[g]
      /\ x.fpscr \cap o.fpscr_mask = in.v \cap o.fpscr_mask
  BY AddsFloats
<1>2. /\ Registers(y) /\ y.NIP = v.NIP /\ \A g \in Range(Fields) \ {"fpscr"} : y[g] = v[g]
      /\ y.fpscr \cap o.fpscr_mask = in.v \cap o.fpscr_mask
  BY AddsFloats
<1>3. ASSUME NEW f \in Range(Fields), Differs(x, y, f) PROVE f \in {"fpscr"} \/ Unseen(f, o)
  <2> SUFFICES ASSUME f # "fpscr" PROVE Unseen(f, o)
    BY Zenon
  <2>1. Differs(u, v, f)
    BY Zenon, <1>1, <1>2, <1>3, Untouched
  <2> QED  BY Zenon, <2>1 DEF CleanBetween
<1>4. Stepped(x).fpscr = x.fpscr /\ Stepped(y).fpscr = y.fpscr
  BY <1>1, <1>2, SteppedFacts, NameFacts DEF Special
<1> QED  BY Zenon, <1>1, <1>2, <1>3, <1>4, SteppedClean

\* An address differs; the trap behind it does not look, and addi replaces it.
LEMMA AddressPair ==
  ASSUME NEW u, Registers(u), NEW v, Registers(v), NEW o, CleanBetween(u, v, {}, o),
         NEW in, Operands(in), in.op = "la",
         NEW x \in Outcome(in, u, o), NEW y \in Outcome(in, v, o)
  PROVE  CleanBetween(Stepped(x), Stepped(y), {gpr(in.rt)}, o)
<1>1. in.op \in Assigning /\ Dest(in) = gpr(in.rt)
  BY Zenon DEF Assigning, Dest
<1>2. Registers(x) /\ Registers(y)
  BY Zenon, <1>1, Assigns DEF AssignOutcome
<1>3. ASSUME NEW f \in Range(Fields), Differs(x, y, f) PROVE f \in {gpr(in.rt)} \/ Unseen(f, o)
  <2>0. "LNK" \notin {} /\ in.op \notin {"mr", "mtlr"} /\ in.op # "mtlr"
    BY Zenon
  <2>1. f = Dest(in) \/ Differs(u, v, f)
    <3>1. Carried(in, u, v, x, y, f)
      BY Zenon, <1>1, <1>3, <2>0, AssignPair
    <3> QED  BY Zenon, <3>1 DEF Carried
  <2> QED  BY Zenon, <1>1, <2>1 DEF CleanBetween
<1> QED  BY Zenon, <1>2, <1>3, SteppedClean

LEMMA IllegalAccepted ==
  ASSUME NEW u, Registers(u), NEW v, Registers(v), NEW o, NEW w, NEW n,
         w.faulting.op = "illegal", w.next.op = "addi", w.next.rt \in Reg,
         CleanBetween(u, v, {gpr(w.next.rt)}, o)
  PROVE  Fails(Cap(u, w), Cap(v, w), o, n) = {}
<1> DEFINE m == Cap(u, w)
           a == Cap(v, w)
<1>1. a.insns = w
  BY Zenon, CapFacts
<1>2. \A f \in Range(Fields) : Differs(m, a, f) => f = gpr(w.next.rt) \/ Unseen(f, o)
  BY Zenon, CapDiffers DEF CleanBetween
<1> HIDE DEF m, a
<1>3. local_gregs_mask(a, o) = o.gregs_mask \ {gpr(w.next.rt)}
  BY Zenon, <1>1 DEF local_gregs_mask
<1>4. gpr(w.next.rt) \in Range(Gpr)
  BY Zenon, GprFacts
<1>5. ASSUME NEW f \in Range(Fields), Differs(m, a, f)
      PROVE  Ignored(m, a, f, o) \/ Tolerated(m, a, f, o, n)
  <2>1. CASE f = gpr(w.next.rt) \/ f \in Range(Gpr) \ o.gregs_mask
    BY Zenon, <1>3, <1>4, <2>1 DEF Ignored
  <2>2. CASE f = "vrregs" /\ ~o.vrregs_mask
    <3>1. vrregs_tolerated(o)
      BY <2>2, Zenon DEF vrregs_tolerated
    <3> QED  BY Zenon, <2>2, <3>1, ToleratedCases
  <2> QED  BY <1>2, <1>5, <2>1, <2>2, Zenon DEF Unseen
<1> QED  BY Zenon, <1>5, FailsFacts DEF m, a

LEMMA AddressReplaced ==
  ASSUME NEW u, Registers(u), NEW v, Registers(v), NEW in, Operands(in), in.op = "addi",
         NEW o, CleanBetween(u, v, {gpr(in.rt)}, o),
         NEW x \in Outcome(in, u, o), NEW y \in Outcome(in, v, o)
  PROVE  CleanBetween(Stepped(x), Stepped(y), {}, o)
<1>1. /\ in.op \in Assigning /\ in.op \notin {"mr", "mtlr", "la", "mflr"} /\ Dest(in) = gpr(in.rt)
      /\ "LNK" \notin {gpr(in.rt)}
  BY Zenon, GprFacts, NameFacts DEF Assigning, Dest, Operands, Special
<1>2. Registers(x) /\ Registers(y)
  BY Zenon, <1>1, Assigns DEF AssignOutcome
<1>3. ASSUME NEW f \in Range(Fields), Differs(x, y, f) PROVE f \in {} \/ Unseen(f, o)
  <2>1. f # Dest(in) /\ Differs(u, v, f)
    <3>1. Carried(in, u, v, x, y, f)
      BY Zenon, <1>1, <1>3, AssignPair
    <3> QED  BY Zenon, <1>1, <3>1 DEF Carried
  <2> QED  BY Zenon, <1>1, <2>1 DEF CleanBetween
<1> QED  BY Zenon, <1>2, <1>3, SteppedClean
=============================================================================
