------------------------------ MODULE ByteOrder -------------------------------
(***************************************************************************)
(* Byte order between two builds of risu: the header is converted "to      *)
(* arch" before it is written and recognised by its magic number when it   *)
(* is read (src/risu.c), a reginfo is swapped by builds that run the       *)
(* emulator (src/risu_reginfo_ppc64.c), instructions are read from the     *)
(* image in its own order (src/risu_ppc64.c).                              *)
(*                                                                         *)
(* A number is its bytes, most significant first; in memory and on the     *)
(* wire they lie in the order of the host.                                 *)
(***************************************************************************)
EXTENDS Naturals

CONSTANTS
  Octet,
  W,           \* bytes in a word
  RISU_MAGIC,
  Builds,      \* [big, macro, dppc]: host order, __LITTLE_ENDIAN__, RISU_DPPC
  Sizes, Ops, Pcs, Insns, Regs

Word == [1 .. W -> Octet]
Build == [big : BOOLEAN, macro : BOOLEAN, dppc : BOOLEAN]

BYTESWAP_32(n) == [i \in 1 .. W |-> n[W + 1 - i]]

\* A compiler defines __LITTLE_ENDIAN__ only on a little-endian host, and on
\* ppc it does; on others it may not (gcc on x86-64).
ASSUME BuildsAssumption ==
  /\ Builds \subseteq Build
  /\ \A b \in Builds : b.macro => ~b.big
  /\ \A b \in Builds : ~b.dppc /\ ~b.big => b.macro

ASSUME WordsAssumption ==
  /\ W \in Nat \ {0}
  /\ RISU_MAGIC \in Word /\ BYTESWAP_32(RISU_MAGIC) # RISU_MAGIC
  /\ Sizes \subseteq Word /\ Ops \subseteq Word /\ Pcs \subseteq Word
  /\ Insns \subseteq Word /\ Regs \subseteq Word

Side == {"master", "apprentice"}

VARIABLES
  build,      \* how each side was built
  st,
  header,     \* trace_header_t of each side, as its fields are understood there
  ri,         \* reginfo of each side: the instruction and a register
  wire,       \* bytes of the header and of the payload, payload length written
  meant       \* history: what the master put in header and reginfo

orderVars == <<build, st, header, ri, wire, meant>>

Headers == [magic : Word, size : Word, risu_op : Word, pc : Word]
Reginfos == [insn : Word, reg : Word]

-----------------------------------------------------------------------------
get_arch_big_endian(b) == b.dppc \/ b.big

\* How a number lies in the memory of a host, and what a host makes of bytes.
Stored(b, n) == IF b.big THEN n ELSE BYTESWAP_32(n)

\* (Mutant: the size is left as it is.)
byte_swap_header_NotSize(h) ==
  [magic |-> BYTESWAP_32(h.magic), size |-> h.size,
   risu_op |-> BYTESWAP_32(h.risu_op), pc |-> BYTESWAP_32(h.pc)]

byte_swap_header(h) ==
  [magic |-> BYTESWAP_32(h.magic), size |-> BYTESWAP_32(h.size),
   risu_op |-> BYTESWAP_32(h.risu_op), pc |-> BYTESWAP_32(h.pc)]

header_host_to_arch(b, h) ==
  IF /\ IF b.macro THEN get_arch_big_endian(b) ELSE ~get_arch_big_endian(b)
     /\ h.magic # BYTESWAP_32(RISU_MAGIC)
  THEN byte_swap_header(h) ELSE h

\* (Mutant: the host that swaps on the way out swaps on the way in.)
header_arch_to_host_ByBuild(b, h) ==
  IF IF b.macro THEN get_arch_big_endian(b) ELSE ~get_arch_big_endian(b)
  THEN byte_swap_header(h) ELSE h

header_arch_to_host(b, h) ==
  IF h.magic = BYTESWAP_32(RISU_MAGIC) THEN byte_swap_header(h) ELSE h

reginfo_swap(r) == [insn |-> BYTESWAP_32(r.insn), reg |-> BYTESWAP_32(r.reg)]
reginfo_host_to_arch(b, r) == IF b.dppc THEN reginfo_swap(r) ELSE r

reginfo_arch_to_host(b, r) == IF b.dppc THEN reginfo_swap(r) ELSE r

\* (Mutant: the instruction is taken as it lies in memory.)
arch_to_host_32_Never(b, n) == n

arch_to_host_32(b, n) ==
  IF get_arch_big_endian(b) = b.big THEN n ELSE BYTESWAP_32(n)

\* The instruction i as reginfo_init reads it: the image has the order of the
\* architecture.
InsnAt(b, i) ==
  arch_to_host_32(b, IF get_arch_big_endian(b) = b.big THEN i ELSE BYTESWAP_32(i))

-----------------------------------------------------------------------------
Zero == [i \in 1 .. W |-> CHOOSE z \in Octet : TRUE]
NoHeader == [magic |-> Zero, size |-> Zero, risu_op |-> Zero, pc |-> Zero]
NoReginfo == [insn |-> Zero, reg |-> Zero]

OrderInit ==
  /\ build \in [Side -> Builds]
  /\ st = "idle"
  /\ header = [s \in Side |-> NoHeader] /\ ri = [s \in Side |-> NoReginfo]
  /\ wire = [header |-> NoHeader, ri |-> NoReginfo, len |-> Zero]
  /\ meant = [header |-> NoHeader, ri |-> NoReginfo]

\* header is static: it holds what the last packet left in it.
send_register_info(o, n, p, i, r) ==
  LET b == build["master"]
      h == [magic |-> RISU_MAGIC, size |-> n, risu_op |-> o, pc |-> p]
      g == [insn |-> InsnAt(b, i), reg |-> r]
      h2 == header_host_to_arch(b, h)
      g2 == reginfo_host_to_arch(b, g)
  IN /\ st = "idle"
     /\ st' = "sent"
     /\ header' = [header EXCEPT !["master"] = h2]
     /\ ri' = [ri EXCEPT !["master"] = g2]
     /\ wire' = [header |-> [magic |-> Stored(b, h2.magic), size |-> Stored(b, h2.size),
                             risu_op |-> Stored(b, h2.risu_op), pc |-> Stored(b, h2.pc)],
                 ri |-> [insn |-> Stored(b, g2.insn), reg |-> Stored(b, g2.reg)],
                 len |-> h2.size]
     /\ meant' = [header |-> h, ri |-> [insn |-> i, reg |-> r]]
     /\ UNCHANGED build

recv_register_info ==
  LET b == build["apprentice"]
      h == wire.header
      g == wire.ri
  IN /\ st = "sent"
     /\ st' = "idle"
     /\ header' = [header EXCEPT !["apprentice"] =
          header_arch_to_host(b, [magic |-> Stored(b, h.magic), size |-> Stored(b, h.size),
                                  risu_op |-> Stored(b, h.risu_op), pc |-> Stored(b, h.pc)])]
     /\ ri' = [ri EXCEPT !["apprentice"] =
          reginfo_arch_to_host(b, [insn |-> Stored(b, g.insn), reg |-> Stored(b, g.reg)])]
     /\ UNCHANGED <<build, wire, meant>>

OrderNext == \/ recv_register_info
        \/ \E o \in Ops, n \in Sizes, p \in Pcs, i \in Insns, r \in Regs :
             send_register_info(o, n, p, i, r)

OrderSpec == OrderInit /\ [][OrderNext]_orderVars

-----------------------------------------------------------------------------
(* Properties.                                                             *)

TypeOK ==
  /\ build \in [Side -> Builds] /\ st \in {"idle", "sent"}
  /\ header \in [Side -> Headers] /\ ri \in [Side -> Reginfos]
  /\ wire \in [header : Headers, ri : Reginfos, len : Word]
  /\ meant \in [header : Headers, ri : Reginfos]

\* Whatever the two builds are, the apprentice ends up with the header the
\* master meant (header_host_to_arch, header_arch_to_host).
HeaderUnderstood == st = "idle" => header["apprentice"] = meant.header

\* Both builds run big-endian images, the emulator on a little-endian host:
\* reginfo_host_to_arch swaps whenever there is an emulator.
BigEndianImages == \A s \in Side : build[s].big # build[s].dppc

\* Between such builds the apprentice ends up with the registers and the
\* instruction the master had: their conversions fit together
\* (reginfo_host_to_arch, reginfo_arch_to_host, arch_to_host_32).
ReginfoUnderstood == st = "idle" /\ BigEndianImages => ri["apprentice"] = meant.ri

\* What carries the proofs: the header on the wire is the meant one, in one
\* order or the other, and every header ever meant has the magic number.
WireInv ==
  /\ TypeOK
  /\ HeaderUnderstood
  /\ st = "sent" =>
       /\ meant.header.magic = RISU_MAGIC
       /\ wire.header \in {meant.header, byte_swap_header(meant.header)}

\* The payload has the length its header announces (send_register_info).
SizeWritten == st = "sent" => wire.len = meant.header.size
=============================================================================
