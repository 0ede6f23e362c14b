# Formal models of risu

risu tests one implementation of an instruction set against another.  `risugen`
writes a *test image*: random instructions interleaved with *risuops*,
undefined instructions that ask the harness for something ("compare registers",
"end of test", "here is the memory block", ...).  `risu` runs the image twice,
as *master* on the reference and as *apprentice* on the implementation under
test.  Each risuop, and every other instruction that traps, enters a SIGILL
handler; the two handlers meet over a TCP connection (or through a trace file)
and the apprentice compares.

This directory holds TLA+ models of that system, the TLC runs that check them
on small instances and TLAPS proofs for all instances.  `PROJECT.json` maps
every definition to the lines it models and lists runs, mutants, findings,
hazards and theorems.

## 1. The system and its modules

| Part | Source | Modules | Talks to |
|---|---|---|---|
| Master and apprentice handlers | `risu.c` | `Lockstep` | each other, by packets; the image, by ucontext |
| Connection and packets | `comms.c` | `Connect`, `Comms`, `Transport`, `Channel` | the handlers, the kernel |
| Trace recording and playback | `risu.c` with `trace` | `Trace`, `Replay` | the handlers, in place of packets |
| Byte order | `risu.c`, `endianswap.h`, `risu_reginfo_ppc64.c` | `ByteOrder` | the handlers |
| ppc and ppc64 registers | `risu_ppc64.c`, `risu_reginfo_ppc64.c` | `Ppc64`, `Float`, `FpTolerance`, `FpCompare`, `Insns`, `Reginfo` | the handlers |
| Registers of arm, aarch64, i386, loongarch64, m68k, s390x | `risu_<arch>.c`, `risu_reginfo_<arch>.c` | `Arches`, `Reginfo` | the handlers |
| Option parser | `compat/getopt.c` | `Getopt`, `CommandLine` | `risu_main` |
| Mac OS 9 shell, `risu_main` | `risu_main.c`, `risu.c` | `Args`, `Session` | everything |
| Generator, pattern files | `risugen*`, `*.risu` | none (section 6) | the image |

`MC<name>` modules and `.cfg` files are TLC instances.  `<name>Proofs` modules
hold theorems; the inductive invariant of `Lockstep`, which a run checks too, is
in `LockstepInv`.

What makes the system hard: two processes run at their own pace and meet only
at checkpoints; a risuop has one, two or no packets, and each side decides from
its *own* image how many it expects; illegal instructions in a setup phase are
skipped by each side alone; differences that are tolerated must not come back
later; either process can die at any moment; below, `read` and `writev` cut the
stream anywhere; the comparison overwrites registers that it reads again; the
shell runs command after command on the same statics.

### Lockstep

The two processes are the elements of `Side`; a variable of the code is a
function on `Side`.  `image` is the sequence of what `get_risuop` finds at each
place, `OP_SIGILL` standing for an ordinary instruction.  What an ordinary
instruction does is the constant `Exec(side, pc, regs, mem)`, a *set* of
outcomes: it runs on, traps with SIGILL or SIGBUS, or returns from the image.
The two sides may have quite different sets; nothing is assumed about them.
`Compared` names the registers `reginfo_is_eq` insists on for two given
reginfos, `Updated` those that `reginfo_update` writes.

A handler is cut exactly where it blocks, that is at the `read` of the response
byte in the master and at the `read` of a packet in the apprentice:

| Action | Code |
|---|---|
| `Execute`, `ImageReturns`, `BusError` | the image runs; `do_image` returns; SIGBUS |
| `SkipIllegal` | OP_SIGILL with `is_setup`: counted, stepped over, no packet |
| `SendHeader`, `UnknownOp` | `send_register_info` up to the first `write_buffer`; its `abort()` |
| `SendPayload` | the second `write_buffer`, if `extra` |
| `MasterResumes`, `MasterStops`, `MasterReadFails` | the response was RES_OK, was something else, never came |
| `AwaitHeader` | `apprentice_sigill` up to the first `read_buffer` |
| `RecvHeader` | `recv_register_info` up to its return or second `read_buffer` |
| `RecvPayload` | from there to the end of the handler |
| `ApprenticeReadFails`, `RespondFails` | the connection is closed when the apprentice reads, or writes its answer |
| `Crash` | SIGSEGV or a kill, at any moment |

`log` and `accepted` are history variables: the checkpoints each process has
entered, and how many the apprentice has accepted.

Abstractions: a packet is indivisible (`Comms` is about its bytes); a memory
block holds one word; registers not compared or updated are one register (`sp`
in the instance); `get_arch_memory` returns NULL for an unmapped address, as in
the emulator build (elsewhere the later access faults, which `Crash` covers).
RES_BAD_MAGIC, RES_BAD_SIZE_MEMBLOCK, RES_BAD_SIZE_ZERO and RES_BAD_OP cannot
occur between a master and an apprentice of the same byte order, because
`send_register_info` never sends such a header.

### Connect, Comms, Transport, Channel

`Connect` is `master_connect` and `apprentice_connect` with several apprentices
started before or after the master: bind, listen, accept and close, each of
which may fail; the backlog is the kernel's.  `Comms` follows `safe_writev`,
`recv_bytes`, `recv_and_discard_bytes`, `send_data_pkt`, `recv_data_pkt` and
`send_response_byte` byte by byte.  The kernel is external: `writev` moves its
bytes one at a time into a socket of `SockBuf` bytes, `read` returns any number
from one to what is there.  `ShortWrites` says where an interrupted `writev`
may stop, `Interrupts` whether a `read` may fail with EINTR.  Lengths really
are converted with `htonl`/`ntohl` in base `ByteMod`.  `Transport` composes the
two: the accepted apprentice may already read while the master still closes its
server socket.  `Channel` is what the handlers rely on: send, deliver, answer,
return; a process that goes may take the packet it was sending with it.

### Trace, Replay

`Trace` has the handlers of `Lockstep` with `trace` set: no lengths, no
responses, a stream of cells (magic, size, operation, payload) through a
compressed file or a pipe.  What `gzwrite` has taken reaches the file before
`gzclose` returns or is lost with the process; a `read` from a pipe may return
a part of what it was asked for, which `read_buffer` takes for an error.
Playback may be against another image or another build.  `Replay` is the
promise: checkpoints are recorded, accepted in the same order, each agreeing
with the recorded one, and "match" needs a complete recording.

### ByteOrder

A number is its bytes, most significant first; `Stored` lays them out in the
order of a host.  A build is the host's order, whether the compiler defines the
macro `endianswap.h` asks for, and whether it is the emulator build ("dppc").
`send_register_info` and `recv_register_info` are the two actions, with the
conversions of header, reginfo and instruction in the order of the code.

### Float, FpTolerance, FpCompare

`Float` is the arithmetic on bit patterns that the ppc comparison uses
(`exponent`, `mantissa`, `normalize`, the predicates for NaN, infinity,
denormalized), for any width of exponent and fraction.  `FpTolerance` has one
operator per `--fp_opts` bit, over the instruction before the checkpoint.
`FpCompare` is the loop of `reginfo_is_eq` over the registers, one turn per
step: equal, or tolerated and overwritten with the master's value, or the end.
A register that `fpregs_mask` hides is overwritten like one that is tolerated,
and may be an operand of the instruction.

### Ppc64, Arches, Reginfo

`Ppc64` is the rest of the ppc comparison: link register relative to the image,
`mflr`, `mtlr`, `div`, `divs`, `lscbx`, `mul` on the 601, `fcmp` and `mcrfs`,
the masks, what is copied while comparing, what `reginfo_update` writes.
`Arches` has, for each of the other architectures, how `reginfo_init` finds its
registers in the signal context (the chains of extension records of arm and
aarch64, the XSAVE features of i386, LSX and LASX of loongarch64), what
`reginfo_is_eq` compares, what `reginfo_dump_mismatch` prints and how
`advance_pc` goes on.  `Reginfo` runs an image on two implementations, from trap
to trap; the apprentice's implementation may err in any step, and `honest` is
true as long as it has not.

`Insns` is what the instructions of a ppc64 image do, on either side: a set of
outcomes, since the architecture leaves some results open.  A division whose
quotient does not fit, or by zero, leaves anything in RT and MQ, and in the
record form any condition in CR0.  `Insisted` lists the open results on which
the comparison insists all the same; `strict` is true from such an instruction
to the end of its block.

A loongarch64 frame is its chain of records and what lies behind the array of
the vector registers, because `reginfo_init` reads on there: from an FPU
record it takes word 4i for register i, from an LSX record word 4i+1 for both
halves.  The words of the vector registers are told apart as far as this makes a
difference.  `Saved` lists the registers struct reginfo has a field for and a
context holds, `Missed` those among them that never reach the comparison, and
`Compared` is the difference of the two.

The assumptions of `Reginfo` say what images are considered.  On ppc64 the image
is a sequence of blocks (`Block`): one instruction and OP_COMPARE, as
`write_test_code` emits them, or one of the three longer pieces on which the
comparison looks further than one instruction (`lscbx` and the instruction
behind it; `fadd` before `mcrfs`; an address loaded for an illegal instruction
and taken back by the `addi` behind it).  No instruction reads a register that
the masks hide, since a difference there is never healed and would spread.
Elsewhere an image is a sequence of instructions that lie one behind the other
(`Image_of`) and ends with OP_TESTEND.  Both sides begin with the same
registers, except that on ppc64 those the masks hide, and MQ, may differ.

### Getopt, CommandLine, Args, Session

`Getopt` is `getopt_long` with its statics (`optind`, `nextchar`,
`first_nonopt`, `last_nonopt`) and `argv` as it is permuted; one call is one
step.  `CommandLine` states what a line means, on the line as typed, without
the statics.  `Args` is `argcargv`, which writes the words over the line it is
still reading, character by character, and the loop of `eval` around it.
`Session` is the shell: typed and scripted commands, `risu_main` from its
options to its return, descriptors, trace files, image and memory block, and
all statics that outlive a command.

## 2. Runs

| Run | Module, config | Shows |
|---|---|---|
| `lockstep` | `MCLockstep`, `Lockstep.cfg` | machines that diverge in any way: accepted checkpoints agree, success is earned, alarms are genuine, size errors explained, phases in step, done together; the inductive invariant; both processes stop; conforming machines pass |
| `transport` | `MCTransport`, `Transport.cfg` | packets arrive whole and the routines implement `Channel`; no silent deadlock; a sender that is gone is noticed; one apprentice is served, the others are told |
| `trace` | `MCTrace`, `Trace.cfg` | recording and playback implement `Replay`; a failure has a real cause; playback ends |
| `byteorder` | `MCByteOrder`, `ByteOrder.cfg` | header understood for all pairs of builds; registers and instructions between builds for big-endian images |
| `getopt` | `MCCommandLine`, `CommandLine.cfg` | the calls return what the line means; words end up last and in order; the scan ends |
| `args` | `MCArgs`, `Args.cfg` | in-place splitting equals splitting an unchanged line; two passes agree; the buffer is read to its end |
| `session` | `MCSession`, `Session.cfg` | each command runs as its own line says, whatever came before, with the two exceptions of section 3 |
| `fp_compare` | `MCFpCompare`, `FpCompare.cfg` | ordinary results are compared within the rounding slack; register order matters only for operands that are masked out or loaded as a NaN on one side; without a floating point instruction only NaNs and zeros pass; `exponent` and `normalize` are right |
| `reginfo` | `MCReginfo`, `Reginfo.cfg` | permitted differences pass and are healed, with the exceptions of section 3, errors in registers that are captured are caught at the next checkpoint and named, execution goes on behind the trap |
| `lockstep_verdict` | `MCLockstep`, `LockstepVerdict.cfg` | violated: `MasterKnowsVerdict` |
| `comms_short_write` | `MCTransport`, `CommsShortWrite.cfg` | violated: `Delivered` |
| `byteorder_size` | `MCByteOrder`, `ByteOrderSize.cfg` | violated: `SizeWritten` |

Every property of a passing run has a mutant in `PROJECT.json`: a definition of
the model changed as a slip in the code would change it, under which the same
run finds the property violated.

### Bounds

* `lockstep` (277,000 states): divergent images have up to six places, chosen so
  that each risuop, a setup phase, a missing memory block, an unknown risuop
  and each pair of different operations meet; each ordinary instruction may set
  the compared register, store, jump over its successor (so the images get out
  of phase) or trap in any way.  Builds with a smaller, an equal and a larger
  reginfo are paired.  One more image has the shape `risugen` writes.  Words
  count modulo four because the handlers only add a parameter to a block
  address and subtract a pc.
* `transport` (132,000): two length bytes in base three give a packet whose
  length needs both; the socket holds three bytes, fewer than the longest
  packet with its length; the discard buffer two; two apprentices compete.
* `trace` (723,000): nine pairs of images through a file and six through a
  pipe, three pairs of reginfo sizes, deaths and failed writes anywhere.
* `byteorder` (297,000): words of two bytes of two values; a swap of two bytes
  is a swap, and the theorems cover any width.
* `getopt` (62,600): all lines of up to three strings of seventeen kinds, the
  empty string among them, and of five strings of five kinds, where `exchange`
  works several times.
* `args` (657,000): every buffer of five characters of eight classes.  Every
  state of the two passes and every pair of states around a line end occurs.
* `session` (22,900): four typed commands of eleven kinds, two nested scripts,
  one counted signal per run; behind the array of a line's words lies a null
  pointer, the name of an existing image or that of a file that is gone.
* `fp_compare` (2,893,000): three registers, all of them compared or either the
  first or the last masked out; four exponent and three fraction bits, floats of
  three and one; a number a float cannot hold, one too small for it, the least
  denormalized number, infinity, NaN and the neighbours of one occur as operand
  or result, for each instruction and with the target among the operands.
  Operands that are compared agree, have opposite signs (zeros, NaNs) or were
  loaded as a NaN on one side; a masked one is zero here and infinite there,
  which is enough to break `OrderFree` without its exception.
  `EstSlack` and the other slacks are the code's constants scaled down.
* `reginfo` (4,986,000): four blocks of one to three instructions on ppc64, taken
  from all that the comparison knows, two addresses of the image; divisions
  with and without a result, in the record form and not, with the target among
  the operands, and two values and two conditions for what is left open; three
  traps on the other architectures with each layout of the signal context, and
  on loongarch64 two values for what lies behind it.

`CHECK_DEADLOCK FALSE` stands where the program ends: `getopt`, `args`,
`session`, `fp_compare`, `reginfo`.  Elsewhere deadlock is checked; the stuttering of processes that are gone is an action of
its own.

### Fairness

`Lockstep` and `Trace` assume weak fairness of each process: both are scheduled,
and a handler that can go on does.  Images in the instances are finite and do
not loop; the liveness properties are about the handlers.  Death is never
forced.  `Transport` assumes it of the master inside `send_data_pkt`, of the
receiver, which has nothing to do but the next call, and of the calls of the
connection set-up as far as they can return; that a sender starts another
packet, that `accept` fails or that a signal arrives is not assumed.  `Args` and `CommandLine` are loops of
one process that do nothing else.  `Session`, `FpCompare`, `Reginfo` and
`ByteOrder` have no liveness properties.

## 3. Disagreements between code and documentation

* The master's exit status and output say nothing about the comparison: the
  apprentice answers success and failure alike with RES_END (`risu.c:408`);
  `README:113` promises the match or mismatch status on the master.
* After a short write inside an iovec, `safe_writev` reduces `iov_len` and
  leaves `iov_base` (`comms.c:164`): the number of bytes is right, the bytes
  are not.  A blocking `writev` is cut there only when a signal handler
  interrupts it, so it takes a long payload and a foreign signal.
* `send_register_info` passes `header.size` to `write_buffer` after
  `header_host_to_arch` has swapped it in place (`risu.c:215`): an emulator
  build on a little-endian host announces one length and writes another.

Some properties hold only up to a boundary that their statement names:

* `SenderGoneNoticed`: after an EINTR, `read` returning 0 leaves `errno` alone
  and `recv_bytes` reads the end of the stream for ever (`comms.c:107`).
* `FailureIsGenuine`: from a pipe, a partial `read` is a failure.
* `OrdinaryCompared`: `ABS` of INT64_MIN passes for small, and `fmadds f,f,f,f`
  under the underflow option tolerates everything (lines 1235-1237 and 1441 of
  `risu_reginfo_ppc64.c`).
* `ExponentRight`: `exponent()` of a denormalized number is one too low.
* `MismatchNamed`: aarch64's fault address is compared and never printed.
* `NoFalseAlarm`: two right implementations are reported in four cases, and the
  property says nothing up to the end of the block in which one occurs.
  (1) A `div` whose quotient does not fit is let pass if it does not fit for the
  MQ that is there *behind* the instruction (`risu_reginfo_ppc64.c:578`, 637 and
  661), and that MQ is part of the result the architecture leaves open.
  (2) Behind a `divs` without a result only RT is let pass: MQ, when it is
  compared, is not (658 asks for `div`), nor is CR0 behind `divs.` (634).
  (3) After `mtlr` with the images at different addresses a copied absolute
  address is compared relative to each image.
  (4) On loongarch64 without an LASX record, the words read behind the array are
  compared (`OverRead`; `risu_reginfo_loongarch64.c:142`, 143 and 153).
* `NothingEscapes`: `README:69` of the repository says "Register values are
  cross-checked after every instruction".  For the registers that
  `Reginfo.Missed` lists this is not so; an error in one of them passes every
  checkpoint:
  on i386 the AVX and AVX-512 state, because `xsave_feature_buf` asks cpuid for
  the feature's mask instead of its index (`risu_reginfo_i386.c:100`, 209);
  on loongarch64 without an LASX record all FPU registers but every fourth, and of
  the LSX registers everything but the upper words of those with an even number
  (lines 142, 143 and 153), and all of the extended context behind a record
  `parse_extcontext` does not know;
  on aarch64 with `--test-sve` the SIMD registers, when there is no SVE record or
  one of another length;
  on s390x the PSW mask with the condition code, which is captured
  (`risu_reginfo_s390x.c:72`) and not compared (89).
  A wrong branch is not seen on ppc64 and m68k, see below.
* `OrderFree`: a masked register, and one loaded as an infinity on one side and a
  quiet NaN on the other, is overwritten in its turn
  (`risu_reginfo_ppc64.c:697`, 1645).  The rules for a target with a higher
  number then see the master's operand, those for a target with a lower number
  the apprentice's, and the verdict may differ.
* `ReginfoUnderstood`: between native big-endian builds and emulator builds on
  little-endian hosts; an emulator build on a big-endian host swaps once too
  often, and a native little-endian build runs little-endian images.
* `RunsAsAsked`: masks and `--fp_opts` given to one command stay in force for
  the next, so only those a line gives are required to be as it says; a command
  without an image has "Error: must specify image file name" as its outcome only
  if `argv[argc]`, which lies behind the array that `argcargv` allocates
  (`risu_main.c:38`), happens to be NULL, and may otherwise run the image of an
  earlier command (`BeyondArgv`), so the image is required to be the one named
  only where one is.  The lines of the instance have no
  misspelt long option: for one `getopt_long` prints a message and returns 0, as
  it does for `--master`, and `risu_main` goes on.
* The pc in the header is written "to keep in sync" (`risu.c:181`) and never
  read.  On ppc64 and m68k nothing else compares the places of two checkpoints,
  so `AcceptedAgree` says nothing about pc.

## 4. Proofs

No theorem has a bound: each holds for every value of the constants that
satisfies the named assumptions, which TLC evaluates in every run.

### Handlers (`LockstepProofs`)

For every set of images that end with OP_TESTEND, every pair of machines
(`Exec`), every `Compared` and `Updated`, all sizes of the two
`struct reginfo` and deaths at any moment:

| Theorem | Property |
|---|---|
| `Invariance` | `Inductive` |
| `TypeCorrect` | `TypeOK` (so no process runs past its OP_TESTEND) |
| `AcceptedAgreement` | `AcceptedAgree` |
| `EarnedSuccess` | `SuccessIsEarned` |
| `GenuineAlarm` | `AlarmIsGenuine` |
| `ExplainedSizeErrors` | `SizeErrorsExplained` |
| `NeverDoneAlone` | `DoneTogether` |
| `KeptInStep` | `InStep` |

Assumptions: images are nonempty sequences of risuops that end with OP_TESTEND;
the machines' outcomes are typed; a header is never as long as a payload (16 or
24 bytes against a reginfo of hundreds and a block of 8192).  The last one is
what makes the length in front of a packet tell a header from a payload.

The properties are not inductive: whether the next comparison is sound depends
on what is on the wire.  `Inductive` adds

* `HistoryInv`: the phase and count of a checkpoint follow from the one before;
* `ApprenticeInv`, `MasterInv`: a process between checkpoints is where its
  history says, one inside a handler is at the last checkpoint of its history;
* `PacketInv`: at most one packet is in flight, it is the header or the payload
  of the master's *last* checkpoint, and the master is ahead of the apprentice
  by exactly what that implies.  The awkward case is a COMPAREMEM without a
  memory block: its header announces a payload that never comes, the master
  goes on, and the *next* header arrives where the payload is read, two
  checkpoints ahead;
* `ResponseInv`: at most one response is in flight, and what it stands for;
* `EndInv`: a process with a result has left, and a verdict of the apprentice is
  on the wire or has reached the master.

There is one lemma per action, with one step per conjunct it can disturb.

### Packets and connection (`WireProofs`)

For all packets, lengths, buffer sizes, cuts by `read`, interrupts and deaths:

| Theorem | Shows |
|---|---|
| `AlwaysDelivered` | `Spec => []Delivered` |
| `CommsImplementsChannel` | `Spec => ImplementsChannel` |
| `AlwaysOnePeer` | `TSpec => []OnePeer`, for any number of apprentices |
| `TransportDelivers` | both of the first two for `TSpec`, while the set-up goes on |

All but `AlwaysOnePeer` are for `ShortWrites = "between"`; with "anywhere" the
run `comms_short_write` refutes `Delivered`.  Assumptions: packets are not empty
and `ntohl(htonl(n)) = n` for their lengths.

The invariant `StreamInv` is conservation: the symbols of length and data that
the receiver has taken, that are in flight and that `writev` has still to hand
over are together the message, in order (`UnderWay`, until `recv_data_pkt`
returns; `Taken` from then on, when nothing of the message is left anywhere).
`WriterInv` says where the iovecs stand after a cut; a read that returns some
symbols moves one boundary (`ReadSplits`), a `writev` that hands one over the
other (`WriteExtends`).  `AnswerInv` adds that at most one answer is on its way
back, also when the receiver is gone.  In the refinement a packet is on the wire
of `Channel` from the call of `send_data_pkt` until its last symbol is taken,
unless its sender dies in between, so nearly all steps of the routines are
stutters.  `PeerInv` is the invariant of the set-up: whoever believes to be
connected is in the backlog of the server socket or is the one that was
accepted.

### Recording and playback (`TraceProofs`)

`AlwaysFailureIsGenuine` (`Spec => []FailureIsGenuine`) and
`TraceImplementsReplay` (`Spec => ImplementsReplay`), for every pair of images
that end with OP_TESTEND, all sizes of the two `struct reginfo` and of a memory
block, all contents, a file or a pipe, and wherever the stream is buffered, cut
or lost.  Assumptions: sizes are not zero, and no register or memory content is
taken for RISU_MAGIC, so that what follows a COMPAREMEM without a block is
recognised as a header.

A trace has neither lengths nor answers, so nothing in the stream itself says
where a message begins.  The invariant `Inv` is about places: *there is* a
function `pos` such that the message of the master's i-th checkpoint lies
between `pos[i - 1]` and `pos[i]` (`StreamInv`), and an apprentice that has
accepted everything so far stands at `pos[accepted]`, or behind the header that
follows it (`ReaderInv`).  The sum of the lengths that `pos` stands for is
never computed, which is what keeps induction over the history out of the
proof: a step of the master extends `pos` by one place, and every other step
leaves it.  A failure of the apprentice has a cause (`Excused`) that no later
step of the master takes away.

The proof corrected the model: in a setup phase `recv_and_compare_register_info`
does not compare registers but does compare memory blocks, and `CpAgree` and
the images of the instance now say so.

### Byte order (`WireProofs`)

`WireInvariance`, `HeaderAlwaysUnderstood`, `ReginfoAlwaysUnderstood`: for every
word length and all builds.  Assumptions: the compiler macro is only defined on
little-endian hosts and always on those without the emulator, and RISU_MAGIC is
not a palindrome of bytes, which is what lets the receiver tell a swapped header.
The invariant is that only the meant header or its swap is ever on the wire;
two swaps are none (`SwapTwice`).

### Splitting a line (`ArgsProofs`)

`AlwaysReadsAsGiven`, `AlwaysArgvFits` and `AlwaysSplitRight`: for every buffer of
every length, what `argcargv` has still to read is as it was given, the second
pass stores exactly the pointers the first has counted, and the words in the
buffer are those that one reading of the unchanged line gives.

`ArgsInv` is that the writer is never ahead of the reader.  The delicate case is
the NUL behind the last word of the buffer, which is written without a step of
the reader: the writer is then one ahead, the reader stands on the NUL that ends
the buffer, and nothing more is written.  The reference is a recursive function
over the line, and what it computes cannot be proved by induction here.  Instead
`CountInv` carries the run of the reference along as a function that exists
(`RunTo`): the counting pass extends it by one character at a time, so that at
the end of the line there is one, and `OnlyRun` says that there is no other.
`WriteInv` then has the words of that run stored in the buffer below the writer
(`Stored`).

### Permuting argv (`GetoptProofs`)

`AlwaysOrderKept`: for all command lines, option tables and environments, the
exchanges lose and double no string and keep the order within each block.  The
invariant `Sane` says that below `last_nonopt` `argv` holds the strings that
stood there, the options first and the skipped words behind them, each in the
order of the line, and that from `last_nonopt` on it is untouched.
`ExchangeMovesBlocks` is the lemma about `exchange`: the two blocks change
places, whole.

`AlwaysPermuted`: when `getopt_long` has returned -1, what stands from `optind`
on is exactly the words of the line, and the words and the options before them
have kept their order.  Assumptions: a string is a sequence of characters
(`LinesAssumption`), and no two long options have the same name and no option
has the value -1 (`TableAssumption`).

Here the parser has to agree with what each string of the line *is*
(`Roles`: an option, the argument of one, a word, "--", or what follows it).
The invariant `Tracked` says so between two calls: among the strings read, the
words are those between `first_nonopt` and `last_nonopt`; and the next string
begins anew, or the parser is in a group of short options, none of which so far
has taken the rest of the group or the next string as its argument (`LeftOf`).
`PermuteTracked` and `ScanTracked` are about a call on its way to the next
option, `LongDecoded` and `ShortDecoded` about the option it returns, and
`EndsAtEof` and `EndsAtWord` about the last call.

`Roles` is a recursive function along the line.  The library's induction
theorems take operators as parameters and cannot be used, so its existence is
proved from the theorem that a nonempty set of naturals has a least element
(`Least`, `Upward`, `Recursive`): the least index that no partial function
reaches would be reached by extending one.

### Registers (`ReginfoLemmas`, `ReginfoSteps`, `ReginfoProofs`)

`ReginfoLemmas` is about single instructions of ppc64, `ReginfoSteps` has the
invariant, the blocks of ppc64 and the steps of the other architectures,
`ReginfoProofs` the steps of ppc64 and the theorems.

| Theorem | Shows |
|---|---|
| `Invariant` | `Spec => []RInv` |
| `NeverAFalseAlarm` | `Spec => []NoFalseAlarm` |
| `NothingIsMissed` | `Spec => []NothingEscapes` |
| `AlwaysHealed` | `Spec => []Healed` |
| `MismatchesAreNamed` | `Spec => []MismatchNamed` |
| `AlwaysResumes` | `Spec => Resumes` |
| `ExceptionsAlwaysNew` | `Spec => ExceptionsAreNew` |

They hold for every set of images as described in section 1, of any length on
the architectures other than ppc64 and with any number of blocks on ppc64, all
masks, register values, addresses and layouts of the signal context.  Two
further assumptions are about numbers: register names are different
(`GprAssumption`), and a word is a whole number of parts of k bytes
(`WordsAssumption`), a fact about powers of two that the provers do not know.

`RInv` has a part for ppc64 and one for the rest.  `Others`, for the rest, says
that each side is where its program counter says, that an implementation that
has not erred is in the master's state with contexts that are laid out alike
(`Alike`; what lies behind them may differ), and that an error that has been made in
a compared register makes the two captures unequal; arm's exception flags are
those raised since the last trap.  What is captured and compared is taken apart
architecture by architecture (`InitOfCases`, `EqOfCases`, `DumpExplains`), and
`GoesOn` is the lemma about `advance_pc`.  `WrongSeen` shows for each architecture
that a difference in a register of `Saved` that is not in `Missed` is found,
also between contexts of different layouts, and `ReadAlike` that what lies behind
a loongarch64 context shows in a capture only where `OverRead` says.

`Blockwise`, for ppc64, says which registers may differ before which instruction
of a block (`Expected`), as long as the
comparison does not insist on an open result (`strict`): none but the hidden ones at its beginning; the rest of
the last register behind `lscbx`, whose upper bytes agree; the bits of FPSCR
that the mask hides behind `fadd`; the address behind `la`.  `NoFalseAlarm` alone is not
inductive, because whether a difference is tolerated depends on the two
instructions before the trap and on registers as that instruction has left them.
`BlockStep` leads from one `Expected` to the next: there is a lemma on what each
instruction leaves (`Assigns`, `Division`, `ComparesFloats`, `Loads`, ...) and one
on why what it leaves open is accepted (`AloneAccepted`, `LoadThenLi`,
`MovesAccepted`, `IllegalAccepted`).  `UpdateHeals` shows that what an accepted
comparison and `reginfo_update` leave is a beginning again, also when the
apprentice is *not* right or `strict` holds, so that an insisted result suspends
`NoFalseAlarm` for its own block only, and `WrongFails` that a wrong result of an ordinary
instruction is under none of the tolerances.

The proof corrected the model's idea of what has to be seen (`Seen`): a wrong
result in a general register may pass right behind an `lscbx`, and MQ is not
compared at the first checkpoint; and on aarch64 nothing of the vector registers
is compared when the context has no FPSIMD record.

## 5. Only model-checked

Liveness under fairness (`BothStop`, `ConformingPasses`, `NoSilentDeadlock`,
`SenderGoneNoticed`, `NobodyForgotten`, `PlaybackEnds`, `EvalEnds`, `ScanEnds`)
is out of the prover's reach.  What folds and recursive functions compute for
every input takes induction over data, and the library's induction theorems
cannot be used.  Where it was worth it, an induction was built from the least
element of a set of naturals; `Attributed`, which in addition has to follow the
concatenation of what all the strings return, and `ExponentRight` stay with TLC.  The properties of `Session` and `FpCompare` are checked on the
instances above; `FpCompare` is a finite case analysis of rules, where an
instance with every rule says nearly all there is.

## 6. Not modelled

* The generator (`risugen`, its modules, the pattern files).  Its product, an
  image, is an input: `Lockstep` proves its theorems for *every* image that
  ends with OP_TESTEND, and `Reginfo` runs blocks of the shape it emits.  Drawing
  random instructions has no state the rest of the system depends on.
* The layout and wording of dumps, `print_stats`, `print_loc` and messages;
  which registers a mismatch names is modelled.
* The number parsers of the ppc mask options and of aarch64's options (`strtol`
  is a constant of `Session`), and `savevec`, which reads vector registers with
  machine instructions.
* RETURN_IN_ORDER of `getopt.c`, which risu's option string never asks for.
* The build, `configure` and `contrib/` scripts.
