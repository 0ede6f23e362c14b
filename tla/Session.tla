------------------------------ MODULE Session ------------------------------
(***************************************************************************)
(* The Mac OS 9 shell (risu_main.c) and risu_main (risu.c): commands typed *)
(* at a prompt or read from script files, each risu command running in the *)
(* same process, with the statics of the commands before it.               *)
(*                                                                         *)
(* What a test image does is left to Lockstep and Trace; here it may ask   *)
(* for a memory block, count signals and end in any way.                   *)
(***************************************************************************)
EXTENDS CommandLine

CONSTANTS
  Commands,    \* what may be typed: [name, arg], arg a command line or file
  Scripts,     \* file name -> sequence of commands
  MaxTyped,    \* bound: commands typed at the prompt
  MaxDepth,    \* bound: nested source commands
  MaxSignals,  \* bound: signals counted in one run
  Images,      \* the image files there are
  Blocks,      \* heap blocks an image may be loaded in
  Fds,         \* the descriptors a process may have: naturals above 2
  BeyondArgv,  \* what a read of argv[argc] may give
  Strtol(_, _) \* the number a string starts with in a base, else 0

VARIABLES
  typed, script,   \* commands typed; the stack of what eval has still to read
  phase,           \* where risu_main is
  settings,        \* its locals and the static trace
  masks,           \* the statics that process_arch_opt sets
  comm_fd, fds,    \* descriptor -> [file, mode] for those that are open
  disk,            \* the trace files there are
  image, imgfile,  \* block of the loaded image, 0 for none, and its name
  memblock,        \* the block memblock points into, 0 for none
  signal_count, is_setup

sessionVars == <<typed, script, phase, settings, masks, comm_fd, fds, disk,
                 image, imgfile, memblock, signal_count, is_setup>>
files == <<comm_fd, fds, disk>>
memory == <<image, imgfile, memblock>>
counters == <<signal_count, is_setup>>
shell == <<typed, script>>
allVars == <<clVars, sessionVars>>

----------------------------------------------------------------------------
(***************************************************************************)
(* The options of risu.                                                    *)
(***************************************************************************)
Opt(n, a, f, v) == [name |-> n, has_arg |-> a, flag |-> f, val |-> v]

ArchNames == <<"ccr_mask", "fpscr_mask", "fpregs_mask", "vrregs_mask",
               "fp_opts", "gregs_mask", "xer_mask", "mq_mask", "cpu_opts">>
extra_opts == [i \in 1..9 |-> Opt(ArchNames[i], "required", FALSE,
                                  ArchNames[i])]
default_longopts == <<Opt("help", "no", FALSE, "?"),
                      Opt("master", "no", TRUE, "1"),
                      Opt("host", "required", FALSE, "h"),
                      Opt("port", "required", FALSE, "p"),
                      Opt("trace", "required", FALSE, "t")>>
setup_options == default_longopts \o extra_opts
shortopts == [h |-> "required", p |-> "required", t |-> "required"]

ArchOpts == {ArchNames[i] : i \in 1..9}
Defaults == [trace |-> FALSE, trace_fn |-> NULL, hostname |-> <<"localhost">>,
             port |-> 9191]
\* The masks start with all ones (-1 here), the options with none.
DefaultMasks == [o \in ArchOpts |-> IF o \in {"fp_opts", "cpu_opts"} THEN 0
                                                                    ELSE -1]
ismaster == "master" \in flag

\* strtol(optarg, 0, 10) assigned to a uint16_t.
uint16(t) == Strtol(t, 10) % 2^16

\* One case of the switch on the value of getopt_long.
Switch(s, r) ==
  IF r.c = "t" THEN [s EXCEPT !.trace = TRUE, !.trace_fn = r.optarg[1]]
  ELSE IF r.c = "h" THEN [s EXCEPT !.hostname = r.optarg[1]]
  ELSE IF r.c = "p" THEN [s EXCEPT !.port = uint16(r.optarg[1])]
  ELSE s

process_arch_opt(ms, r) ==
  IF r.c \in ArchOpts THEN [ms EXCEPT ![r.c] = Strtol(r.optarg[1], 16)] ELSE ms

----------------------------------------------------------------------------
(***************************************************************************)
(* The shell: main reads lines, eval executes them.                        *)
(***************************************************************************)
SInit ==
  /\ text = [i \in {0} |-> <<"risu">>]
  /\ argv = FreshArgv(text)
  /\ optind = 0 /\ nextchar = NULL
  /\ first_nonopt = 0 /\ last_nonopt = 0
  /\ posix = FALSE
  /\ flag = {} /\ result = NoResult /\ returned = << >>
  /\ typed = 0 /\ script = << >>
  /\ phase = "shell"
  /\ settings = Defaults
  /\ masks = DefaultMasks
  /\ comm_fd = 0 /\ fds = << >>
  /\ disk = {}
  /\ image = 0 /\ imgfile = NULL /\ memblock = 0
  /\ signal_count = 0 /\ is_setup = FALSE

\* main: a line is read and given to eval.
main(c) ==
  /\ phase = "shell" /\ script = << >> /\ typed < MaxTyped
  /\ typed' = typed + 1
  /\ script' = << <<c>> >>
  /\ UNCHANGED <<clVars, phase, settings, masks, files, memory, counters>>

\* eval has read its text to the end and returns.
eval_end ==
  /\ phase = "shell" /\ script # << >> /\ Head(script) = << >>
  /\ script' = Tail(script)
  /\ UNCHANGED <<clVars, typed, phase, settings, masks, files, memory,
                 counters>>

Reads(name) ==
  /\ phase = "shell" /\ script # << >> /\ Head(script) # << >>
  /\ Head(Head(script)).name = name
Arg == Head(Head(script)).arg
Rest == <<Tail(Head(script))>> \o Tail(script)

\* exit leaves the rest of this text unread.
eval_exit ==
  /\ Reads("exit")
  /\ script' = Tail(script)
  /\ UNCHANGED <<clVars, typed, phase, settings, masks, files, memory,
                 counters>>

\* source evaluates a file, if it can be read, before the rest of this text.
eval_source ==
  /\ Reads("source") /\ Len(script) < MaxDepth
  /\ script' = IF Arg \in DOMAIN Scripts THEN <<Scripts[Arg]>> \o Rest
                                         ELSE Rest
  /\ UNCHANGED <<clVars, typed, phase, settings, masks, files, memory,
                 counters>>

\* risu calls risu_main, which sets its locals and resets some statics.
\* (Mutant: the static ismaster is not reset.)
eval_risu_KeepMaster ==
  /\ Reads("risu")
  /\ script' = Rest
  /\ phase' = "options"
  /\ text' = Arg /\ argv' = FreshArgv(Arg) /\ returned' = << >>
  /\ settings' = Defaults
  /\ signal_count' = 0 /\ is_setup' = FALSE
  /\ result' = NoResult
  /\ UNCHANGED <<optind, nextchar, first_nonopt, last_nonopt, posix, flag,
                 typed, masks, files, memory>>

eval_risu ==
  /\ Reads("risu")
  /\ script' = Rest
  /\ phase' = "options"
  /\ text' = Arg /\ argv' = FreshArgv(Arg) /\ returned' = << >>
  /\ settings' = Defaults
  /\ signal_count' = 0 /\ is_setup' = FALSE
  /\ flag' = {} /\ result' = NoResult
  /\ UNCHANGED <<optind, nextchar, first_nonopt, last_nonopt, posix,
                 typed, masks, files, memory>>

\* risu_main has returned: eval prepares getopt for another command.
eval_risu_end ==
  /\ phase = "return"
  /\ phase' = "shell"
  /\ optind' = 0
  /\ UNCHANGED <<text, argv, nextchar, first_nonopt, last_nonopt, posix, flag,
                 result, returned, shell, settings, masks, files, memory,
                 counters>>

----------------------------------------------------------------------------
(***************************************************************************)
(* risu_main.                                                              *)
(***************************************************************************)

\* One turn of the loop over the options.  --help shows the usage and returns.
Options ==
  /\ phase = "options"
  /\ getopt_long
  /\ Remember
  /\ phase' = IF result'.c = EOF THEN "open"
              ELSE IF result'.c = "?" THEN "return" ELSE "options"
  /\ settings' = Switch(settings, result')
  /\ masks' = process_arch_opt(masks, result')
  /\ UNCHANGED <<shell, files, memory, counters>>

FreeFds == Fds \ DOMAIN fds
Lowest(S) == CHOOSE n \in S : \A k \in S : n <= k

\* The trace must be a file here, and it must open: a master creates or
\* truncates it, an apprentice needs it to exist.
CannotOpen ==
  /\ phase = "open"
  /\ \/ ~settings.trace
     \/ settings.trace_fn = <<"-">>
     \/ FreeFds = {}
     \/ ~ismaster /\ settings.trace_fn \notin disk
  /\ phase' = "exited"
  /\ UNCHANGED <<clVars, shell, settings, masks, files, memory, counters>>

OpenTrace ==
  /\ phase = "open"
  /\ settings.trace /\ settings.trace_fn # <<"-">> /\ FreeFds # {}
  /\ ismaster \/ settings.trace_fn \in disk
  /\ comm_fd' = Lowest(FreeFds)
  /\ fds' = [d \in DOMAIN fds \cup {comm_fd'} |->
               IF d = comm_fd'
               THEN [file |-> settings.trace_fn, writes |-> ismaster]
               ELSE fds[d]]
  /\ disk' = disk \cup {settings.trace_fn}
  /\ phase' = "image"
  /\ UNCHANGED <<clVars, shell, settings, masks, memory, counters>>

\* argv[optind], which argcargv's array has no element for when no word is
\* left.
ImageArgument ==
  IF optind < argc THEN {<<text[argv[optind]]>>} ELSE BeyondArgv

MissingImage ==
  /\ phase = "image"
  /\ NULL \in ImageArgument
  /\ phase' = "return"
  /\ UNCHANGED <<clVars, shell, settings, masks, files, memory, counters>>

\* load_image: into a block the heap has free, or the process exits.
load_image ==
  /\ phase = "image"
  /\ \E f \in ImageArgument \ {NULL} :
       /\ imgfile' = f
       /\ IF f[1] \in Images
          THEN phase' = "running" /\ \E b \in Blocks : image' = b
          ELSE phase' = "exited" /\ image' = image
  /\ UNCHANGED <<clVars, shell, settings, masks, files, memblock, counters>>

\* The image while it runs: OP_SETMEMBLOCK, setup code, counted signals.
SetMemblock ==
  /\ phase = "running"
  /\ memblock' = image
  /\ UNCHANGED <<clVars, shell, phase, settings, masks, files, image, imgfile,
                 counters>>

Signal ==
  /\ phase = "running" /\ signal_count < MaxSignals
  /\ signal_count' = signal_count + 1
  /\ is_setup' \in BOOLEAN
  /\ UNCHANGED <<clVars, shell, phase, settings, masks, files, memory>>

Closed(d) == [e \in DOMAIN fds \ {d} |-> fds[e]]

\* unload_image and the return from risu_main.
unload_image ==
  /\ phase' = "return"
  /\ image' = 0
  /\ UNCHANGED <<clVars, shell, settings, masks, imgfile, memblock, counters>>

\* The master ends: RES_END, RES_SIGBUS and every unexpected result close the
\* trace; RES_BAD_IO, and an image that returns, do not.
master(res) ==
  /\ phase = "running" /\ ismaster
  /\ fds' = IF res \in {"RES_END", "RES_SIGBUS"} THEN Closed(comm_fd) ELSE fds
  /\ UNCHANGED <<comm_fd, disk>>
  /\ unload_image

\* The apprentice ends, in whatever way, and closes nothing.
apprentice ==
  /\ phase = "running" /\ ~ismaster
  /\ unload_image
  /\ UNCHANGED files

SNext ==
  \/ \E c \in Commands : main(c)
  \/ eval_end \/ eval_exit \/ eval_source \/ eval_risu \/ eval_risu_end
  \/ Options \/ CannotOpen \/ OpenTrace \/ MissingImage \/ load_image
  \/ SetMemblock \/ Signal
  \/ \E res \in {"RES_END", "RES_BAD_IO", "RES_SIGBUS", "returned"} :
       master(res)
  \/ apprentice

SSpec == SInit /\ [][SNext]_allVars

----------------------------------------------------------------------------
(***************************************************************************)
(* Properties.                                                             *)
(***************************************************************************)

\* The argument of the last option with value c on a line, or a default.
LastGiven(all, c, default) ==
  LET given == {i \in DOMAIN all : all[i].c = c}
  IN  IF given = {} THEN default ELSE all[Max(given)].optarg[1]
PortGiven(all) ==
  LET t == LastGiven(all, "p", << >>)
  IN  IF t = << >> THEN Defaults.port ELSE uint16(t)

\* Once its options are read, a risu command is set up as its own line says
\* whatever commands came before it, with two exceptions.  It is a master or not
\* as asked, its own trace file is behind comm_fd in the right mode, its
\* counters are at zero, and a mask or an option set on the line is in force.
\* The image that runs is the first word of the line.  The exceptions: a mask
\* that the line does not set is as an earlier command left it, since
\* risu_main does not reset these statics; and for a line without a word, where
\* risu_main means to say "Error: must specify image file name", any image may
\* run, since argv[argc] lies behind the array that argcargv allocates.
RunsAsAsked ==
  LET all == Meaning(text, FALSE)
      role == Roles(text, FALSE)
      words == Words(text, FALSE)
      masterAsked == \E i \in DOMAIN text : /\ role[i] = "option"
                                            /\ IsLong(text[i])
                                            /\ \E k \in Meant(text[i]) :
                                                 LongOpts[k].name = "master"
  IN  phase \in {"open", "image", "running"} =>
        /\ ismaster <=> masterAsked
        /\ settings.trace <=> \E i \in DOMAIN all : all[i].c = "t"
        /\ settings.trace_fn = LastGiven(all, "t", NULL)
        /\ settings.port = PortGiven(all)
        /\ phase # "running" => signal_count = 0 /\ ~is_setup
        /\ phase # "open" => fds[comm_fd] = [file |-> settings.trace_fn,
                                             writes |-> masterAsked]
        /\ \A o \in ArchOpts :
             LET t == LastGiven(all, o, << >>)
             IN  t # << >> => masks[o] = Strtol(t, 16)
        /\ phase = "running" /\ words # {} =>
             imgfile = <<text[Lowest(words)]>>
============================================================================
