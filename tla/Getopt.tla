------------------------------- MODULE Getopt -------------------------------
(***************************************************************************)
(* compat/getopt.c, the option parser risu is built with where the system  *)
(* has none: getopt_long called again and again over one argv until it     *)
(* returns EOF.                                                            *)
(*                                                                         *)
(* argv is an array of pointers: argv[i] is the original position of the   *)
(* string now at index i, and text[k] the string that was at position k.   *)
(* A string is a sequence of tokens.  "-" and "=" are tokens of their own, *)
(* every other character is a token, and so is the whole of a long name,   *)
(* since only its comparison with the table matters.                       *)
(*                                                                         *)
(* The optstring is risu's kind: it starts with none of '-', '+' and ':'.  *)
(* Hence RETURN_IN_ORDER is never chosen.  The result of a call is its     *)
(* value and optarg; NULL is the empty sequence, a string s is <<s>>.      *)
(***************************************************************************)
EXTENDS Integers, Sequences, FiniteSets

CONSTANTS
  LongOpts,     \* the long options: a sequence of struct option
  ShortOpts,    \* option character -> "no", "required" or "optional" argument
  Abbreviates,  \* pairs <<a, n>>: a is a proper initial part of the name n
  CommandLines, \* the command lines: index -> string
  Environments  \* the values POSIXLY_CORRECT may have: a subset of BOOLEAN

\* An argv has a program name at 0 and no gaps.
ASSUME LinesAssumption ==
  \A t \in CommandLines :
    /\ IsFiniteSet(DOMAIN t)
    /\ DOMAIN t = 0..(Cardinality(DOMAIN t) - 1)
    /\ 0 \in DOMAIN t
    /\ \A i \in DOMAIN t : t[i] \in Seq(STRING)

VARIABLES
  text,          \* the strings of the command line, by original position
  argv,          \* index -> original position
  optind,
  nextchar,      \* what is left of the current element; <<>> for NULL or ""
  first_nonopt,
  last_nonopt,
  posix,         \* POSIXLY_CORRECT is set
  flag,          \* *(pfound->flag): the options with a flag that were given
  result         \* what the last call returned: [c, optarg]

statics == <<argv, optind, nextchar, first_nonopt, last_nonopt>>
getoptVars == <<text, argv, optind, nextchar, first_nonopt, last_nonopt,
                posix, flag, result>>

EOF == "EOF"
\* The value of an unrecognized option, which is also the value returned for
\* an option with a flag: the character '\0' is 0.
BAD_OPTION == "0"
NULL == << >>

\* The names of the table differ, no option has the value EOF, and an option
\* character has one of the three forms in optstring.
ASSUME TableAssumption ==
  /\ Len(LongOpts) \in Nat
  /\ \A i, j \in 1..Len(LongOpts) : LongOpts[i].name = LongOpts[j].name => i = j
  /\ \A i \in 1..Len(LongOpts) : LongOpts[i].val # EOF
  /\ EOF \notin DOMAIN ShortOpts
  /\ \A c \in DOMAIN ShortOpts : ShortOpts[c] \in {"no", "required", "optional"}

argc == Cardinality(DOMAIN text)

----------------------------------------------------------------------------
(***************************************************************************)
(* Permutation.                                                            *)
(***************************************************************************)

\* The elements with indices first .. last - 1 in reverse, as a loop of swaps
\* from both ends leaves them.
Reversed(a, first, last) ==
  [i \in DOMAIN a |-> IF first <= i /\ i < last THEN a[first + last - 1 - i]
                                                ELSE a[i]]

\* (Mutant: the words are left in reverse order.)
exchange_TwoReversals(a, first, last, ind) ==
  LET mid == first + (ind - last)
  IN  Reversed(Reversed(a, first, ind), first, mid)

\* Moves the options last .. ind - 1 before the words first .. last - 1 by
\* three reversals.
exchange(a, first, last, ind) ==
  LET mid == first + (ind - last)
  IN  Reversed(Reversed(Reversed(a, first, ind), first, mid), mid, ind)

\* A string that is no option: it does not start with '-', or is just "-".
NonOption(s) == ~(Len(s) > 1 /\ s[1] = "-")

\* Where the loop that skips non-options from index i stops: after as many
\* elements as it can pass.
SkipTo(a, i) ==
  i + Cardinality({k \in i..(argc - 1) :
                     \A l \in i..k : NonOption(text[a[l]])})

\* The state of the parser as one value, and what a call does to it before it
\* decodes an option.
Current == [argv |-> argv, optind |-> optind, nextchar |-> nextchar,
            first_nonopt |-> first_nonopt, last_nonopt |-> last_nonopt]

\* The first call initialises.
Start(g) ==
  IF g.optind = 0
  THEN [g EXCEPT !.optind = 1, !.first_nonopt = 1, !.last_nonopt = 1,
                 !.nextchar = NULL]
  ELSE g

\* The options processed since the last words are moved before these words.
Exchanged(g) ==
  [g EXCEPT
     !.argv = exchange(@, g.first_nonopt, g.last_nonopt, g.optind),
     !.first_nonopt = @ + (g.optind - g.last_nonopt),
     !.last_nonopt = g.optind]

\* With PERMUTE: exchange if needed, then skip the words that follow.
Permute(g) ==
  LET e == IF g.first_nonopt # g.last_nonopt /\ g.last_nonopt # g.optind
           THEN Exchanged(g)
           ELSE [g EXCEPT !.first_nonopt =
                             IF g.last_nonopt # g.optind THEN g.optind ELSE @]
      j == SkipTo(e.argv, e.optind)
  IN  [e EXCEPT !.optind = j, !.last_nonopt = j]

\* "--" is skipped like an option, and everything after it like a word.
\* (Mutant: "--" is not moved before the words already skipped.)
EndOfOptions_NoExchange(g) ==
  IF g.optind # argc /\ text[g.argv[g.optind]] = <<"-", "-">>
  THEN [g EXCEPT !.first_nonopt = IF g.first_nonopt = g.last_nonopt
                                  THEN g.optind + 1 ELSE @,
                 !.last_nonopt = argc, !.optind = argc]
  ELSE g

EndOfOptions(g) ==
  IF g.optind # argc /\ text[g.argv[g.optind]] = <<"-", "-">>
  THEN LET s == [g EXCEPT !.optind = @ + 1]
           e == IF s.first_nonopt # s.last_nonopt THEN Exchanged(s)
                ELSE [s EXCEPT !.first_nonopt = s.optind]
       IN  [e EXCEPT !.last_nonopt = argc, !.optind = argc]
  ELSE g

\* Everything a call does before it looks at an option.
Scan(g) ==
  LET s == Start(g)
  IN  IF s.nextchar # NULL THEN s
      ELSE EndOfOptions(IF posix THEN s ELSE Permute(s))

----------------------------------------------------------------------------
(***************************************************************************)
(* Decoding one option.  A decoder takes the scanned state and gives the   *)
(* value returned, optarg, the new optind and nextchar, and the option     *)
(* whose flag is set.                                                      *)
(***************************************************************************)
Decoded(c, arg, ind, next) ==
  [c |-> c, optarg |-> arg, optind |-> ind, nextchar |-> next, set |-> {}]

\* What stands before and after the first "=" of a long option.
NameEnd(s) == CHOOSE n \in 0..Len(s) :
                 /\ n = Len(s) \/ s[n + 1] = "="
                 /\ \A k \in 1..n : s[k] # "="
Name(s) == SubSeq(s, 1, NameEnd(s))
HasValue(s) == NameEnd(s) < Len(s)
Value(s) == SubSeq(s, NameEnd(s) + 2, Len(s))

\* my_strncmp(p->name, nextchar, s - nextchar) = 0, and the exact match.
Matches(name) ==
  {i \in 1..Len(LongOpts) :
     \/ name = << >>
     \/ name = <<LongOpts[i].name>>
     \/ Len(name) = 1 /\ <<name[1], LongOpts[i].name>> \in Abbreviates}
Exact(name) == {i \in 1..Len(LongOpts) : name = <<LongOpts[i].name>>}

\* The option the loop over the table finds: an exact match before any
\* abbreviation, and an abbreviation only when it is the only one.
\* (Mutant: an exact match is one of several.)
Found_Ambiguous(name) ==
  IF Cardinality(Matches(name)) = 1 THEN Matches(name) ELSE {}

Found(name) ==
  IF Exact(name) # {} THEN Exact(name)
  ELSE IF Cardinality(Matches(name)) = 1 THEN Matches(name) ELSE {}

LongOption(g) ==
  LET s == g.nextchar
      ind == g.optind + 1
      Bad == Decoded(BAD_OPTION, NULL, ind, NULL)
      p == LongOpts[CHOOSE i \in Found(Name(s)) : TRUE]
      With(arg, next) ==
        [Decoded(IF p.flag THEN "0" ELSE p.val, arg, next, NULL)
           EXCEPT !.set = IF p.flag THEN {p.name} ELSE {}]
  IN  IF Found(Name(s)) = {} THEN Bad
      ELSE IF HasValue(s)
           THEN IF p.has_arg = "no" THEN Bad ELSE With(<<Value(s)>>, ind)
      ELSE IF p.has_arg # "required" THEN With(NULL, ind)
      ELSE IF ind < argc THEN With(<<text[g.argv[ind]]>>, ind + 1)
      ELSE Bad

\* (Mutant: optind is not moved past the element whose rest is the argument.)
ShortOption_Stays(g) ==
  LET c == g.nextchar[1]
      rest == Tail(g.nextchar)
      ind == IF rest = << >> THEN g.optind + 1 ELSE g.optind
  IN  IF c \notin DOMAIN ShortOpts THEN Decoded(BAD_OPTION, NULL, ind, rest)
      ELSE IF ShortOpts[c] = "no" THEN Decoded(c, NULL, ind, rest)
      ELSE IF rest # << >> THEN Decoded(c, <<rest>>, ind, NULL)
      ELSE IF ShortOpts[c] = "optional" THEN Decoded(c, NULL, ind, NULL)
      ELSE IF ind = argc THEN Decoded(BAD_OPTION, NULL, ind, NULL)
      ELSE Decoded(c, <<text[g.argv[ind]]>>, ind + 1, NULL)

ShortOption(g) ==
  LET c == g.nextchar[1]
      rest == Tail(g.nextchar)
      ind == IF rest = << >> THEN g.optind + 1 ELSE g.optind
  IN  IF c \notin DOMAIN ShortOpts THEN Decoded(BAD_OPTION, NULL, ind, rest)
      ELSE IF ShortOpts[c] = "no" THEN Decoded(c, NULL, ind, rest)
      ELSE IF rest # << >> THEN Decoded(c, <<rest>>, ind + 1, NULL)
      ELSE IF ShortOpts[c] = "optional" THEN Decoded(c, NULL, ind, NULL)
      ELSE IF ind = argc THEN Decoded(BAD_OPTION, NULL, ind, NULL)
      ELSE Decoded(c, <<text[g.argv[ind]]>>, ind + 1, NULL)

IsLong(s) == Len(s) > 1 /\ s[1] = "-" /\ s[2] = "-"

\* A new element is entered past its "-" or "--".
Decode(g) ==
  LET s == text[g.argv[g.optind]]
      n == IF g.nextchar # NULL THEN g
           ELSE [g EXCEPT !.nextchar = SubSeq(s, IF IsLong(s) THEN 3 ELSE 2,
                                              Len(s))]
  IN  IF IsLong(s) THEN LongOption(n) ELSE ShortOption(n)

----------------------------------------------------------------------------
(***************************************************************************)
(* The calls.                                                              *)
(***************************************************************************)
Install(g) ==
  /\ argv' = g.argv
  /\ first_nonopt' = g.first_nonopt
  /\ last_nonopt' = g.last_nonopt

\* All elements are done: optind backs over the words skipped and permuted.
ReturnEof ==
  \E g \in {Scan(Current)} :
      /\ g.nextchar = NULL
      /\ g.optind = argc
      /\ Install(g)
      /\ optind' = IF g.first_nonopt # g.last_nonopt THEN g.first_nonopt
                                                     ELSE g.optind
      /\ nextchar' = NULL
      /\ result' = [c |-> EOF, optarg |-> NULL]
      /\ UNCHANGED <<text, posix, flag>>

\* REQUIRE_ORDER: the first word ends the options.
ReturnAtWord ==
  \E g \in {Scan(Current)} :
      /\ g.nextchar = NULL
      /\ g.optind # argc
      /\ NonOption(text[g.argv[g.optind]])
      /\ Install(g)
      /\ optind' = g.optind
      /\ nextchar' = NULL
      /\ result' = [c |-> EOF, optarg |-> NULL]
      /\ UNCHANGED <<text, posix, flag>>

\* One option is decoded and returned.
ReturnOption ==
  \E g \in {Scan(Current)} :
      /\ g.nextchar # NULL
           \/ (g.optind # argc /\ ~NonOption(text[g.argv[g.optind]]))
      /\ \E d \in {Decode(g)} :
           /\ Install(g)
           /\ optind' = d.optind
           /\ nextchar' = d.nextchar
           /\ flag' = flag \cup d.set
           /\ result' = [c |-> d.c, optarg |-> d.optarg]
           /\ UNCHANGED <<text, posix>>

getopt_long == ReturnEof \/ ReturnAtWord \/ ReturnOption

\* The parser when a command line t is about to be read: optind is 0 before
\* the first call, and so it is set again before another command line.
FreshArgv(t) == [i \in DOMAIN t |-> i]
NoResult == [c |-> "none", optarg |-> NULL]

Init ==
  /\ text \in CommandLines
  /\ argv = FreshArgv(text)
  /\ optind = 0
  /\ nextchar = NULL
  /\ first_nonopt = 0
  /\ last_nonopt = 0
  /\ posix \in Environments
  /\ flag = {}
  /\ result = NoResult

\* The caller's loop: it stops at EOF.
Next ==
  /\ result.c # EOF
  /\ getopt_long

Spec == Init /\ [][Next]_getoptVars

----------------------------------------------------------------------------
\* The elements of argv remain those of the command line, and neither the
\* skipped words first_nonopt .. last_nonopt - 1, nor what stands before them,
\* nor what follows them, has changed its order: exchange moves blocks.
OrderKept ==
  LET n == argc - 1
      Same(i, j) == \/ j < first_nonopt
                    \/ first_nonopt <= i /\ j < last_nonopt
                    \/ last_nonopt <= i
  IN  /\ argv \in [0..n -> 0..n]
      /\ \A i, j \in 0..n : i < j => argv[i] # argv[j]
      /\ \A i, j \in 0..n : i < j /\ Same(i, j) => argv[i] < argv[j]
=============================================================================
