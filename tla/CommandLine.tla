---------------------------- MODULE CommandLine ----------------------------
(***************************************************************************)
(* What a command line means, stated on the line as it was typed, and that *)
(* the calls of getopt_long return just that: the options with their       *)
(* arguments in order, and argv with the words moved to the end.           *)
(***************************************************************************)
EXTENDS Getopt, SequencesExt

CONSTANT MaxReturned  \* bound: results remembered, more than any line has

VARIABLE returned     \* what the calls returned so far

clVars == <<getoptVars, returned>>

CLInit == Init /\ returned = << >>

Remember ==
  returned' = IF result'.c = EOF \/ Len(returned) = MaxReturned THEN returned
              ELSE Append(returned, result')

CLNext ==
  /\ Next
  /\ Remember

\* The caller is a loop that does nothing else.
CLSpec == CLInit /\ [][CLNext]_clVars /\ WF_clVars(CLNext)

----------------------------------------------------------------------------
(***************************************************************************)
(* The meaning of a command line t, with or without POSIXLY_CORRECT.       *)
(***************************************************************************)

\* The index of the first character of a group of short options that takes an
\* argument, or of its last character.
ArgumentAt(s) ==
  LET takes == {k \in 2..Len(s) : s[k] \in DOMAIN ShortOpts
                                    /\ ShortOpts[s[k]] # "no"}
  IN  IF takes = {} THEN Len(s) ELSE Min(takes)

\* The option a long option names: the name is complete, or an abbreviation
\* of this option only.
Meant(s) ==
  LET name == Name(SubSeq(s, 3, Len(s)))
  IN  {i \in Matches(name) : \/ name = <<LongOpts[i].name>>
                             \/ Matches(name) = {i}}

\* Whether the argument of the option string s is the string after it.
TakesNext(s) ==
  IF IsLong(s)
  THEN /\ ~HasValue(SubSeq(s, 3, Len(s)))
       /\ \E i \in Meant(s) : LongOpts[i].has_arg = "required"
  ELSE LET c == s[ArgumentAt(s)]
       IN  /\ ArgumentAt(s) = Len(s)
           /\ c \in DOMAIN ShortOpts
           /\ ShortOpts[c] = "required"

\* What a string of the line is, after what the one before it is: an option,
\* the argument of the option before it, the "--" that ends the options, or a
\* word.
Role(t, px, i, previous) ==
  IF previous \in {"end", "rest"} \/ (previous = "word" /\ px)
  THEN "rest"
  ELSE IF previous = "option" /\ TakesNext(t[i - 1]) THEN "argument"
  ELSE IF t[i] = <<"-", "-">> THEN "end"
  ELSE IF NonOption(t[i]) THEN "word"
  ELSE "option"

Roles(t, px) ==
  LET role[i \in DOMAIN t] ==
        IF i = 0 THEN "program" ELSE Role(t, px, i, role[i - 1])
  IN  role

\* The results of the option string at i.
Returns(t, i) ==
  LET s == t[i]
      following == IF i + 1 \in DOMAIN t THEN <<t[i + 1]>> ELSE NULL
      val(c, arg) == [c |-> c, optarg |-> arg]
      long == SubSeq(s, 3, Len(s))
      p == LongOpts[CHOOSE k \in Meant(s) : TRUE]
      longval(arg) == val(IF p.flag THEN "0" ELSE p.val, arg)
      LongReturns ==
        IF Meant(s) = {} \/ (HasValue(long) /\ p.has_arg = "no")
           \/ (TakesNext(s) /\ following = NULL)
        THEN val(BAD_OPTION, NULL)
        ELSE longval(IF HasValue(long) THEN <<Value(long)>>
                     ELSE IF TakesNext(s) THEN following ELSE NULL)
      ShortReturns(k) ==
        IF s[k] \notin DOMAIN ShortOpts THEN val(BAD_OPTION, NULL)
        ELSE IF ShortOpts[s[k]] = "no" THEN val(s[k], NULL)
        ELSE IF k < Len(s) THEN val(s[k], <<SubSeq(s, k + 1, Len(s))>>)
        ELSE IF ShortOpts[s[k]] = "optional" THEN val(s[k], NULL)
        ELSE IF following = NULL THEN val(BAD_OPTION, NULL)
        ELSE val(s[k], following)
  IN  IF IsLong(s) THEN <<LongReturns>>
      ELSE [k \in 1..(ArgumentAt(s) - 1) |-> ShortReturns(k + 1)]

\* The results of all the options of a line.
Meaning(t, px) ==
  LET role == Roles(t, px)
  IN  FlattenSeq([i \in 1..(Cardinality(DOMAIN t) - 1) |->
                    IF role[i] = "option" THEN Returns(t, i) ELSE << >>])

\* The words of a line, as positions.
Words(t, px) ==
  LET role == Roles(t, px) IN {i \in DOMAIN t : role[i] \in {"word", "rest"}}

----------------------------------------------------------------------------
(***************************************************************************)
(* Properties.                                                             *)
(***************************************************************************)

\* At EOF argv holds the options with their arguments, then the words, each
\* in the order of the command line, and optind is the index of the first
\* word: "when it is done, all the options precede everything else".
Permuted ==
  result.c = EOF =>
    /\ \A i, j \in DOMAIN argv :
         i < j /\ (j < optind \/ i >= optind) => argv[i] < argv[j]
    /\ {argv[i] : i \in optind..(argc - 1)} = Words(text, posix)

\* What the calls have returned is a prefix of what the line means, and at EOF
\* all of it: no option is lost, repeated or given another one's argument,
\* whatever words stand between them.
Attributed ==
  LET all == Meaning(text, posix)
  IN  /\ Len(returned) <= Len(all)
      /\ returned = SubSeq(all, 1, Len(returned))
      /\ result.c = EOF => returned = all

\* The caller's loop over the options ends: every call that returns an option
\* has moved on in the element or in argv.
ScanEnds == <>(result.c = EOF)
=============================================================================
