------------------------------ MODULE MCGetopt ------------------------------
(***************************************************************************)
(* Instances of Getopt: every command line of up to MaxArgs strings of any *)
(* kind, and longer ones of a few kinds, where words and options alternate *)
(* and exchange has work to do several times.                              *)
(***************************************************************************)
EXTENDS Getopt

CONSTANTS MaxArgs, LongLine

Opt(n, a, f, v) == [name |-> n, has_arg |-> a, flag |-> f, val |-> v]

\* "host" and "hostname" show an exact match that another name continues.
MCLongOpts == <<Opt("host", "required", FALSE, "h"),
                Opt("hostname", "required", FALSE, "n"),
                Opt("master", "no", TRUE, "1"),
                Opt("color", "optional", FALSE, "o")>>
MCShortOpts == [v |-> "no", t |-> "required", c |-> "optional"]
MCAbbreviates == {<<"ho", "host">>, <<"ho", "hostname">>,
                  <<"host", "hostname">>, <<"m", "master">>}

Texts == { << >>, <<"w">>, <<"-">>, <<"-", "-">>,
           <<"-", "v">>, <<"-", "t">>, <<"-", "v", "t">>, <<"-", "t", "v">>,
           <<"-", "c", "w">>, <<"-", "c">>, <<"-", "x">>,
           <<"-", "-", "m">>, <<"-", "-", "host">>, <<"-", "-", "ho">>,
           <<"-", "-", "host", "=", "w">>, <<"-", "-", "master", "=", "w">>,
           <<"-", "-", "color">> }

FewTexts == { <<"w">>, <<"-", "-">>, <<"-", "v">>, <<"-", "t">>,
              <<"-", "-", "m">> }

Line(args) == [i \in 0..Len(args) |-> IF i = 0 THEN <<"w">> ELSE args[i]]
MCCommandLines ==
  {Line(args) : args \in UNION {[1..n -> Texts] : n \in 0..MaxArgs}
                           \cup [1..LongLine -> FewTexts]}
=============================================================================
