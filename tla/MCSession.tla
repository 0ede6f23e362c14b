----------------------------- MODULE MCSession -----------------------------
(***************************************************************************)
(* Instances of Session: sequences of a few commands, typed or in scripts. *)
(***************************************************************************)
EXTENDS Session

Line(args) == [i \in 0..Len(args) |-> IF i = 0 THEN <<"risu">> ELSE args[i]]
Risu(args) == [name |-> "risu", arg |-> Line(args)]

MCLongOpts == setup_options
MCShortOpts == shortopts
MCAbbreviates == {<<"h", "help">>, <<"h", "host">>, <<"m", "master">>,
                  <<"tr", "trace">>}

Long(n) == <<"-", "-", n>>
Record == Risu(<< Long("master"), <<"-", "t">>, <<"f">>, <<"img">> >>)
Words2 == Risu(<< <<"img">>, Long("m"), <<"other">>, <<"-", "t", "f">> >>)
Play == Risu(<< <<"img">>, <<"-", "-", "tr", "=", "f">> >>)
Ended == Risu(<< <<"-", "t">>, <<"f">>, <<"-", "-">>, <<"img">>,
                 Long("master") >>)
Help == Risu(<< Long("master"), Long("help"), <<"img">> >>)
Masked == Risu(<< <<"-", "-", "fp_opts", "=", "1">>, <<"-", "p", "65537">>,
                  <<"-", "t", "f">>, <<"-", "h">>, <<"x">>, <<"img">> >>)
NoTrace == Risu(<< <<"img">> >>)
NoImage == Risu(<< Long("master"), <<"-", "t", "f">> >>)

Source(f) == [name |-> "source", arg |-> f]
Exit == [name |-> "exit", arg |-> "none"]
MCScripts == [s |-> <<Record, Exit, NoTrace>>, r |-> <<Source("s"), Play>>]

Proper == {Record, Words2, Play, Ended, Help, Masked, NoTrace, Source("r"),
           Source("none"), NoImage, Exit}
\* Behind the array: nothing, or a pointer an earlier command left there, to a
\* word that names an image or to one that does not.
Leftover == {NULL, << <<"other">> >>, << <<"gone">> >>}
MCStrtol(t, base) == IF t = <<"1">> THEN 1
                     ELSE IF t = <<"65537">> THEN 65537 ELSE 0
NoLines == {}
MCImages == {<<"img">>, <<"other">>}
=============================================================================
