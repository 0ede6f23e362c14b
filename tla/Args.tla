-------------------------------- MODULE Args --------------------------------
(***************************************************************************)
(* argcargv (risu_main.c) and the loop of eval around it: a buffer of      *)
(* lines is split into words line by line.  Each line is read twice.  The  *)
(* first pass counts the words, the second writes them over the line, with *)
(* quotes and backslashes gone and a NUL after each, while it is read.     *)
(*                                                                         *)
(* The buffer is a function on 0..N with NUL at N only.  A character is    *)
(* its class: "b" a blank, "n" a line end, the two quotes, the backslash,  *)
(* the letters t, n and r after a backslash as "t" and "l", and others.    *)
(***************************************************************************)
EXTENDS Integers, Sequences

CONSTANTS
  N,         \* index of the terminating NUL
  Buffers    \* the buffers given to eval

ASSUME NAssumption == N \in Nat

NUL == "0"
Chars == {"b", "n", "q", "a", "s", "t", "l", "x"}

ASSUME BufferAssumption ==
  \A b \in Buffers : /\ b \in [0..N -> Chars \cup {NUL}]
                     /\ \A i \in 0..N : b[i] = NUL <=> i = N

VARIABLES
  orig,   \* the buffer as it was given
  buf,    \* the buffer
  line,   \* where the current line starts: the argument of argcargv
  p,      \* 0 the counting pass, 1 the writing pass
  s, d,   \* the two pointers
  mode,   \* the loop the code is in: "words", "word", "q", "a", "s" or "done"
  argc,
  room,   \* the number of elements allocated for argv
  argv    \* the pointers stored

vars == <<orig, buf, line, p, s, d, mode, argc, room, argv>>

Init ==
  /\ orig \in Buffers
  /\ buf = orig
  /\ line = 0 /\ p = 0 /\ s = 0 /\ d = 0
  /\ mode = "words"
  /\ argc = 0 /\ room = 0 /\ argv = << >>

\* if (p) *d++ = c
Put(c) ==
  /\ buf' = IF p = 1 THEN [buf EXCEPT ![d] = c] ELSE buf
  /\ d' = d + p
Keep == UNCHANGED <<buf, d>>
Static == UNCHANGED <<orig, line, p, room>>
SameWords == UNCHANGED <<argc, argv>>
To(m, n) == mode' = m /\ s' = n

\* Between two words: blanks are skipped, a line end ends the line, anything
\* else starts a word.
Blank ==
  /\ mode = "words" /\ buf[s] = "b"
  /\ To("words", s + 1)
  /\ Keep /\ SameWords /\ Static

LineEnd ==
  /\ mode = "words" /\ buf[s] \in {"n", NUL}
  /\ To("done", IF buf[s] = NUL THEN s ELSE s + 1)
  /\ Keep /\ SameWords /\ Static

StartWord ==
  /\ mode = "words" /\ buf[s] \notin {"b", "n", NUL}
  /\ argv' = IF p = 1 THEN Append(argv, d) ELSE argv
  /\ argc' = argc + 1
  /\ To("word", s)
  /\ Keep /\ Static

\* In a word: a quote or a backslash is passed over.
Quote ==
  /\ mode = "word" /\ buf[s] \in {"q", "a", "s"}
  /\ To(buf[s], s + 1)
  /\ Keep /\ SameWords /\ Static

\* Quoted text is copied up to the same quote or the end of the buffer.
\* (Mutant: a backslash works in double quotes too, in the writing pass.)
Quoted_Escapes ==
  /\ mode \in {"q", "a"} /\ buf[s] \notin {mode, NUL}
  /\ IF p = 1 /\ mode = "q" /\ buf[s] = "s" /\ s + 1 < N
     THEN Put(buf[s + 1]) /\ To(mode, s + 2)
     ELSE Put(buf[s]) /\ To(mode, s + 1)
  /\ SameWords /\ Static

Quoted ==
  /\ mode \in {"q", "a"} /\ buf[s] \notin {mode, NUL}
  /\ Put(buf[s])
  /\ To(mode, s + 1)
  /\ SameWords /\ Static

\* (Mutant: a missing quote is waited for.)
EndQuote_NotAtEnd ==
  /\ mode \in {"q", "a"} /\ buf[s] = mode
  /\ To("word", s + 1)
  /\ Keep /\ SameWords /\ Static

EndQuote ==
  /\ mode \in {"q", "a"} /\ buf[s] \in {mode, NUL}
  /\ To("word", IF buf[s] = NUL THEN s ELSE s + 1)
  /\ Keep /\ SameWords /\ Static

\* What a backslash makes of the next character: \t a tab, \n and \r a line
\* end, anything else itself.
Unescaped(c) == IF c = "t" THEN "b" ELSE IF c = "l" THEN "n" ELSE c

Escaped ==
  /\ mode = "s" /\ buf[s] # NUL
  /\ Put(Unescaped(buf[s]))
  /\ To("word", s + 1)
  /\ SameWords /\ Static

NothingEscaped ==
  /\ mode = "s" /\ buf[s] = NUL
  /\ To("word", s)
  /\ Keep /\ SameWords /\ Static

Plain ==
  /\ mode = "word" /\ buf[s] \in {"t", "l", "x"}
  /\ Put(buf[s])
  /\ To("word", s + 1)
  /\ SameWords /\ Static

\* The end of a word is at a blank, a line end or the end of the buffer.
\* (Mutant: a word gets a NUL before and after the character that ends it.)
EndWord_Twice ==
  /\ mode = "word" /\ buf[s] \in {"b", "n", NUL}
  /\ buf' = IF p = 1 THEN [i \in 0..N |-> IF i \in {d, d + 1} THEN NUL
                                          ELSE buf[i]] ELSE buf
  /\ d' = d + 2 * p
  /\ To(IF buf[s] = "n" THEN "done" ELSE "words",
        IF buf[s] = NUL THEN s ELSE s + 1)
  /\ SameWords /\ Static

EndWord ==
  /\ mode = "word" /\ buf[s] \in {"b", "n", NUL}
  /\ Put(NUL)
  /\ To(IF buf[s] = "n" THEN "done" ELSE "words",
        IF buf[s] = NUL THEN s ELSE s + 1)
  /\ SameWords /\ Static

\* The second pass starts with an array for the words counted in the first.
SecondPass ==
  /\ mode = "done" /\ p = 0
  /\ p' = 1 /\ room' = argc /\ argc' = 0 /\ argv' = << >>
  /\ s' = line /\ d' = line /\ mode' = "words"
  /\ UNCHANGED <<orig, buf, line>>

\* eval has executed the line and goes on with the next one.
NextLine ==
  /\ mode = "done" /\ p = 1 /\ buf[s] # NUL
  /\ p' = 0 /\ room' = 0 /\ argc' = 0 /\ argv' = << >>
  /\ line' = s /\ d' = s /\ mode' = "words"
  /\ UNCHANGED <<orig, buf, s>>

Next ==
  \/ Blank \/ LineEnd \/ StartWord \/ Quote \/ Quoted \/ EndQuote
  \/ Escaped \/ NothingEscaped \/ Plain \/ EndWord \/ SecondPass \/ NextLine

Spec == Init /\ [][Next]_vars
FairSpec == Spec /\ WF_vars(Next)
----------------------------------------------------------------------------
(***************************************************************************)
(* Properties.                                                             *)
(***************************************************************************)

\* What has still to be read is as it was given, although the words are
\* written over what was read, and the writes stay inside the buffer.
ReadsAsGiven ==
  /\ \A i \in s..N : buf[i] = orig[i]
  /\ s \in 0..N
  /\ d \in 0..(s + 1)
  /\ mode \notin {"words", "done"} => d <= s

\* The second pass finds no more words than the first one made room for, and
\* at its end just as many.
ArgvFits ==
  p = 1 => /\ argc <= room
           /\ mode = "done" => argc = room

\* The words of a line, read once from a text that does not change.  What the
\* next character makes of the words so far:
Add(words, c) == [words EXCEPT ![Len(words)] = Append(@, c)]

Consume(st, c) ==
  LET w == IF st.mode = "words" THEN Append(st.words, << >>) ELSE st.words
  IN  IF st.mode = "done" THEN st
      ELSE IF st.mode \in {"q", "a"}
        THEN IF c = st.mode THEN [mode |-> "word", words |-> st.words]
             ELSE [mode |-> st.mode, words |-> Add(st.words, c)]
      ELSE IF st.mode = "s"
        THEN [mode |-> "word", words |-> Add(st.words, Unescaped(c))]
      ELSE IF c = "b" THEN [mode |-> "words", words |-> st.words]
      ELSE IF c = "n" THEN [mode |-> "done", words |-> st.words]
      ELSE IF c \in {"q", "a", "s"} THEN [mode |-> c, words |-> w]
      ELSE [mode |-> "word", words |-> Add(w, c)]

\* The mode and the words after the characters l .. i - 1, for every i.
Reading(l) ==
  LET read[i \in l..N] ==
        IF i = l THEN [mode |-> "words", words |-> << >>]
        ELSE Consume(read[i - 1], orig[i - 1])
  IN  read

\* Where the line that starts at l ends, and its words.
Ends(l, i) ==
  /\ i = N \/ Reading(l)[i].mode = "done"
  /\ \A j \in l..(i - 1) : Reading(l)[j].mode # "done"
EndOf(l) == CHOOSE i \in l..N : Ends(l, i)
Words(l) == Reading(l)[EndOf(l)].words

\* The string a pointer of argv points to.
FirstNUL(a, n) == buf[n] = NUL /\ \A k \in a..(n - 1) : buf[k] # NUL
NULAfter(a) == CHOOSE n \in a..N : FirstNUL(a, n)
strlen(a) == NULAfter(a) - a
StringAt(a) == [i \in 1..strlen(a) |-> buf[a + i - 1]]

\* The two passes in place give the words of the line, and eval goes on where
\* the line ends.
SplitRight ==
  mode = "done" /\ p = 1 =>
    /\ [i \in 1..argc |-> StringAt(argv[i])] = Words(line)
    /\ s = EndOf(line)

\* Every buffer is read to its end.
EvalEnds == <>(mode = "done" /\ p = 1 /\ buf[s] = NUL)
=============================================================================
