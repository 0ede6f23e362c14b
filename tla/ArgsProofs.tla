----------------------------- MODULE ArgsProofs -----------------------------
(***************************************************************************)
(* ReadsAsGiven, ArgvFits and SplitRight for every buffer of every length. *)
(* argcargv can write the words over the line it reads because the writing *)
(* pointer never passes the reading one.  The one place where it could is  *)
(* the NUL behind the last word, written without a step of the reader at   *)
(* the end of the buffer; ArgsInv says that nothing is written after that. *)
(* CountInv and WriteInv then follow the two passes beside the reference,  *)
(* which reads the line once: the first pass finds that the reference has  *)
(* a run over the line, the second that its words are in the buffer.       *)
(***************************************************************************)
EXTENDS Args, SequenceTheorems, TLAPS

Text == [0..N -> Chars \cup {NUL}]
Modes == {"words", "word", "q", "a", "s", "done"}

\* What is in front of the reader is unread; in the counting pass the whole
\* line is.  Behind the last word the writer may be one ahead, on a NUL.
ArgsInv ==
  /\ orig \in Text /\ \A i \in 0..N : orig[i] = NUL <=> i = N
  /\ buf \in Text
  /\ s \in 0..N /\ line \in 0..s
  /\ p \in {0, 1}
  /\ mode \in Modes
  /\ \A i \in s..N : buf[i] = orig[i]
  /\ p = 0 => d = line /\ \A i \in line..N : buf[i] = orig[i]
  /\ d \in 0..(s + 1)
  /\ d = s + 1 => mode = "done" \/ (mode = "words" /\ buf[s] = NUL)

\* The invariant holds for the buffers eval is called with.
LEMMA InitEstablishes == Init => ArgsInv
  BY NAssumption, BufferAssumption DEF Init, ArgsInv, Text, Modes, Chars, NUL

\* Reading a character that is no NUL leaves a character to read.
LEMMA MoreToRead == ArgsInv /\ buf[s] # NUL => s < N /\ s + 1 \in 0..N
  BY NAssumption DEF ArgsInv

\* A character written at or behind the reader, who then steps on, leaves
\* what is unread as it was.
LEMMA WritesBehind ==
  ASSUME ArgsInv, NEW c \in Chars \cup {NUL}, d <= s, buf[s] # NUL,
         Put(c), s' = s + 1, mode' \in Modes, Static
  PROVE  ArgsInv'
<1>1. s < N
  BY Zenon, MoreToRead
<1>2. buf' \in Text
  BY Zenon, NAssumption, <1>1 DEF ArgsInv, Put, Text
<1>3. \A i \in (s + 1)..N : buf'[i] = buf[i]
  BY NAssumption, <1>1 DEF ArgsInv, Put, Text
<1>4. d' \in 0..(s + 1)
  BY NAssumption, <1>1 DEF ArgsInv, Put
<1>5. p = 0 => buf' = buf /\ d' = d
  BY NAssumption DEF ArgsInv, Put
<1> QED
  BY NAssumption, <1>1, <1>2, <1>3, <1>4, <1>5 DEF ArgsInv, Static

\* A step that writes nothing and reads one character or none.
LEMMA OnlyReads ==
  ASSUME ArgsInv, Keep, Static, mode' \in Modes,
         s' = s \/ (s' = s + 1 /\ buf[s] # NUL),
         d = s + 1 => s' = s /\ mode' = "done"
  PROVE  ArgsInv'
<1>1. s' \in 0..N
  BY Zenon, MoreToRead DEF ArgsInv
<1>2. \A i \in s'..N : i \in s..N
  BY NAssumption DEF ArgsInv
<1>3. line \in 0..s' /\ d \in 0..(s' + 1)
  BY NAssumption DEF ArgsInv
<1>4. d = s' + 1 => mode' = "done"
  BY NAssumption DEF ArgsInv
<1> QED
  BY Zenon, <1>1, <1>2, <1>3, <1>4 DEF ArgsInv, Keep, Static, Text

\* Every step keeps the invariant.
LEMMA NextKeeps == ArgsInv /\ [Next]_vars => ArgsInv'
<1> SUFFICES ASSUME ArgsInv, [Next]_vars PROVE ArgsInv'
  BY Zenon
<1>1. CASE Blank
  BY Zenon, <1>1, OnlyReads DEF Blank, To, ArgsInv, Modes, NUL
<1>2. CASE LineEnd
  BY Zenon, <1>2, OnlyReads DEF LineEnd, To, ArgsInv, Modes, NUL
<1>3. CASE StartWord
  BY Zenon, <1>3, OnlyReads DEF StartWord, To, ArgsInv, Modes, NUL
<1>4. CASE Quote
  BY Zenon, <1>4, OnlyReads DEF Quote, To, ArgsInv, Modes, NUL
<1>5. CASE Quoted
  <2>1. d <= s /\ buf[s] \in Chars \cup {NUL} /\ buf[s] # NUL
    BY <1>5, NAssumption DEF Quoted, ArgsInv, Text
  <2> QED BY Zenon, <1>5, <2>1, WritesBehind DEF Quoted, To, ArgsInv, Modes
<1>6. CASE EndQuote
  BY Zenon, <1>6, OnlyReads DEF EndQuote, To, ArgsInv, Modes, NUL
<1>7. CASE Escaped
  <2>1. d <= s /\ Unescaped(buf[s]) \in Chars \cup {NUL} /\ buf[s] # NUL
    BY <1>7, NAssumption DEF Escaped, ArgsInv, Text, Unescaped, Chars
  <2> QED BY Zenon, <1>7, <2>1, WritesBehind DEF Escaped, To, ArgsInv, Modes
<1>8. CASE NothingEscaped
  BY Zenon, <1>8, OnlyReads DEF NothingEscaped, To, ArgsInv, Modes, NUL
<1>9. CASE Plain
  <2>1. d <= s /\ buf[s] \in Chars \cup {NUL} /\ buf[s] # NUL
    BY <1>9, NAssumption DEF Plain, ArgsInv, Text, NUL
  <2> QED BY Zenon, <1>9, <2>1, WritesBehind DEF Plain, To, ArgsInv, Modes
<1>10. CASE EndWord
  <2>1. d <= s
    BY <1>10, NAssumption DEF EndWord, ArgsInv
  <2>2. CASE buf[s] # NUL
    BY Zenon, <1>10, <2>1, <2>2, WritesBehind DEF EndWord, To, ArgsInv, Modes
  <2>3. CASE buf[s] = NUL
    \* The NUL is written where a NUL is, or behind the reader.
    <3>1. s' = s /\ mode' = "words" /\ buf[s] # "n"
      BY Zenon, <1>10, <2>3 DEF EndWord, To, NUL
    <3>2. buf' \in Text /\ \A i \in s..N : buf'[i] = buf[i]
      BY <1>10, <2>1, <2>3, NAssumption DEF EndWord, Put, ArgsInv, Text
    <3>3. d' \in 0..(s + 1) /\ (p = 0 => buf' = buf /\ d' = d)
      BY <1>10, <2>1, NAssumption DEF EndWord, Put, ArgsInv
    <3> QED BY <1>10, <2>3, <3>1, <3>2, <3>3, NAssumption
         DEF EndWord, Static, ArgsInv, Modes
  <2> QED BY Zenon, <2>2, <2>3
<1>11. CASE SecondPass
  BY <1>11, NAssumption DEF SecondPass, ArgsInv, Modes
<1>12. CASE NextLine
  BY <1>12, NAssumption DEF NextLine, ArgsInv, Modes
<1>13. CASE UNCHANGED vars
  BY Zenon, <1>13 DEF vars, ArgsInv
<1> QED
  BY Zenon, <1>1, <1>2, <1>3, <1>4, <1>5, <1>6, <1>7, <1>8, <1>9, <1>10, <1>11,
     <1>12, <1>13 DEF Next

\* What argcargv has still to read is as it was given, and it writes nowhere
\* but into what it has read, whatever the buffer.
THEOREM AlwaysReadsAsGiven == Spec => []ReadsAsGiven
<1>1. ArgsInv => ReadsAsGiven
  BY NAssumption DEF ArgsInv, ReadsAsGiven, Modes
<1> QED
  BY InitEstablishes, NextKeeps, <1>1, PTL DEF Spec

-----------------------------------------------------------------------------
(* Words in a buffer.                                                      *)

WordList == Seq(Seq(Chars))

\* The words w are stored in b at the pointers of a, one behind the other and
\* each with its NUL, below n; the last one is still open, or none is.
Stored(w, a, n, b, open) ==
  /\ a \in Seq(0..N) /\ Len(a) = Len(w)
  /\ \A j \in 1..Len(w) :
       /\ a[j] + Len(w[j]) <= n
       /\ \A i \in 1..Len(w[j]) : b[a[j] + i - 1] = w[j][i]
       /\ j < Len(w) \/ ~open => /\ a[j] + Len(w[j]) < n
                                 /\ b[a[j] + Len(w[j])] = NUL
  /\ open => Len(w) >= 1 /\ a[Len(w)] + Len(w[Len(w)]) = n

\* The last word grows.
LEMMA AddProperties ==
  ASSUME NEW w \in WordList, Len(w) >= 1, NEW c \in Chars
  PROVE  /\ Add(w, c) \in WordList /\ Len(Add(w, c)) = Len(w)
         /\ \A j \in 1..Len(w) : j # Len(w) => Add(w, c)[j] = w[j]
         /\ Add(w, c)[Len(w)] = Append(w[Len(w)], c)
<1>1. Len(w) \in 1..Len(w) /\ w[Len(w)] \in Seq(Chars)
  BY ElementOfSeq DEF WordList
<1>2. Append(w[Len(w)], c) \in Seq(Chars)
  BY Zenon, <1>1, AppendProperties
<1> QED
  BY <1>1, <1>2, ExceptSeq DEF Add, WordList

\* A word is opened.
LEMMA StoreOpen ==
  ASSUME NEW w \in WordList, NEW a, NEW n \in 0..N, NEW b, Stored(w, a, n, b, FALSE)
  PROVE  /\ Append(w, << >>) \in WordList
         /\ Stored(Append(w, << >>), Append(a, n), n, b, TRUE)
<1> DEFINE v == Append(w, << >>)
           z == Append(a, n)
<1>1. /\ v \in WordList /\ Len(v) = Len(w) + 1 /\ Len(w) \in Nat
      /\ \A j \in 1..Len(w) : v[j] = w[j]
      /\ v[Len(w) + 1] = << >>
  BY EmptySeq, AppendProperties DEF WordList
<1>2. /\ z \in Seq(0..N) /\ Len(z) = Len(w) + 1
      /\ \A j \in 1..Len(w) : z[j] = a[j]
      /\ z[Len(w) + 1] = n
  BY <1>1, AppendProperties DEF Stored
<1>3. Len(<< >>) = 0 /\ n + 0 = n /\ n \in Nat
  BY NAssumption
<1> HIDE DEF v, z
<1>4. ASSUME NEW j \in 1..Len(v)
      PROVE  /\ z[j] + Len(v[j]) <= n
             /\ \A i \in 1..Len(v[j]) : b[z[j] + i - 1] = v[j][i]
             /\ j < Len(v) => /\ z[j] + Len(v[j]) < n
                              /\ b[z[j] + Len(v[j])] = NUL
  <2>1. CASE j = Len(w) + 1
    BY <1>1, <1>2, <1>3, <2>1
  <2>2. CASE j \in 1..Len(w)
    BY <1>1, <1>2, <2>2 DEF Stored
  <2> QED BY <1>1, <2>1, <2>2
<1> QED
  BY <1>1, <1>2, <1>3, <1>4 DEF Stored, v, z

\* A character is written to the open word.
LEMMA StoreChar ==
  ASSUME NEW w \in WordList, NEW a, NEW n \in 0..N, NEW b \in Text,
         Stored(w, a, n, b, TRUE), NEW c \in Chars
  PROVE  Add(w, c) \in WordList /\ Stored(Add(w, c), a, n + 1, [b EXCEPT ![n] = c], TRUE)
<1> DEFINE v == Add(w, c)
           t == [b EXCEPT ![n] = c]
<1>1. /\ Len(w) \in Nat /\ Len(w) >= 1 /\ Len(w) \in 1..Len(w)
      /\ a \in Seq(0..N) /\ Len(a) = Len(w) /\ n \in Nat
      /\ \A j \in 1..Len(w) : a[j] \in 0..N /\ w[j] \in Seq(Chars) /\ Len(w[j]) \in Nat
      /\ a[Len(w)] + Len(w[Len(w)]) = n
  BY SMTT(30), NAssumption, ElementOfSeq, LenProperties DEF Stored, WordList
<1>2. /\ v \in WordList /\ Len(v) = Len(w)
      /\ \A j \in 1..Len(w) : j # Len(w) => v[j] = w[j]
      /\ v[Len(w)] = Append(w[Len(w)], c)
  BY Zenon, <1>1, AddProperties
<1>3. /\ Len(v[Len(w)]) = Len(w[Len(w)]) + 1
      /\ \A i \in 1..Len(w[Len(w)]) : v[Len(w)][i] = w[Len(w)][i]
      /\ v[Len(w)][Len(w[Len(w)]) + 1] = c
  BY <1>1, <1>2, AppendProperties
<1>4. t[n] = c /\ \A k \in 0..N : k # n => t[k] = b[k]
  BY Zenon DEF Text
<1> HIDE DEF v, t
<1>5. ASSUME NEW j \in 1..Len(w), j # Len(w)
      PROVE  /\ a[j] + Len(v[j]) < n + 1
             /\ \A i \in 1..Len(v[j]) : t[a[j] + i - 1] = v[j][i]
             /\ t[a[j] + Len(v[j])] = NUL
  <2>1. /\ v[j] = w[j] /\ a[j] + Len(w[j]) < n /\ b[a[j] + Len(w[j])] = NUL
        /\ \A i \in 1..Len(w[j]) : b[a[j] + i - 1] = w[j][i]
    BY <1>1, <1>2, <1>5 DEF Stored
  <2>2. /\ a[j] \in Nat /\ Len(w[j]) \in Nat /\ n \in Nat /\ n <= N
        /\ a[j] + Len(w[j]) < n
    BY <1>1, <2>1
  <2>3. a[j] + Len(w[j]) \in 0..N /\ a[j] + Len(w[j]) # n /\ a[j] + Len(w[j]) < n + 1
    BY NAssumption, <2>2
  <2>4. \A i \in 1..Len(w[j]) : a[j] + i - 1 \in 0..N /\ a[j] + i - 1 # n
    BY NAssumption, <2>2
  <2>5. \A i \in 1..Len(w[j]) : t[a[j] + i - 1] = w[j][i]
    BY Zenon, <1>4, <2>1, <2>4
  <2>6. t[a[j] + Len(w[j])] = NUL
    BY Zenon, <1>4, <2>1, <2>3
  <2> QED BY Zenon, <2>1, <2>3, <2>5, <2>6
<1>6. \A i \in 1..Len(v[Len(w)]) : t[a[Len(w)] + i - 1] = v[Len(w)][i]
  <2> SUFFICES ASSUME NEW i \in 1..Len(v[Len(w)])
               PROVE  t[a[Len(w)] + i - 1] = v[Len(w)][i]
    BY Zenon
  <2>0. a[Len(w)] \in Nat /\ Len(w[Len(w)]) \in Nat
    BY <1>1
  <2>1. CASE i = Len(w[Len(w)]) + 1
    <3>1. a[Len(w)] + i - 1 = n
      BY <1>1, <2>0, <2>1
    <3> QED BY Zenon, <1>3, <1>4, <2>1, <3>1
  <2>2. CASE i \in 1..Len(w[Len(w)])
    <3>1. a[Len(w)] + i - 1 \in 0..N /\ a[Len(w)] + i - 1 # n
      BY SMTT(30), NAssumption, <1>1, <2>0, <2>2
    <3>2. b[a[Len(w)] + i - 1] = w[Len(w)][i]
      BY Zenon, <1>1, <2>2 DEF Stored
    <3> QED BY Zenon, <1>3, <1>4, <2>2, <3>1, <3>2
  <2> QED BY <1>3, <2>0, <2>1, <2>2
<1>7. a[Len(w)] + Len(v[Len(w)]) = n + 1
  <2>1. a[Len(w)] \in Nat /\ Len(w[Len(w)]) \in Nat /\ a[Len(w)] + Len(w[Len(w)]) = n
    BY <1>1
  <2> QED BY SMTT(30), <1>3, <2>1
<1>8. ASSUME NEW j \in 1..Len(v)
      PROVE  /\ a[j] + Len(v[j]) <= n + 1
             /\ \A i \in 1..Len(v[j]) : t[a[j] + i - 1] = v[j][i]
             /\ j < Len(v) => /\ a[j] + Len(v[j]) < n + 1
                              /\ t[a[j] + Len(v[j])] = NUL
  <2>1. CASE j # Len(w)
    <3>1. a[j] + Len(v[j]) < n + 1 /\ a[j] + Len(v[j]) \in Int
      BY <1>1, <1>2, <1>5, <2>1
    <3> QED BY <1>1, <1>2, <1>5, <2>1, <3>1
  <2>2. CASE j = Len(w)
    <3>1. n + 1 <= n + 1 /\ ~(j < Len(v))
      BY <1>1, <1>2, <2>2
    <3> QED BY Zenon, <1>6, <1>7, <2>2, <3>1
  <2> QED BY Zenon, <2>1, <2>2
<1> QED
  BY Zenon, <1>1, <1>2, <1>7, <1>8 DEF Stored, v, t

\* The NUL behind the open word is written.
LEMMA StoreEnd ==
  ASSUME NEW w \in WordList, NEW a, NEW n \in 0..N, NEW b \in Text,
         Stored(w, a, n, b, TRUE)
  PROVE  Stored(w, a, n + 1, [b EXCEPT ![n] = NUL], FALSE)
<1> DEFINE t == [b EXCEPT ![n] = NUL]
<1>1. t[n] = NUL /\ \A k \in 0..N : k # n => t[k] = b[k]
  BY Zenon DEF Text
<1> HIDE DEF t
<1>2. ASSUME NEW j \in 1..Len(w)
      PROVE  /\ a[j] + Len(w[j]) <= n + 1
             /\ \A i \in 1..Len(w[j]) : t[a[j] + i - 1] = w[j][i]
             /\ a[j] + Len(w[j]) < n + 1
             /\ t[a[j] + Len(w[j])] = NUL
  <2>1. a[j] \in Nat /\ Len(w[j]) \in Nat /\ n \in Nat /\ n <= N
    BY NAssumption, ElementOfSeq, LenProperties DEF Stored, WordList
  <2>2. /\ a[j] + Len(w[j]) <= n
        /\ \A i \in 1..Len(w[j]) : b[a[j] + i - 1] = w[j][i]
        /\ a[j] + Len(w[j]) = n \/ b[a[j] + Len(w[j])] = NUL
    <3>1. j < Len(w) \/ j = Len(w)
      BY LenProperties DEF WordList
    <3> QED BY Zenon, <3>1 DEF Stored
  <2>3. a[j] + Len(w[j]) \in 0..N /\ a[j] + Len(w[j]) < n + 1
        /\ a[j] + Len(w[j]) <= n + 1
    BY NAssumption, <2>1, <2>2
  <2>4. \A i \in 1..Len(w[j]) : a[j] + i - 1 \in 0..N /\ a[j] + i - 1 # n
    <3> HIDE <2>2
    <3>1. a[j] + Len(w[j]) <= n
      BY Zenon, <2>2
    <3> QED BY NAssumption, <2>1, <3>1
  <2> QED BY Zenon, <1>1, <2>2, <2>3, <2>4
<1> QED
  BY Zenon, <1>2 DEF Stored, t

\* What the pointers point to then are the words.
LEMMA StoredStrings ==
  ASSUME NEW w \in WordList, NEW n \in 0..N + 1, Stored(w, argv, n, buf, FALSE),
         argc = Len(w)
  PROVE  [i \in 1..argc |-> StringAt(argv[i])] = w
<1>1. ASSUME NEW j \in 1..Len(w)
      PROVE  StringAt(argv[j]) = w[j]
  <2> DEFINE a == argv[j]
             v == w[j]
  <2>1. /\ a \in Nat /\ v \in Seq(Chars) /\ Len(v) \in Nat
        /\ \A i \in 1..Len(v) : v[i] \in Chars
    <3>1. argv \in Seq(0..N) /\ Len(argv) = Len(w) /\ w \in Seq(Seq(Chars))
      BY Zenon DEF Stored, WordList
    <3>2. a \in 0..N /\ v \in Seq(Chars)
      BY Zenon, <3>1, ElementOfSeq
    <3> HIDE DEF a, v
    <3> QED BY <3>2, ElementOfSeq, LenProperties
  <2>2. /\ a + Len(v) < n /\ buf[a + Len(v)] = NUL /\ n <= N + 1 /\ n \in Int
        /\ \A i \in 1..Len(v) : buf[a + i - 1] = v[i]
    BY SMTT(30), NAssumption DEF Stored
  <2> HIDE DEF a, v
  <2>3. a + Len(v) \in a..N
    BY NAssumption, <2>1, <2>2
  <2>4. \A x \in a..((a + Len(v)) - 1) : buf[x] # NUL
    <3> SUFFICES ASSUME NEW x \in a..((a + Len(v)) - 1) PROVE buf[x] # NUL
      BY Zenon
    <3>1. x - a + 1 \in 1..Len(v) /\ a + (x - a + 1) - 1 = x
      BY <2>1
    <3>2. buf[x] \in Chars
      BY Zenon, <2>1, <2>2, <3>1
    <3> QED BY Zenon, <3>2 DEF Chars, NUL
  <2>5. \A x \in a..N : FirstNUL(a, x) => x = a + Len(v)
    <3> SUFFICES ASSUME NEW x \in a..N, FirstNUL(a, x)
                 PROVE  x = a + Len(v)
      BY Zenon
    <3>1. ~(x < a + Len(v))
      BY NAssumption, <2>1, <2>4 DEF FirstNUL
    <3>2. ~(a + Len(v) < x)
      BY NAssumption, <2>1, <2>2 DEF FirstNUL
    <3> QED BY NAssumption, <2>1, <3>1, <3>2
  <2>6. FirstNUL(a, a + Len(v))
    <3>1. buf[a + Len(v)] = NUL
      BY Zenon, <2>2
    <3> QED BY Zenon, <2>4, <3>1 DEF FirstNUL
  <2>7. strlen(a) = Len(v)
    <3>1. NULAfter(a) = a + Len(v)
      BY Zenon, <2>3, <2>5, <2>6 DEF NULAfter
    <3> QED BY <2>1, <3>1 DEF strlen
  <2>8. StringAt(a) = [i \in 1..Len(v) |-> buf[a + i - 1]]
    BY Zenon, <2>7 DEF StringAt
  <2>9. v = [i \in 1..Len(v) |-> v[i]]
    BY <2>1
  <2>10. [i \in 1..Len(v) |-> buf[a + i - 1]] = [i \in 1..Len(v) |-> v[i]]
    BY Zenon, <2>2
  <2> QED BY Zenon, <2>8, <2>9, <2>10 DEF a, v
<1>2. w = [i \in 1..Len(w) |-> w[i]]
  BY DEF WordList
<1> QED
  BY Zenon, <1>1, <1>2

-----------------------------------------------------------------------------
(* One pass over a line.  What Reading computes cannot be found by         *)
(* induction over the line, so the passes carry it along: h is the run of  *)
(* the reference up to the character that is read next.                    *)

Start == [mode |-> "words", words |-> << >>]

GoodLex(st) ==
  /\ st \in [mode : Modes, words : WordList]
  /\ st.mode \in {"word", "q", "a", "s"} => Len(st.words) >= 1

\* A character keeps the reference in order, and takes no word away.
LEMMA ConsumeGood ==
  ASSUME NEW st, GoodLex(st), NEW c \in Chars
  PROVE  /\ GoodLex(Consume(st, c))
         /\ Len(st.words) <= Len(Consume(st, c).words)
<1> DEFINE w == Append(st.words, << >>)
<1>1. /\ st.mode \in Modes /\ st.words \in WordList /\ Len(st.words) \in Nat
      /\ st.mode \in {"word", "q", "a", "s"} => Len(st.words) >= 1
  BY Zenon, LenProperties DEF GoodLex, WordList
<1>2. w \in WordList /\ Len(w) = Len(st.words) + 1 /\ Len(w) >= 1
  BY <1>1, EmptySeq, AppendProperties DEF WordList
<1>3. Unescaped(c) \in Chars
  BY Zenon DEF Unescaped, Chars
<1>4. /\ Add(w, c) \in WordList /\ Len(Add(w, c)) = Len(w)
  BY Zenon, <1>2, AddProperties
<1>5. ASSUME st.mode \in {"word", "q", "a", "s"}
      PROVE  /\ Add(st.words, c) \in WordList /\ Len(Add(st.words, c)) = Len(st.words)
             /\ Add(st.words, Unescaped(c)) \in WordList
             /\ Len(Add(st.words, Unescaped(c))) = Len(st.words)
  BY Zenon, <1>1, <1>3, <1>5, AddProperties
<1> HIDE DEF w
<1>6. CASE st.mode = "done"
  BY <1>1, <1>6 DEF Consume
<1>7. CASE st.mode \in {"q", "a"}
  BY <1>1, <1>5, <1>7 DEF Consume, GoodLex, Modes
<1>8. CASE st.mode = "s"
  BY <1>1, <1>5, <1>8 DEF Consume, GoodLex, Modes
<1>9. CASE st.mode = "word"
  BY <1>1, <1>5, <1>9 DEF Consume, GoodLex, Modes
<1>10. CASE st.mode = "words"
  <2>1. Consume(st, c) = IF c = "b" THEN [mode |-> "words", words |-> st.words]
                         ELSE IF c = "n" THEN [mode |-> "done", words |-> st.words]
                         ELSE IF c \in {"q", "a", "s"} THEN [mode |-> c, words |-> w]
                         ELSE [mode |-> "word", words |-> Add(w, c)]
    BY Zenon, <1>10 DEF Consume, w
  <2> QED BY <1>1, <1>2, <1>4, <2>1 DEF GoodLex, Modes
<1> QED
  BY Zenon, <1>1, <1>6, <1>7, <1>8, <1>9, <1>10 DEF Modes

\* h is a run of the reference over the current line up to k, the only one,
\* and the line does not end before k.
RunTo(h, k) ==
  /\ \A i \in line..k : GoodLex(h[i])
  /\ h[line] = Start
  /\ \A i \in (line + 1)..k : h[i] = Consume(h[i - 1], orig[i - 1])
  /\ \A i \in line..(k - 1) : h[i].mode # "done"
  /\ \A i \in line..k : Len(h[i].words) <= Len(h[k].words)

\* The equation that defines Reading(line).
IsReading(g) ==
  g = [i \in line..N |-> IF i = line THEN Start ELSE Consume(g[i - 1], orig[i - 1])]
OnlyRun(h, k) == \A g : IsReading(g) => \A i \in line..k : g[i] = h[i]

\* The reference reads one character more.
LEMMA RunOn ==
  ASSUME orig \in Text, NEW k \in line..N, line \in 0..N, k < N,
         orig[k] \in Chars, NEW h \in [line..N -> [mode : Modes, words : WordList]],
         RunTo(h, k), OnlyRun(h, k), h[k].mode # "done"
  PROVE  \E g \in [line..N -> [mode : Modes, words : WordList]] :
           /\ RunTo(g, k + 1) /\ OnlyRun(g, k + 1)
           /\ g[k] = h[k] /\ g[k + 1] = Consume(h[k], orig[k])
<1> DEFINE c == Consume(h[k], orig[k])
           g == [h EXCEPT ![k + 1] = c]
<1>1. /\ k \in Nat /\ line \in Nat /\ line <= k /\ k + 1 <= N /\ k \in line..k
  BY NAssumption
<1>2. /\ GoodLex(c) /\ Len(h[k].words) <= Len(c.words)
      /\ c \in [mode : Modes, words : WordList]
  BY Zenon, <1>1, ConsumeGood DEF RunTo, GoodLex
<1> HIDE DEF c
<1>3. g \in [line..N -> [mode : Modes, words : WordList]]
  BY Zenon, <1>1, <1>2
<1>4. /\ g[k + 1] = c /\ \A i \in line..k : g[i] = h[i]
  BY NAssumption, <1>1
<1> HIDE DEF g
<1>5. RunTo(g, k + 1)
  <2>1. \A i \in line..(k + 1) : i \in line..k \/ i = k + 1
    BY <1>1
  <2>2. \A i \in line..(k + 1) : GoodLex(g[i])
    BY Zenon, <1>2, <1>4, <2>1 DEF RunTo
  <2>3. g[line] = Start
    BY <1>1, <1>4 DEF RunTo
  <2>4. ASSUME NEW i \in (line + 1)..(k + 1)
        PROVE  g[i] = Consume(g[i - 1], orig[i - 1])
    <3>1. CASE i = k + 1
      BY <1>1, <1>4, <3>1 DEF c
    <3>2. CASE i \in (line + 1)..k
      BY <1>1, <1>4, <3>2 DEF RunTo
    <3> QED BY <1>1, <3>1, <3>2
  <2>5. \A i \in line..((k + 1) - 1) : g[i].mode # "done"
    <3> SUFFICES ASSUME NEW i \in line..((k + 1) - 1) PROVE g[i].mode # "done"
      BY Zenon
    <3>1. i \in line..k /\ (i = k \/ i \in line..(k - 1))
      BY <1>1
    <3> QED BY Zenon, <1>4, <3>1 DEF RunTo
  <2>6. ASSUME NEW i \in line..(k + 1)
        PROVE  Len(g[i].words) <= Len(g[k + 1].words)
    <3>1. CASE i = k + 1
      BY <1>2, <1>4, <3>1, LenProperties DEF WordList
    <3>2. CASE i \in line..k
      <4>1. /\ g[i] = h[i] /\ h[i].words \in WordList /\ h[k].words \in WordList
            /\ Len(h[i].words) <= Len(h[k].words) /\ c.words \in WordList
        BY Zenon, <1>1, <1>2, <1>4, <3>2 DEF RunTo, GoodLex
      <4>2. /\ Len(h[i].words) \in Nat /\ Len(h[k].words) \in Nat /\ Len(c.words) \in Nat
        BY Zenon, <4>1, LenProperties DEF WordList
      <4> QED BY <1>2, <1>4, <4>1, <4>2
    <3> QED BY Zenon, <2>1, <3>1, <3>2
  <2> QED BY Zenon, <2>2, <2>3, <2>4, <2>5, <2>6 DEF RunTo
<1>6. OnlyRun(g, k + 1)
  <2> SUFFICES ASSUME NEW f, IsReading(f), NEW i \in line..(k + 1)
               PROVE  f[i] = g[i]
    BY Zenon DEF OnlyRun
  <2>1. \A j \in line..k : f[j] = h[j]
    BY Zenon DEF OnlyRun
  <2>2. CASE i \in line..k
    BY Zenon, <1>4, <2>1, <2>2
  <2>3. CASE i = k + 1
    <3>1. k + 1 \in line..N /\ k + 1 # line /\ (k + 1) - 1 = k
      BY <1>1, NAssumption
    <3>2. f[k + 1] = Consume(f[k], orig[k])
      BY Zenon, <3>1 DEF IsReading
    <3> QED BY Zenon, <1>1, <1>4, <2>1, <2>3, <3>2 DEF c
  <2> QED BY <1>1, <2>2, <2>3
<1> QED
  BY Zenon, <1>1, <1>3, <1>4, <1>5, <1>6 DEF c

\* At the end of the line the run is what Reading(line) is up to there.
LEMMA RunEnds ==
  ASSUME line \in 0..N, NEW k \in line..N,
         NEW h \in [line..N -> [mode : Modes, words : WordList]],
         RunTo(h, k), OnlyRun(h, k), k = N \/ h[k].mode = "done"
  PROVE  RunTo(Reading(line), k) /\ Reading(line)[k] = h[k]
<1> DEFINE f == [i \in line..N |-> IF i <= k THEN h[i] ELSE h[k]]
<1>1. line \in Nat /\ k \in Nat /\ line <= k /\ k <= N /\ N \in Nat
  BY NAssumption
<1>2. IsReading(f)
  <2> DEFINE F(i) == IF i = line THEN Start ELSE Consume(f[i - 1], orig[i - 1])
  <2>1. ASSUME NEW i \in line..N
        PROVE  f[i] = F(i)
    <3>1. CASE i = line
      BY Zenon, <1>1, <3>1 DEF RunTo
    <3>2. CASE i \in (line + 1)..k
      <4>1. i - 1 \in line..N /\ i - 1 <= k /\ i <= k /\ i # line /\ i \in line..N
        BY SMTT(30), <1>1, <3>2
      <4>2. f[i - 1] = h[i - 1] /\ f[i] = h[i]
        BY Zenon, <4>1
      <4>3. h[i] = Consume(h[i - 1], orig[i - 1])
        BY Zenon, <3>2 DEF RunTo
      <4> HIDE DEF f
      <4> QED BY Zenon, <4>1, <4>2, <4>3
    <3>3. CASE i > k
      <4>1. h[k].mode = "done" /\ i - 1 \in line..N /\ i # line
        BY SMTT(30), <1>1, <3>3
      <4>2. f[i] = h[k] /\ f[i - 1] = h[k]
        BY SMTT(30), <1>1, <3>3, <4>1
      <4>3. Consume(h[k], orig[i - 1]) = h[k]
        BY Zenon, <4>1 DEF Consume
      <4> HIDE DEF f
      <4> QED BY Zenon, <4>1, <4>2, <4>3
    <3> QED BY <1>1, <3>1, <3>2, <3>3
  <2>2. f = [i \in line..N |-> f[i]]
    BY Zenon
  <2> HIDE DEF f
  <2> QED BY Zenon, <2>1, <2>2 DEF IsReading
<1>3. IsReading(Reading(line))
  <2>1. \E g : IsReading(g)
    BY Zenon, <1>2
  <2> QED BY Zenon, <2>1 DEF IsReading, Reading, Start
<1>4. \A i \in line..k : Reading(line)[i] = h[i]
  BY Zenon, <1>3 DEF OnlyRun
<1>5. /\ k \in line..k /\ line \in line..k
      /\ \A i \in line..(k - 1) : i \in line..k
      /\ \A i \in (line + 1)..k : i \in line..k /\ i - 1 \in line..k
  BY <1>1
<1> QED
  BY Zenon, <1>4, <1>5 DEF RunTo

\* There the line ends.
LEMMA RunFindsEnd ==
  ASSUME line \in 0..N, NEW k \in line..N, RunTo(Reading(line), k),
         k = N \/ Reading(line)[k].mode = "done"
  PROVE  EndOf(line) = k
<1>1. Ends(line, k)
  BY Zenon DEF Ends, RunTo
<1>2. ASSUME NEW i \in line..N, Ends(line, i) PROVE i = k
  <2>1. ~(i < k)
    <3> SUFFICES ASSUME i < k PROVE FALSE
      BY Zenon
    <3>1. i \in line..(k - 1) /\ i # N
      BY NAssumption
    <3> QED BY Zenon, <1>2, <3>1 DEF Ends, RunTo
  <2>2. ~(k < i)
    <3> SUFFICES ASSUME k < i PROVE FALSE
      BY Zenon
    <3>1. k \in line..(i - 1) /\ k # N
      BY NAssumption
    <3> QED BY Zenon, <1>2, <3>1 DEF Ends
  <2> QED BY NAssumption, <2>1, <2>2
<1> QED
  BY Zenon, <1>1, <1>2 DEF EndOf

-----------------------------------------------------------------------------
(* argcargv beside the reference.                                          *)

\* The loop argcargv is in, given the mode of the reference and the character
\* that is read next.  argcargv opens a word before it reads its first
\* character, and closes quotes and words at the end of the buffer.
Phase(m, r, c) ==
  /\ m = "words" => r = "words" \/ (c = NUL /\ r # "done")
  /\ m = "word" => \/ r = "word"
                   \/ r = "words" /\ c \notin {"b", "n", NUL}
                   \/ c = NUL /\ r \in {"q", "a", "s"}
  /\ m \in {"q", "a", "s"} => r = m
  /\ m = "done" => r = "done" \/ c = NUL
  /\ m # "done" => r # "done"

\* The words argcargv has begun, the last of them perhaps just now.
SoFar(m, st) == IF m = "word" /\ st.mode = "words" THEN Append(st.words, << >>)
                ELSE st.words

Open(m) == m \notin {"words", "done"}

\* A character is read.
LEMMA PhaseReads ==
  ASSUME NEW st, GoodLex(st), NEW m, NEW c \in Chars, Phase(m, st.mode, c), NEW x,
         NEW u, u = Consume(st, c)
  PROVE  /\ m = "words" /\ c = "b" =>
              Phase("words", u.mode, x) /\ SoFar("words", u) = SoFar(m, st)
         /\ m = "words" /\ c = "n" =>
              Phase("done", u.mode, x) /\ SoFar("done", u) = SoFar(m, st)
         /\ m = "word" /\ c \in {"q", "a", "s"} =>
              Phase(c, u.mode, x) /\ SoFar(c, u) = SoFar(m, st)
         /\ m \in {"q", "a"} /\ c # m =>
              Phase(m, u.mode, x) /\ SoFar(m, u) = Add(SoFar(m, st), c)
         /\ m \in {"q", "a"} /\ c = m =>
              Phase("word", u.mode, x) /\ SoFar("word", u) = SoFar(m, st)
         /\ m = "s" =>
              Phase("word", u.mode, x) /\ SoFar("word", u) = Add(SoFar(m, st), Unescaped(c))
         /\ m = "word" /\ c \in {"t", "l", "x"} =>
              Phase("word", u.mode, x) /\ SoFar("word", u) = Add(SoFar(m, st), c)
         /\ m = "word" /\ c = "b" =>
              Phase("words", u.mode, x) /\ SoFar("words", u) = SoFar(m, st)
         /\ m = "word" /\ c = "n" =>
              Phase("done", u.mode, x) /\ SoFar("done", u) = SoFar(m, st)
<1>0. c # NUL
  BY Zenon DEF Chars, NUL
<1>1. CASE m = "words"
  <2>1. st.mode = "words"
    BY Zenon, <1>0, <1>1 DEF Phase
  <2>2. c \in {"b", "n"} => u = [mode |-> IF c = "b" THEN "words" ELSE "done",
                                 words |-> st.words]
    BY Zenon, <2>1 DEF Consume
  <2> QED BY <1>1, <2>1, <2>2 DEF Phase, SoFar
<1>2. CASE m = "word"
  <2>1. st.mode = "word" \/ (st.mode = "words" /\ c \notin {"b", "n"})
    BY Zenon, <1>0, <1>2 DEF Phase
  <2>2. SoFar(m, st) = IF st.mode = "words" THEN Append(st.words, << >>) ELSE st.words
    BY Zenon, <1>2 DEF SoFar
  <2>3. c \in {"q", "a", "s"} => u = [mode |-> c, words |-> SoFar(m, st)]
    BY Zenon, <2>1, <2>2 DEF Consume
  <2>4. c \in {"t", "l", "x"} => u = [mode |-> "word", words |-> Add(SoFar(m, st), c)]
    BY Zenon, <2>1, <2>2 DEF Consume
  <2>5. c = "b" => u = [mode |-> "words", words |-> SoFar(m, st)]
    BY Zenon, <2>1, <2>2 DEF Consume
  <2>6. c = "n" => u = [mode |-> "done", words |-> SoFar(m, st)]
    BY Zenon, <2>1, <2>2 DEF Consume
  <2>7. \A q, w : u = [mode |-> q, words |-> w] => u.mode = q /\ u.words = w
    OBVIOUS
  <2>8. c \in {"q", "a", "s"} => u.mode = c /\ u.words = SoFar(m, st)
    BY Zenon, <2>3, <2>7
  <2>9. c \in {"t", "l", "x"} => u.mode = "word" /\ u.words = Add(SoFar(m, st), c)
    BY Zenon, <2>4, <2>7
  <2>10. c = "b" => u.mode = "words" /\ u.words = SoFar(m, st)
    BY Zenon, <2>5, <2>7
  <2>11. c = "n" => u.mode = "done" /\ u.words = SoFar(m, st)
    BY Zenon, <2>6, <2>7
  <2>12. \A y : u.mode # "words" => SoFar(y, u) = u.words
    BY Zenon DEF SoFar
  <2>13. SoFar("words", u) = u.words
    BY Zenon DEF SoFar
  <2> QED BY Zenon, <1>2, <2>8, <2>9, <2>10, <2>11, <2>12, <2>13 DEF Phase
<1>3. CASE m \in {"q", "a"}
  <2>1. st.mode = m /\ SoFar(m, st) = st.words
    BY Zenon, <1>3 DEF Phase, SoFar
  <2>2. u = IF c = m THEN [mode |-> "word", words |-> st.words]
            ELSE [mode |-> m, words |-> Add(st.words, c)]
    BY Zenon, <1>3, <2>1 DEF Consume
  <2> QED BY <1>3, <2>1, <2>2 DEF Phase, SoFar
<1>4. CASE m = "s"
  <2>1. st.mode = m /\ SoFar(m, st) = st.words
    BY Zenon, <1>4 DEF Phase, SoFar
  <2>2. u = [mode |-> "word", words |-> Add(st.words, Unescaped(c))]
    BY Zenon, <1>4, <2>1 DEF Consume
  <2> QED BY <1>4, <2>1, <2>2 DEF Phase, SoFar
<1>5. CASE m \notin {"words", "word", "q", "a", "s"}
  BY Zenon, <1>5
<1> QED
  BY Zenon, <1>1, <1>2, <1>3, <1>4, <1>5

\* The loop changes where it is.
LEMMA PhaseStays ==
  ASSUME NEW st, GoodLex(st), NEW m, NEW c, Phase(m, st.mode, c)
  PROVE  /\ m = "words" /\ c \notin {"b", "n", NUL} =>
              /\ Phase("word", st.mode, c)
              /\ SoFar("word", st) = Append(SoFar(m, st), << >>)
         /\ m \in {"q", "a", "s"} /\ c = NUL =>
              Phase("word", st.mode, c) /\ SoFar("word", st) = SoFar(m, st)
         /\ m = "word" /\ c = NUL =>
              Phase("words", st.mode, c) /\ SoFar("words", st) = SoFar(m, st)
         /\ m = "words" /\ c = NUL =>
              Phase("done", st.mode, c) /\ SoFar("done", st) = SoFar(m, st)
BY Zenon DEF Phase, SoFar, NUL

\* What a step of a pass does to the words.
Same(g) ==
  /\ SoFar(mode', g[s']) = SoFar(mode, g[s])
  /\ Keep /\ SameWords /\ (Open(mode') <=> Open(mode))
Opens(g) ==
  /\ SoFar(mode', g[s']) = Append(SoFar(mode, g[s]), << >>)
  /\ ~Open(mode) /\ Open(mode') /\ Keep /\ d <= s
  /\ argc' = argc + 1 /\ argv' = IF p = 1 THEN Append(argv, d) ELSE argv
Writes(g, c) ==
  /\ SoFar(mode', g[s']) = Add(SoFar(mode, g[s]), c)
  /\ Put(c) /\ SameWords /\ Open(mode) /\ Open(mode') /\ d <= s
Closes(g) ==
  /\ SoFar(mode', g[s']) = SoFar(mode, g[s])
  /\ Put(NUL) /\ SameWords /\ Open(mode) /\ ~Open(mode') /\ d <= s

PassStep == \/ Blank \/ LineEnd \/ StartWord \/ Quote \/ Quoted \/ EndQuote
            \/ Escaped \/ NothingEscaped \/ Plain \/ EndWord

\* A step reads one character or none.
LEMMA StepReads ==
  ASSUME ArgsInv, PassStep
  PROVE  /\ Static /\ mode # "done" /\ buf[s] = orig[s]
         /\ \/ s' = s
            \/ s' = s + 1 /\ s < N /\ orig[s] \in Chars
<1>1. Static /\ mode # "done" /\ (s' = s \/ (s' = s + 1 /\ buf[s] # NUL))
  BY Zenon DEF PassStep, Blank, LineEnd, StartWord, Quote, Quoted, EndQuote, Escaped,
     NothingEscaped, Plain, EndWord, To, NUL
<1>2. buf[s] = orig[s] /\ orig[s] \in Chars \cup {NUL}
  BY NAssumption DEF ArgsInv, Text
<1> QED
  BY Zenon, <1>1, <1>2, MoreToRead

\* It stays beside the reference.
LEMMA StepFollows ==
  ASSUME ArgsInv, PassStep, NEW g, GoodLex(g[s]), Phase(mode, g[s].mode, orig[s]),
         s' = s + 1 => g[s + 1] = Consume(g[s], orig[s])
  PROVE  /\ Phase(mode', g[s'].mode, orig[s'])
         /\ Same(g) \/ Opens(g) \/ Closes(g) \/ \E c \in Chars : Writes(g, c)
<1>1. /\ buf[s] = orig[s] /\ s \in Int /\ s + 1 # s /\ mode \in Modes
      /\ s' = s \/ (s' = s + 1 /\ orig[s] \in Chars)
      /\ Open(mode) => d <= s
      /\ mode = "words" /\ buf[s] # NUL => d <= s
  BY NAssumption, StepReads DEF ArgsInv, Modes, Open
<1> DEFINE c == orig[s]
           x == orig[s + 1]
           u == Consume(g[s], c)
<1>2. c \in Chars => /\ c # NUL /\ Unescaped(c) \in Chars
  BY Zenon DEF Chars, NUL, Unescaped
<1>3. CASE Blank
  <2>1. mode = "words" /\ c = "b" /\ mode' = "words" /\ s' = s + 1
    BY Zenon, <1>1, <1>3 DEF Blank, To
  <2>2. Phase("words", u.mode, x) /\ SoFar("words", u) = SoFar(mode, g[s])
    BY <1>1, <2>1, PhaseReads
  <2> QED BY Zenon, <1>3, <2>1, <2>2 DEF Blank, Same
<1>4. CASE LineEnd
  <2>1. mode = "words" /\ mode' = "done" /\ c \in {"n", NUL}
        /\ s' = (IF c = NUL THEN s ELSE s + 1)
    BY Zenon, <1>1, <1>4 DEF LineEnd, To
  <2>2. CASE c = NUL
    <3>1. Phase("done", g[s].mode, c) /\ SoFar("done", g[s]) = SoFar(mode, g[s])
      BY Zenon, <2>1, <2>2, PhaseStays
    <3> QED BY Zenon, <1>4, <2>1, <2>2, <3>1 DEF LineEnd, Same, Open
  <2>3. CASE c # NUL
    <3>1. Phase("done", u.mode, x) /\ SoFar("done", u) = SoFar(mode, g[s])
      BY <1>1, <2>1, <2>3, PhaseReads
    <3> QED BY Zenon, <1>4, <2>1, <2>3, <3>1 DEF LineEnd, Same, Open
  <2> QED BY Zenon, <2>2, <2>3
<1>5. CASE StartWord
  <2>1. /\ mode = "words" /\ mode' = "word" /\ c \notin {"b", "n", NUL} /\ s' = s
        /\ d <= s
    BY Zenon, <1>1, <1>5 DEF StartWord, To
  <2>2. /\ Phase("word", g[s].mode, c)
        /\ SoFar("word", g[s]) = Append(SoFar(mode, g[s]), << >>)
    BY Zenon, <2>1, PhaseStays
  <2> QED BY Zenon, <1>5, <2>1, <2>2 DEF StartWord, Opens, Open
<1>6. CASE Quote
  <2>1. mode = "word" /\ mode' = c /\ c \in {"q", "a", "s"} /\ s' = s + 1
    BY Zenon, <1>1, <1>6 DEF Quote, To
  <2>2. Phase(c, u.mode, x) /\ SoFar(c, u) = SoFar(mode, g[s])
    BY SMTT(30), <1>1, <2>1, PhaseReads
  <2> QED BY Zenon, <1>6, <2>1, <2>2 DEF Quote, Same, Open
<1>7. CASE Quoted
  <2>1. /\ mode \in {"q", "a"} /\ mode' = mode /\ c # mode /\ s' = s + 1 /\ d <= s
        /\ Put(c)
    BY Zenon, <1>1, <1>7 DEF Quoted, To, Open
  <2>2. Phase(mode, u.mode, x) /\ SoFar(mode, u) = Add(SoFar(mode, g[s]), c)
    BY SMTT(30), <1>1, <2>1, PhaseReads
  <2>3. Writes(g, c)
    BY Zenon, <1>7, <2>1, <2>2 DEF Quoted, Writes, Open
  <2> QED BY Zenon, <1>1, <2>1, <2>2, <2>3
<1>8. CASE EndQuote
  <2>1. mode \in {"q", "a"} /\ mode' = "word" /\ c \in {mode, NUL}
        /\ s' = (IF c = NUL THEN s ELSE s + 1)
    BY Zenon, <1>1, <1>8 DEF EndQuote, To
  <2>2. CASE c = NUL
    <3>1. Phase("word", g[s].mode, c) /\ SoFar("word", g[s]) = SoFar(mode, g[s])
      BY Zenon, <2>1, <2>2, PhaseStays
    <3> QED BY Zenon, <1>8, <2>1, <2>2, <3>1 DEF EndQuote, Same, Open
  <2>3. CASE c # NUL
    <3>1. Phase("word", u.mode, x) /\ SoFar("word", u) = SoFar(mode, g[s])
      BY SMTT(30), <1>1, <2>1, <2>3, PhaseReads
    <3> QED BY Zenon, <1>8, <2>1, <2>3, <3>1 DEF EndQuote, Same, Open
  <2> QED BY Zenon, <2>2, <2>3
<1>9. CASE Escaped
  <2>1. mode = "s" /\ mode' = "word" /\ s' = s + 1 /\ d <= s /\ Put(Unescaped(c))
    BY Zenon, <1>1, <1>9 DEF Escaped, To, Open
  <2>2. Phase("word", u.mode, x) /\ SoFar("word", u) = Add(SoFar(mode, g[s]), Unescaped(c))
    BY <1>1, <2>1, PhaseReads
  <2>3. Writes(g, Unescaped(c))
    BY Zenon, <1>9, <2>1, <2>2 DEF Escaped, Writes, Open
  <2> QED BY Zenon, <1>1, <1>2, <2>1, <2>2, <2>3
<1>10. CASE NothingEscaped
  <2>1. mode = "s" /\ mode' = "word" /\ c = NUL /\ s' = s
    BY Zenon, <1>1, <1>10 DEF NothingEscaped, To
  <2>2. Phase("word", g[s].mode, c) /\ SoFar("word", g[s]) = SoFar(mode, g[s])
    BY Zenon, <2>1, PhaseStays
  <2> QED BY Zenon, <1>10, <2>1, <2>2 DEF NothingEscaped, Same, Open
<1>11. CASE Plain
  <2>1. /\ mode = "word" /\ mode' = "word" /\ c \in {"t", "l", "x"} /\ s' = s + 1
        /\ d <= s /\ Put(c)
    BY Zenon, <1>1, <1>11 DEF Plain, To, Open
  <2>2. Phase("word", u.mode, x) /\ SoFar("word", u) = Add(SoFar(mode, g[s]), c)
    BY <1>1, <2>1, PhaseReads
  <2>3. Writes(g, c)
    BY Zenon, <1>11, <2>1, <2>2 DEF Plain, Writes, Open
  <2> QED BY Zenon, <1>1, <2>1, <2>2, <2>3
<1>12. CASE EndWord
  <2>1. /\ mode = "word" /\ c \in {"b", "n", NUL} /\ d <= s
        /\ mode' = IF c = "n" THEN "done" ELSE "words"
        /\ s' = IF c = NUL THEN s ELSE s + 1
    BY Zenon, <1>1, <1>12 DEF EndWord, To, Open
  <2>2. CASE c = NUL
    <3>1. Phase("words", g[s].mode, c) /\ SoFar("words", g[s]) = SoFar(mode, g[s])
      BY Zenon, <2>1, <2>2, PhaseStays
    <3>2. mode' = "words" /\ s' = s
      BY Zenon, <2>1, <2>2 DEF NUL
    <3> QED BY Zenon, <1>12, <2>1, <3>1, <3>2 DEF EndWord, Closes, Open
  <2>3. CASE c # NUL
    <3>1. /\ s' = s + 1 /\ c \in {"b", "n"}
          /\ Phase(mode', u.mode, x) /\ SoFar(mode', u) = SoFar(mode, g[s])
      BY <1>1, <2>1, <2>3, PhaseReads
    <3> QED BY Zenon, <1>12, <2>1, <3>1 DEF EndWord, Closes, Open
  <2> QED BY Zenon, <2>2, <2>3
<1> QED
  BY Zenon, <1>3, <1>4, <1>5, <1>6, <1>7, <1>8, <1>9, <1>10, <1>11, <1>12 DEF PassStep

LEMMA SoFarProperties ==
  ASSUME NEW st, GoodLex(st), NEW m \in Modes, NEW c, Phase(m, st.mode, c)
  PROVE  /\ SoFar(m, st) \in WordList /\ Len(SoFar(m, st)) \in Nat
         /\ Open(m) => Len(SoFar(m, st)) >= 1
<1>1. /\ st.words \in WordList /\ Len(st.words) \in Nat
      /\ st.mode \in {"word", "q", "a", "s"} => Len(st.words) >= 1
  BY Zenon, LenProperties DEF GoodLex, WordList
<1>2. /\ Append(st.words, << >>) \in WordList
      /\ Len(Append(st.words, << >>)) = Len(st.words) + 1
  BY <1>1, EmptySeq, AppendProperties DEF WordList
<1>3. CASE m = "word" /\ st.mode = "words"
  <2>1. SoFar(m, st) = Append(st.words, << >>)
    BY Zenon, <1>3 DEF SoFar
  <2> QED BY <1>1, <1>2, <2>1
<1>4. CASE ~(m = "word" /\ st.mode = "words")
  <2>1. SoFar(m, st) = st.words
    BY Zenon, <1>4 DEF SoFar
  <2>2. Open(m) => st.mode \in {"word", "q", "a", "s"}
    BY Zenon, <1>4 DEF Open, Phase, Modes
  <2> QED BY Zenon, <1>1, <2>1, <2>2
<1> QED
  BY Zenon, <1>3, <1>4

\* A pass counts the words it begins.
LEMMA StepCounts ==
  ASSUME ArgsInv, NEW g, GoodLex(g[s]), Phase(mode, g[s].mode, orig[s]),
         argc = Len(SoFar(mode, g[s])),
         Same(g) \/ Opens(g) \/ Closes(g) \/ \E c \in Chars : Writes(g, c)
  PROVE  argc' = Len(SoFar(mode', g[s']))
<1> DEFINE w == SoFar(mode, g[s])
           v == SoFar(mode', g[s'])
<1>1. w \in WordList /\ Len(w) \in Nat /\ (Open(mode) => Len(w) >= 1)
  BY Zenon, SoFarProperties DEF ArgsInv
<1>2. CASE Same(g) \/ Closes(g)
  BY Zenon, <1>2 DEF Same, Closes, SameWords
<1>3. CASE Opens(g)
  <2>1. v = Append(w, << >>) /\ argc' = argc + 1
    BY Zenon, <1>3 DEF Opens
  <2> HIDE DEF w, v
  <2>2. Len(v) = Len(w) + 1
    BY <1>1, <2>1, EmptySeq, AppendProperties DEF WordList
  <2> QED BY Zenon, <2>1, <2>2 DEF w, v
<1>4. ASSUME NEW c \in Chars, Writes(g, c) PROVE argc' = Len(v)
  <2>1. v = Add(w, c) /\ argc' = argc /\ Open(mode)
    BY Zenon, <1>4 DEF Writes, SameWords
  <2> HIDE DEF w, v
  <2>2. Len(v) = Len(w)
    BY Zenon, <1>1, <2>1, AddProperties
  <2> QED BY Zenon, <2>1, <2>2 DEF w
<1> QED
  BY Zenon, <1>2, <1>3, <1>4

-----------------------------------------------------------------------------
(* The two passes.                                                         *)

LexRuns == [line..N -> [mode : Modes, words : WordList]]

\* The counting pass: argc counts the words of the reference.
CountInv ==
  p = 0 =>
    \E h \in LexRuns :
      /\ RunTo(h, s) /\ OnlyRun(h, s)
      /\ Phase(mode, h[s].mode, orig[s])
      /\ argc = Len(SoFar(mode, h[s]))

\* The writing pass: the reference is known to the end e of the line, there is
\* room for its words, and those so far are in the buffer.
WriteInv ==
  p = 1 =>
    \E e \in s..N :
      /\ RunTo(Reading(line), e)
      /\ e = N \/ Reading(line)[e].mode = "done"
      /\ room = Len(Reading(line)[e].words)
      /\ Phase(mode, Reading(line)[s].mode, orig[s])
      /\ argc = Len(SoFar(mode, Reading(line)[s]))
      /\ Stored(SoFar(mode, Reading(line)[s]), argv, d, buf, Open(mode))

LEMMA CountKeeps ==
  ASSUME ArgsInv, CountInv, p = 0, PassStep
  PROVE  CountInv'
<1>1. /\ p' = p /\ line' = line /\ orig' = orig /\ mode # "done"
      /\ s' = s \/ (s' = s + 1 /\ s < N /\ orig[s] \in Chars)
  BY Zenon, StepReads DEF Static
<1>2. /\ s \in line..N /\ line \in 0..N /\ orig \in Text /\ s + 1 # s /\ s \in s..N
      /\ s \in line..s
  BY NAssumption DEF ArgsInv
<1>3. PICK h \in LexRuns :
        /\ RunTo(h, s) /\ OnlyRun(h, s)
        /\ Phase(mode, h[s].mode, orig[s])
        /\ argc = Len(SoFar(mode, h[s]))
  BY Zenon DEF CountInv
<1>4. h[s].mode # "done" /\ GoodLex(h[s])
  BY Zenon, <1>1, <1>2, <1>3 DEF Phase, RunTo
<1>5. \E g \in LexRuns :
        /\ RunTo(g, s') /\ OnlyRun(g, s') /\ g[s] = h[s]
        /\ s' = s + 1 => g[s + 1] = Consume(h[s], orig[s])
  <2>1. CASE s' = s
    BY Zenon, <1>2, <1>3, <2>1
  <2>2. CASE s' = s + 1
    <3>1. s < N /\ orig[s] \in Chars
      BY Zenon, <1>1, <1>2, <2>2
    <3> QED BY Zenon, <1>2, <1>3, <1>4, <2>2, <3>1, RunOn DEF LexRuns
  <2> QED BY Zenon, <1>1, <2>1, <2>2
<1>6. PICK g \in LexRuns :
        /\ RunTo(g, s') /\ OnlyRun(g, s') /\ g[s] = h[s]
        /\ s' = s + 1 => g[s + 1] = Consume(h[s], orig[s])
  BY Zenon, <1>5
<1>7. /\ Phase(mode', g[s'].mode, orig[s'])
      /\ Same(g) \/ Opens(g) \/ Closes(g) \/ \E c \in Chars : Writes(g, c)
  BY Zenon, <1>3, <1>4, <1>6, StepFollows
<1>8. argc' = Len(SoFar(mode', g[s']))
  BY Zenon, <1>3, <1>4, <1>6, <1>7, StepCounts
<1>9. LexRuns' = LexRuns /\ RunTo(g, s)' /\ OnlyRun(g, s)'
  BY Zenon, <1>1, <1>6 DEF LexRuns, RunTo, OnlyRun, IsReading
<1> QED
  BY Zenon, <1>1, <1>7, <1>8, <1>9 DEF CountInv

\* A step of the writing pass keeps the words where they are.
LEMMA StepStores ==
  ASSUME ArgsInv, p = 1, NEW g, GoodLex(g[s]), Phase(mode, g[s].mode, orig[s]),
         Stored(SoFar(mode, g[s]), argv, d, buf, Open(mode)),
         Same(g) \/ Opens(g) \/ Closes(g) \/ \E c \in Chars : Writes(g, c)
  PROVE  Stored(SoFar(mode', g[s']), argv', d', buf', Open(mode'))
<1> DEFINE w == SoFar(mode, g[s])
           v == SoFar(mode', g[s'])
<1>1. w \in WordList /\ buf \in Text
  BY Zenon, SoFarProperties DEF ArgsInv
<1>2. d <= s => d \in 0..N
  BY NAssumption DEF ArgsInv
<1>3. Stored(w, argv, d, buf, Open(mode))
  BY Zenon
<1>4. CASE Same(g)
  <2>1. v = w /\ argv' = argv /\ d' = d /\ buf' = buf /\ (Open(mode') <=> Open(mode))
    BY Zenon, <1>4 DEF Same, SameWords, Keep
  <2> HIDE DEF w, v
  <2>2. Stored(v, argv', d', buf', Open(mode'))
    BY Zenon, <1>3, <2>1 DEF Stored
  <2> QED BY Zenon, <2>2 DEF v
<1>5. CASE Opens(g)
  <2>1. /\ v = Append(w, << >>) /\ argv' = Append(argv, d) /\ d' = d /\ buf' = buf
        /\ ~Open(mode) /\ Open(mode') /\ d \in 0..N
    BY Zenon, <1>2, <1>5 DEF Opens, Keep
  <2> HIDE DEF w, v
  <2>2. Stored(w, argv, d, buf, FALSE)
    BY Zenon, <1>3, <2>1 DEF Stored
  <2>3. Stored(v, argv', d', buf', TRUE)
    BY Zenon, <1>1, <2>1, <2>2, StoreOpen
  <2>4. Stored(v, argv', d', buf', Open(mode'))
    BY Zenon, <2>1, <2>3 DEF Stored
  <2> QED BY Zenon, <2>4 DEF v
<1>6. ASSUME NEW c \in Chars, Writes(g, c)
      PROVE  Stored(v, argv', d', buf', Open(mode'))
  <2>1. /\ v = Add(w, c) /\ argv' = argv /\ d' = d + 1 /\ buf' = [buf EXCEPT ![d] = c]
        /\ Open(mode) /\ Open(mode') /\ d \in 0..N
    BY Zenon, <1>2, <1>6 DEF Writes, Put, SameWords
  <2> HIDE DEF w, v
  <2>2. Stored(w, argv, d, buf, TRUE)
    BY Zenon, <1>3, <2>1 DEF Stored
  <2>3. Stored(v, argv', d', buf', TRUE)
    BY Zenon, <1>1, <2>1, <2>2, StoreChar
  <2> QED BY Zenon, <2>1, <2>3 DEF Stored
<1>7. CASE Closes(g)
  <2>1. /\ v = w /\ argv' = argv /\ d' = d + 1 /\ buf' = [buf EXCEPT ![d] = NUL]
        /\ Open(mode) /\ ~Open(mode') /\ d \in 0..N
    BY Zenon, <1>2, <1>7 DEF Closes, Put, SameWords
  <2> HIDE DEF w, v
  <2>2. Stored(w, argv, d, buf, TRUE)
    BY Zenon, <1>3, <2>1 DEF Stored
  <2>3. Stored(v, argv', d', buf', FALSE)
    BY Zenon, <1>1, <2>1, <2>2, StoreEnd
  <2>4. Stored(v, argv', d', buf', Open(mode'))
    BY Zenon, <2>1, <2>3 DEF Stored
  <2> QED BY Zenon, <2>4 DEF v
<1> QED
  BY Zenon, <1>4, <1>5, <1>6, <1>7

LEMMA WriteKeeps ==
  ASSUME ArgsInv, WriteInv, p = 1, PassStep
  PROVE  WriteInv'
<1>1. /\ p' = p /\ line' = line /\ orig' = orig /\ room' = room /\ mode # "done"
      /\ s' = s \/ (s' = s + 1 /\ s < N /\ orig[s] \in Chars)
  BY Zenon, StepReads DEF Static
<1>2. PICK g : g = Reading(line)
  BY Zenon
<1>3. Reading(line)' = g
  BY Zenon, <1>1, <1>2 DEF Reading
<1>4. PICK e \in s..N :
        /\ RunTo(g, e) /\ (e = N \/ g[e].mode = "done")
        /\ room = Len(g[e].words)
        /\ Phase(mode, g[s].mode, orig[s])
        /\ argc = Len(SoFar(mode, g[s]))
        /\ Stored(SoFar(mode, g[s]), argv, d, buf, Open(mode))
  BY Zenon, <1>2 DEF WriteInv
<1>5. /\ s \in line..e /\ s \in Int /\ e \in Int /\ line \in Nat /\ s + 1 # s
      /\ e \in line..N
  BY NAssumption DEF ArgsInv
<1>6. g[s].mode # "done" /\ GoodLex(g[s])
  BY Zenon, <1>1, <1>4, <1>5 DEF Phase, RunTo
<1>7. s' = s + 1 => s + 1 <= e
  BY NAssumption, <1>1, <1>4, <1>5, <1>6
<1>8. s' \in line..e /\ e \in s'..N
  BY NAssumption, <1>1, <1>5, <1>7
<1>9. s' = s + 1 => g[s + 1] = Consume(g[s], orig[s])
  <2> SUFFICES ASSUME s' = s + 1 PROVE g[s + 1] = Consume(g[s], orig[s])
    BY Zenon
  <2>1. s + 1 \in (line + 1)..e /\ (s + 1) - 1 = s
    BY SMTT(30), <1>5, <1>7
  <2> QED BY Zenon, <1>4, <2>1 DEF RunTo
<1>10. /\ Phase(mode', g[s'].mode, orig[s'])
       /\ Same(g) \/ Opens(g) \/ Closes(g) \/ \E c \in Chars : Writes(g, c)
  BY Zenon, <1>4, <1>6, <1>9, StepFollows
<1>11. argc' = Len(SoFar(mode', g[s']))
  BY Zenon, <1>4, <1>6, <1>10, StepCounts
<1>12. Stored(SoFar(mode', g[s']), argv', d', buf', Open(mode'))
  BY Zenon, <1>4, <1>6, <1>10, StepStores
<1>13. RunTo(g, e)'
  BY Zenon, <1>1, <1>4 DEF RunTo
<1> QED
  BY Zenon, <1>1, <1>3, <1>4, <1>8, <1>10, <1>11, <1>12, <1>13 DEF WriteInv

\* A pass begins with no words.
LEMMA Begins ==
  ASSUME NEW k, NEW b
  PROVE  /\ GoodLex(Start) /\ Start.mode = "words" /\ Start.words = << >>
         /\ Phase("words", Start.mode, b) /\ SoFar("words", Start) = << >>
         /\ Len(SoFar("words", Start)) = 0
         /\ ~Open("words")
         /\ Stored(SoFar("words", Start), << >>, k, b, FALSE)
BY EmptySeq DEF GoodLex, Start, WordList, Modes, Phase, SoFar, Open, Stored

AtStart == line \in 0..N /\ s = line /\ mode = "words" /\ argc = 0

LEMMA CountBegins == AtStart => CountInv
<1> SUFFICES ASSUME AtStart PROVE CountInv
  BY Zenon
<1> DEFINE h == [i \in line..N |-> Start]
<1>1. s = line /\ line \in Nat /\ mode = "words" /\ argc = 0 /\ line..line = {line}
      /\ line \in line..N
  BY NAssumption DEF AtStart
<1>2. h \in LexRuns /\ h[line] = Start
  BY Zenon, <1>1, Begins DEF LexRuns, GoodLex
<1> HIDE DEF h
<1>3. RunTo(h, s)
  <2>1. (line + 1)..s = {} /\ line..(s - 1) = {}
    BY <1>1
  <2>2. Len(Start.words) <= Len(Start.words)
    BY Begins
  <2> QED BY Zenon, <1>1, <1>2, <2>1, <2>2, Begins DEF RunTo
<1>4. OnlyRun(h, s)
  BY Zenon, <1>1, <1>2 DEF OnlyRun, IsReading
<1> QED
  BY Zenon, <1>1, <1>2, <1>3, <1>4, Begins DEF CountInv

LEMMA InitPasses == Init => CountInv /\ WriteInv
  BY CountBegins, NAssumption DEF Init, AtStart, WriteInv

\* The second pass begins where the first one did, with room for its words.
LEMMA SecondPassKeeps ==
  ASSUME ArgsInv, CountInv, SecondPass
  PROVE  CountInv' /\ WriteInv'
<1>1. /\ mode = "done" /\ p = 0 /\ p' = 1 /\ room' = argc /\ argc' = 0 /\ argv' = << >>
      /\ s' = line /\ d' = line /\ mode' = "words"
      /\ orig' = orig /\ buf' = buf /\ line' = line
  BY Zenon DEF SecondPass
<1>2. s \in line..N /\ line \in line..s /\ line \in 0..N /\ s \in 0..N /\ s \in line..s
  BY NAssumption DEF ArgsInv
<1>3. PICK h \in LexRuns :
        /\ RunTo(h, s) /\ OnlyRun(h, s)
        /\ Phase(mode, h[s].mode, orig[s])
        /\ argc = Len(SoFar(mode, h[s]))
  BY Zenon, <1>1 DEF CountInv
<1>4. s = N \/ h[s].mode = "done"
  BY Zenon, <1>1, <1>2, <1>3 DEF Phase, ArgsInv
<1>5. SoFar(mode, h[s]) = h[s].words
  BY Zenon, <1>1 DEF SoFar
<1>6. PICK g : g = Reading(line)
  BY Zenon
<1>7. RunTo(g, s) /\ g[s] = h[s]
  BY Zenon, <1>2, <1>3, <1>4, <1>6, RunEnds DEF LexRuns
<1>8. Reading(line)' = g /\ g[line] = Start
  BY Zenon, <1>1, <1>6, <1>7 DEF Reading, RunTo
<1>9. PICK e : e = s
  BY Zenon
<1>10. RunTo(g, e)' /\ e \in s'..N /\ (e = N \/ g[e].mode = "done")
       /\ room' = Len(g[e].words)
  BY Zenon, <1>1, <1>2, <1>3, <1>4, <1>5, <1>7, <1>9 DEF RunTo
<1>11. /\ Phase(mode', g[s'].mode, orig'[s'])
       /\ argc' = Len(SoFar(mode', g[s']))
       /\ Stored(SoFar(mode', g[s']), argv', d', buf', Open(mode'))
  <2>1. g[s'] = Start /\ mode' = "words" /\ ~Open("words")
    BY Zenon, <1>1, <1>8, Begins
  <2>2. Stored(SoFar("words", Start), << >>, d', buf', FALSE)
    BY Zenon, Begins
  <2>3. Stored(SoFar("words", Start), << >>, d', buf', Open("words"))
    BY Zenon, <2>1, <2>2 DEF Stored
  <2> QED BY Zenon, <1>1, <2>1, <2>3, Begins
<1>12. WriteInv'
  BY Zenon, <1>8, <1>10, <1>11 DEF WriteInv
<1> QED
  BY <1>1, <1>12 DEF CountInv

LEMMA NextLineKeeps ==
  ASSUME ArgsInv, NextLine
  PROVE  CountInv' /\ WriteInv'
<1>1. AtStart' /\ p' = 0
  BY Zenon, NAssumption DEF NextLine, ArgsInv, AtStart
<1>2. AtStart' => CountInv'
  BY CountBegins, PTL
<1> QED
  BY <1>1, <1>2 DEF WriteInv

\* The three invariants together are inductive, and imply both properties.
LEMMA PassesRight == Spec => [](ArgvFits /\ SplitRight)
<1> DEFINE Inv == ArgsInv /\ CountInv /\ WriteInv
<1>1. Init => Inv
  BY Zenon, InitEstablishes, InitPasses
<1>2. Inv /\ [Next]_vars => Inv'
  <2> SUFFICES ASSUME Inv, [Next]_vars PROVE CountInv' /\ WriteInv'
    BY Zenon, NextKeeps
  <2>1. CASE PassStep
    <3>1. p' = p /\ p \in {0, 1}
      BY Zenon, <2>1, StepReads DEF Static, ArgsInv
    <3>2. CASE p = 0
      BY <2>1, <3>1, <3>2, CountKeeps DEF WriteInv
    <3>3. CASE p = 1
      BY <2>1, <3>1, <3>3, WriteKeeps DEF CountInv
    <3> QED BY Zenon, <3>1, <3>2, <3>3
  <2>2. CASE SecondPass
    BY Zenon, <2>2, SecondPassKeeps
  <2>3. CASE NextLine
    BY Zenon, <2>3, NextLineKeeps
  <2>4. CASE UNCHANGED vars
    <3>1. /\ orig' = orig /\ buf' = buf /\ line' = line /\ p' = p /\ s' = s /\ d' = d
          /\ mode' = mode /\ argc' = argc /\ room' = room /\ argv' = argv
      BY Zenon, <2>4 DEF vars
    <3>2. Reading(line)' = Reading(line) /\ LexRuns' = LexRuns
      BY Zenon, <3>1 DEF Reading, LexRuns
    <3>3. \A h, k : /\ RunTo(h, k)' <=> RunTo(h, k)
                    /\ OnlyRun(h, k)' <=> OnlyRun(h, k)
      BY <3>1 DEF RunTo, OnlyRun, IsReading
    <3>4. CountInv'
      BY Zenon, <3>1, <3>2, <3>3 DEF CountInv
    <3>5. WriteInv'
      <4>1. PICK g : g = Reading(line) /\ g = Reading(line)'
        BY Zenon, <3>2
      <4>2. p = 1 => \E e \in s..N :
              /\ RunTo(g, e) /\ (e = N \/ g[e].mode = "done")
              /\ room = Len(g[e].words)
              /\ Phase(mode, g[s].mode, orig[s])
              /\ argc = Len(SoFar(mode, g[s]))
              /\ Stored(SoFar(mode, g[s]), argv, d, buf, Open(mode))
        BY Zenon, <4>1 DEF WriteInv
      <4> QED BY Zenon, <3>1, <3>3, <4>1, <4>2 DEF WriteInv
    <3> QED BY Zenon, <3>4, <3>5
  <2> QED BY Zenon, <2>1, <2>2, <2>3, <2>4 DEF Next, PassStep
<1>3. Inv => ArgvFits /\ SplitRight
  <2> SUFFICES ASSUME Inv, p = 1
               PROVE  /\ argc <= room
                      /\ mode = "done" => argc = room
                      /\ mode = "done" =>
                           /\ [i \in 1..argc |-> StringAt(argv[i])] = Words(line)
                           /\ s = EndOf(line)
    BY Zenon DEF ArgvFits, SplitRight
  <2>1. PICK g : g = Reading(line)
    BY Zenon
  <2>2. PICK e \in s..N :
          /\ RunTo(g, e) /\ (e = N \/ g[e].mode = "done")
          /\ room = Len(g[e].words)
          /\ Phase(mode, g[s].mode, orig[s])
          /\ argc = Len(SoFar(mode, g[s]))
          /\ Stored(SoFar(mode, g[s]), argv, d, buf, Open(mode))
    BY Zenon, <2>1 DEF WriteInv
  <2>3. /\ s \in line..e /\ s \in Int /\ e \in Int /\ line \in 0..N /\ s \in 0..N
        /\ e \in line..N /\ e \in line..e /\ d \in 0..(N + 1)
    BY NAssumption DEF ArgsInv
  <2>4. /\ GoodLex(g[s]) /\ GoodLex(g[e])
        /\ Len(g[s].words) <= Len(g[e].words)
        /\ Len(g[s].words) \in Nat /\ Len(g[e].words) \in Nat
    BY Zenon, <2>2, <2>3, LenProperties DEF RunTo, GoodLex, WordList
  <2>5. argc <= room
    <3>1. CASE mode = "word" /\ g[s].mode = "words"
      <4>1. orig[s] \in Chars /\ orig[s] \notin {"b", "n"} /\ s # N
        BY Zenon, <2>2, <2>3, <3>1, NAssumption DEF Phase, ArgsInv, Text
      <4>2. s # e /\ s + 1 \in (line + 1)..e /\ (s + 1) - 1 = s /\ s + 1 \in line..e
        BY SMTT(30), <2>2, <2>3, <3>1, <4>1, NAssumption
      <4>3. g[s + 1] = Consume(g[s], orig[s])
        BY Zenon, <2>2, <4>2 DEF RunTo
      <4>4. /\ SoFar(mode, g[s]) = Append(g[s].words, << >>)
            /\ Append(g[s].words, << >>) \in WordList
            /\ Len(Append(g[s].words, << >>)) = Len(g[s].words) + 1
        BY <2>4, <3>1, EmptySeq, AppendProperties DEF SoFar, GoodLex, WordList
      <4>5. Len(g[s + 1].words) = Len(g[s].words) + 1
        <5>1. g[s + 1].words = Append(g[s].words, << >>)
                \/ g[s + 1].words = Add(Append(g[s].words, << >>), orig[s])
          BY <3>1, <4>1, <4>3 DEF Consume
        <5>2. Len(Add(Append(g[s].words, << >>), orig[s])) = Len(Append(g[s].words, << >>))
          <6>1. Len(Append(g[s].words, << >>)) >= 1
            BY <2>4, <4>4
          <6> QED BY Zenon, <4>1, <4>4, <6>1, AddProperties
        <5> QED BY Zenon, <4>4, <5>1, <5>2
      <4>6. Len(g[s + 1].words) <= Len(g[e].words)
        BY Zenon, <2>2, <4>2 DEF RunTo
      <4> QED BY Zenon, <2>2, <2>4, <4>4, <4>5, <4>6
    <3>2. CASE ~(mode = "word" /\ g[s].mode = "words")
      BY Zenon, <2>2, <2>4, <3>2 DEF SoFar
    <3> QED BY Zenon, <3>1, <3>2
  <2>6. ASSUME mode = "done"
        PROVE  /\ argc = room
               /\ [i \in 1..argc |-> StringAt(argv[i])] = Words(line)
               /\ s = EndOf(line)
    <3>1. s = e
      <4>1. s = N \/ g[s].mode = "done"
        BY Zenon, <2>2, <2>3, <2>6 DEF Phase, ArgsInv
      <4>2. s # e => s \in line..(e - 1)
        BY <2>3
      <4> QED BY SMTT(30), NAssumption, <2>2, <2>3, <4>1, <4>2 DEF RunTo
    <3>2. SoFar(mode, g[s]) = g[s].words /\ ~Open(mode)
      BY Zenon, <2>6 DEF SoFar, Open
    <3>3. EndOf(line) = e
      BY Zenon, <2>1, <2>2, <2>3, RunFindsEnd
    <3>4. Words(line) = g[s].words
      BY Zenon, <2>1, <3>1, <3>3 DEF Words
    <3>5. Stored(g[s].words, argv, d, buf, FALSE)
      BY Zenon, <2>2, <3>2 DEF Stored
    <3>6. [i \in 1..argc |-> StringAt(argv[i])] = g[s].words
      BY Zenon, <2>2, <2>3, <2>4, <3>2, <3>5, StoredStrings DEF GoodLex
    <3> QED BY Zenon, <2>2, <3>1, <3>2, <3>3, <3>4, <3>6
  <2> QED BY Zenon, <2>5, <2>6
<1> QED
  BY <1>1, <1>2, <1>3, PTL DEF Spec

\* The writing pass of argcargv stores no pointer the counting pass has made no
\* room for, and all of them: so it is for every buffer of every length.
THEOREM AlwaysArgvFits == Spec => []ArgvFits
  BY PassesRight, PTL

\* What argcargv leaves in the buffer, and argv points to, are the words of the
\* line as it was given, and eval goes on where the line ends: so it is for
\* every buffer of every length, although the words are written over the line
\* while it is read.
THEOREM AlwaysSplitRight == Spec => []SplitRight
  BY PassesRight, PTL
=============================================================================
