---------------------------- MODULE GetoptProofs ----------------------------
(***************************************************************************)
(* For every command line, option table and environment:                   *)
(*                                                                         *)
(* OrderKept: the exchanges of getopt_long never lose, double or reorder a *)
(* string within its block.  OrderKept alone is not inductive: an exchange *)
(* keeps the order only since everything up to last_nonopt stood there     *)
(* from the start, and everything behind it has not been touched.          *)
(*                                                                         *)
(* Permuted: when it is done, the options with their arguments precede the *)
(* words.  Here the parser's position must agree with what each string of  *)
(* the line is (Tracked): the words among the strings read are those from  *)
(* first_nonopt to last_nonopt, and the next string begins anew, or the    *)
(* parser is in a group of short options none of which took an argument.   *)
(* What a string is, Roles, is defined by recursion along the line; that   *)
(* such a function exists follows from least elements of sets of naturals. *)
(***************************************************************************)
EXTENDS CommandLine, FiniteSetTheorems, SequenceTheorems, WellFoundedInduction, TLAPS

Indices == 0..(argc - 1)

\* The parser's state once it is initialised; c is nextchar.
States(c) ==
  [argv : [Indices -> Indices], optind : 1..argc, nextchar : {c},
   first_nonopt : 1..argc, last_nonopt : 1..argc]

\* Two indices in one block: before the words, in them, or behind them.
Together(g, i, j) ==
  \/ j < g.first_nonopt
  \/ g.first_nonopt <= i /\ j < g.last_nonopt
  \/ g.last_nonopt <= i

InOrder(g) ==
  /\ \A i, j \in Indices : i < j => g.argv[i] # g.argv[j]
  /\ \A i, j \in Indices : i < j /\ Together(g, i, j) => g.argv[i] < g.argv[j]

\* What lies behind last_nonopt was never moved, nor was anything moved there.
Untouched(g) ==
  /\ \A i \in Indices : i >= g.last_nonopt => g.argv[i] = i
  /\ \A i \in Indices : i < g.last_nonopt => g.argv[i] < g.last_nonopt

Scanned(g) == InOrder(g) /\ Untouched(g) /\ g.first_nonopt <= g.last_nonopt

Sane(g) == Scanned(g) /\ g.last_nonopt <= g.optind

\* Before the first call nothing is initialised but optind; after EOF the
\* caller owns optind.
GetoptInv ==
  /\ text \in CommandLines
  /\ \/ /\ optind = 0
        /\ nextchar = NULL
        /\ argv = FreshArgv(text)
        /\ result.c # EOF
     \/ /\ OrderKept
        /\ result.c # EOF =>
             /\ Current \in States(nextchar)
             /\ Sane(Current)
             /\ nextchar # NULL => optind < argc

\* argc is the number of strings of the command line.
LEMMA ArgcType ==
  ASSUME text \in CommandLines
  PROVE  argc \in Nat \ {0} /\ DOMAIN text = Indices
<1>1. IsFiniteSet(DOMAIN text) /\ DOMAIN text = Indices /\ 0 \in DOMAIN text
  BY Zenon, LinesAssumption DEF Indices, argc
<1>2. argc \in Nat
  BY Zenon, <1>1, FS_CardinalityType DEF argc
<1> QED
  BY <1>1, <1>2 DEF Indices

\* The loop over the words stays within argv.
LEMMA SkipToType ==
  ASSUME argc \in Nat, NEW a, NEW i \in 1..argc
  PROVE  SkipTo(a, i) \in i..argc
<1> DEFINE K == {k \in i..(argc - 1) : \A l \in i..k : NonOption(text[a[l]])}
<1>1. IsFiniteSet(i..(argc - 1)) /\ Cardinality(i..(argc - 1)) = argc - i
  <2>1. i \in Int /\ argc - 1 \in Int /\ i <= argc
    OBVIOUS
  <2>2. /\ IsFiniteSet(i..(argc - 1))
        /\ Cardinality(i..(argc - 1)) =
             IF i > argc - 1 THEN 0 ELSE (argc - 1) - i + 1
    BY Zenon, <2>1, FS_Interval
  <2> QED BY <2>1, <2>2
<1>2. K \subseteq i..(argc - 1)
  BY Zenon
<1>3. Cardinality(K) \in Nat /\ Cardinality(K) <= argc - i
  BY ZenonT(30), <1>1, <1>2, FS_Subset, FS_CardinalityType
<1> QED
  BY <1>3 DEF SkipTo

\* What a loop of swaps from both ends of a block leaves.
LEMMA ReversedElements ==
  ASSUME argc \in Nat, NEW a \in [Indices -> Indices],
         NEW m \in 1..argc, NEW n \in m..argc
  PROVE  /\ Reversed(a, m, n) \in [Indices -> Indices]
         /\ \A i \in Indices : m <= i /\ i < n =>
              /\ m + n - 1 - i \in Indices
              /\ Reversed(a, m, n)[i] = a[m + n - 1 - i]
         /\ \A i \in Indices : i < m \/ n <= i => Reversed(a, m, n)[i] = a[i]
  BY DEF Reversed, Indices

\* Three reversals move the block last .. ind - 1 before first .. last - 1.
LEMMA ExchangeMovesBlocks ==
  ASSUME argc \in Nat, NEW a \in [Indices -> Indices],
         NEW first \in 1..argc, NEW last \in first..argc, NEW ind \in last..argc,
         NEW mid, mid = first + (ind - last)
  PROVE  /\ exchange(a, first, last, ind) \in [Indices -> Indices]
         /\ \A i \in Indices :
              /\ first <= i /\ i < mid =>
                   /\ last + (i - first) \in Indices
                   /\ exchange(a, first, last, ind)[i] = a[last + (i - first)]
              /\ mid <= i /\ i < ind =>
                   /\ first + (i - mid) \in Indices
                   /\ exchange(a, first, last, ind)[i] = a[first + (i - mid)]
              /\ i < first \/ ind <= i =>
                   exchange(a, first, last, ind)[i] = a[i]
<1> DEFINE b == Reversed(a, first, ind)
           c == Reversed(b, first, mid)
           e == Reversed(c, mid, ind)
<1>1. mid \in first..ind /\ mid \in 1..argc /\ first \in 1..argc /\ ind \in mid..argc
  OBVIOUS
<1>2. e = exchange(a, first, last, ind)
  BY Zenon DEF exchange
<1>3. /\ b \in [Indices -> Indices]
      /\ \A i \in Indices : first <= i /\ i < ind => b[i] = a[first + ind - 1 - i]
      /\ \A i \in Indices : i < first \/ ind <= i => b[i] = a[i]
  BY <1>1, ReversedElements
<1> HIDE DEF b
<1>4. mid \in first..argc
  BY <1>1
<1>5. /\ c \in [Indices -> Indices]
      /\ \A i \in Indices : first <= i /\ i < mid =>
           first + mid - 1 - i \in Indices /\ c[i] = b[first + mid - 1 - i]
      /\ \A i \in Indices : i < first \/ mid <= i => c[i] = b[i]
  BY Zenon, <1>1, <1>3, <1>4, ReversedElements
<1> HIDE DEF c
<1>6. /\ e \in [Indices -> Indices]
      /\ \A i \in Indices : mid <= i /\ i < ind =>
           mid + ind - 1 - i \in Indices /\ e[i] = c[mid + ind - 1 - i]
      /\ \A i \in Indices : i < mid \/ ind <= i => e[i] = c[i]
  BY ZenonT(30), <1>1, <1>5, ReversedElements
<1> HIDE DEF e
<1>7. ASSUME NEW i \in Indices, first <= i, i < mid
      PROVE  last + (i - first) \in Indices /\ e[i] = a[last + (i - first)]
  <2>1. first + mid - 1 - i \in Indices /\ e[i] = b[first + mid - 1 - i]
    BY Zenon, <1>1, <1>5, <1>6, <1>7 DEF Indices
  <2>2. first + ind - 1 - (first + mid - 1 - i) = last + (i - first)
    BY <1>7 DEF Indices
  <2>3. first <= first + mid - 1 - i /\ first + mid - 1 - i < ind
    BY <1>1, <1>7 DEF Indices
  <2>4. b[first + mid - 1 - i] = a[first + ind - 1 - (first + mid - 1 - i)]
    BY Zenon, <1>3, <2>1, <2>3
  <2>5. last + (i - first) \in Indices
    BY <1>7 DEF Indices
  <2> QED BY Zenon, <2>1, <2>2, <2>4, <2>5
<1>8. ASSUME NEW i \in Indices, mid <= i, i < ind
      PROVE  first + (i - mid) \in Indices /\ e[i] = a[first + (i - mid)]
  <2>1. mid + ind - 1 - i \in Indices /\ e[i] = c[mid + ind - 1 - i]
    BY Zenon, <1>6, <1>8
  <2>2. mid <= mid + ind - 1 - i /\ first <= mid + ind - 1 - i
        /\ mid + ind - 1 - i < ind
    BY <1>1, <1>8 DEF Indices
  <2>3. c[mid + ind - 1 - i] = b[mid + ind - 1 - i]
    BY Zenon, <1>5, <2>1, <2>2
  <2>4. b[mid + ind - 1 - i] = a[first + ind - 1 - (mid + ind - 1 - i)]
    BY Zenon, <1>3, <2>1, <2>2
  <2>5. first + ind - 1 - (mid + ind - 1 - i) = first + (i - mid)
    BY <1>1, <1>8 DEF Indices
  <2>6. first + (i - mid) \in Indices
    BY <1>1, <1>8 DEF Indices
  <2> QED BY Zenon, <2>1, <2>3, <2>4, <2>5, <2>6
<1>9. ASSUME NEW i \in Indices, i < first \/ ind <= i
      PROVE  e[i] = a[i]
  <2>1. i < mid \/ ind <= i
    BY <1>1, <1>9 DEF Indices
  <2>2. i < first \/ mid <= i
    BY <1>1, <1>9 DEF Indices
  <2> QED BY Zenon, <1>3, <1>5, <1>6, <1>9, <2>1, <2>2
<1> QED
  BY Zenon, <1>2, <1>6, <1>7, <1>8, <1>9

\* An exchange keeps each block in order, and nothing behind it is touched.
LEMMA ExchangedSane ==
  ASSUME argc \in Nat, NEW c, NEW g \in States(c), Sane(g)
  PROVE  /\ Exchanged(g) \in States(c)
         /\ Sane(Exchanged(g))
         /\ Exchanged(g).optind = g.optind
<1> DEFINE a == g.argv
           first == g.first_nonopt
           last == g.last_nonopt
           ind == g.optind
           mid == first + (ind - last)
           e == exchange(a, first, last, ind)
<1>1. /\ a \in [Indices -> Indices] /\ first \in 1..argc
      /\ last \in first..argc /\ ind \in last..argc
  BY DEF States, Sane, Scanned
<1>2. mid \in first..ind /\ mid \in 1..argc
  BY <1>1
<1>3. /\ Exchanged(g).argv = e
      /\ Exchanged(g).first_nonopt = mid
      /\ Exchanged(g).last_nonopt = ind
      /\ Exchanged(g).optind = ind
      /\ Exchanged(g).nextchar = g.nextchar
  BY Zenon DEF Exchanged, States
<1>4. /\ \A i, j \in Indices : i < j => a[i] # a[j]
      /\ \A i, j \in Indices : i < j /\ (j < first \/ (first <= i /\ j < last))
                                 => a[i] < a[j]
      /\ \A i \in Indices : i >= last => a[i] = i
      /\ \A i \in Indices : i < last => a[i] < last
  BY Zenon DEF Sane, Scanned, InOrder, Untouched, Together
<1>5. /\ e \in [Indices -> Indices]
      /\ \A i \in Indices :
           /\ first <= i /\ i < mid =>
                last + (i - first) \in Indices /\ e[i] = a[last + (i - first)]
           /\ mid <= i /\ i < ind =>
                first + (i - mid) \in Indices /\ e[i] = a[first + (i - mid)]
           /\ i < first \/ ind <= i => e[i] = a[i]
  BY Zenon, <1>1, ExchangeMovesBlocks
<1>6. Exchanged(g) \in States(c)
  BY Zenon, <1>1, <1>2, <1>5 DEF Exchanged, States
<1>7. \A i \in Indices : i < first => e[i] = a[i] /\ a[i] < last
  <2> SUFFICES ASSUME NEW i \in Indices, i < first
               PROVE  e[i] = a[i] /\ a[i] < last
    BY Zenon
  <2>1. e[i] = a[i]
    BY Zenon, <1>5
  <2>2. i < last
    BY <1>1 DEF Indices
  <2> QED BY Zenon, <1>4, <2>1, <2>2
<1>8. \A i \in Indices : first <= i /\ i < mid => e[i] = last + (i - first)
  <2> SUFFICES ASSUME NEW i \in Indices, first <= i, i < mid
               PROVE  e[i] = last + (i - first)
    BY Zenon
  <2>1. last + (i - first) \in Indices /\ e[i] = a[last + (i - first)]
    BY Zenon, <1>5
  <2>2. first \in Int /\ last \in Int /\ i \in Int
    BY <1>1 DEF Indices
  <2>3. last + (i - first) >= last
    BY <2>2
  <2> QED BY Zenon, <1>4, <2>1, <2>3
<1>9. \A i \in Indices : mid <= i /\ i < ind =>
        /\ first + (i - mid) \in Indices
        /\ first + (i - mid) < last
        /\ e[i] = a[first + (i - mid)]
        /\ a[first + (i - mid)] < last
  <2> SUFFICES ASSUME NEW i \in Indices, mid <= i, i < ind
               PROVE  /\ first + (i - mid) \in Indices
                      /\ first + (i - mid) < last
                      /\ e[i] = a[first + (i - mid)]
                      /\ a[first + (i - mid)] < last
    BY Zenon
  <2>1. first + (i - mid) \in Indices /\ e[i] = a[first + (i - mid)]
    BY Zenon, <1>5
  <2>2. first + (i - mid) < last
    BY <1>1 DEF Indices
  <2> QED BY Zenon, <1>4, <2>1, <2>2
<1>10. \A i \in Indices : ind <= i => e[i] = i
  <2> SUFFICES ASSUME NEW i \in Indices, ind <= i PROVE e[i] = i
    BY Zenon
  <2>1. e[i] = a[i]
    BY Zenon, <1>5
  <2> QED BY <1>1, <1>4, <2>1 DEF Indices
<1> DEFINE M == mid
<1>11. \A i \in Indices : a[i] \in Int /\ i \in Int
  BY <1>1 DEF Indices
<1>12. /\ first \in Int /\ last \in Int /\ ind \in Int /\ M \in Int
       /\ first <= last /\ last <= ind /\ M = first + (ind - last)
  BY <1>1
<1> HIDE DEF e, M
<1>13. \A i, j \in Indices : i < j => e[i] # e[j]
  <2> SUFFICES ASSUME NEW i \in Indices, NEW j \in Indices, i < j
               PROVE  e[i] # e[j]
    BY Zenon
  <2>1. CASE j < first
    BY SMTT(30), <1>4, <1>7, <1>11, <1>12, <2>1
  <2>2. CASE first <= j /\ j < mid
    BY SMTT(30), <1>7, <1>8, <1>11, <1>12, <2>2
  <2>3. CASE mid <= j /\ j < ind
    <3>1. CASE i < first
      <4>1. i < first + (j - mid)
        BY SMTT(30), <1>11, <1>12, <2>3, <3>1
      <4> QED BY SMTT(30), <1>4, <1>7, <1>9, <2>3, <3>1, <4>1
    <3>2. CASE first <= i /\ i < mid
      BY SMTT(30), <1>8, <1>9, <1>11, <1>12, <2>3, <3>2
    <3>3. CASE mid <= i
      <4>1. first + (i - mid) < first + (j - mid) /\ i < ind
        BY SMTT(30), <1>11, <1>12, <2>3, <3>3
      <4> QED BY SMTT(30), <1>4, <1>9, <2>3, <3>3, <4>1
    <3> QED BY SMTT(30), <1>11, <1>12, <3>1, <3>2, <3>3
  <2>4. CASE ind <= j
    <3>1. e[j] = j
      BY Zenon, <1>10, <2>4
    <3>2. e[i] < j
      <4>1. CASE i < first
        BY SMTT(30), <1>7, <1>11, <1>12, <2>4, <4>1
      <4>2. CASE first <= i /\ i < mid
        BY SMTT(30), <1>8, <1>11, <1>12, <2>4, <4>2
      <4>3. CASE mid <= i /\ i < ind
        BY SMTT(30), <1>9, <1>11, <1>12, <2>4, <4>3
      <4>4. CASE ind <= i
        BY Zenon, <1>10, <4>4
      <4> QED BY SMTT(30), <1>11, <1>12, <4>1, <4>2, <4>3, <4>4
    <3> QED BY <1>11, <3>1, <3>2
  <2> QED BY SMTT(30), <1>11, <1>12, <2>1, <2>2, <2>3, <2>4
<1>14. \A i, j \in Indices :
         i < j /\ (j < mid \/ (mid <= i /\ j < ind) \/ ind <= i) => e[i] < e[j]
  <2> SUFFICES ASSUME NEW i \in Indices, NEW j \in Indices, i < j,
                      j < mid \/ (mid <= i /\ j < ind) \/ ind <= i
               PROVE  e[i] < e[j]
    BY Zenon
  <2>1. CASE j < first
    BY SMTT(30), <1>4, <1>7, <1>11, <1>12, <2>1
  <2>2. CASE first <= j /\ j < mid
    <3>1. CASE i < first
      BY SMTT(30), <1>7, <1>8, <1>11, <1>12, <2>2, <3>1
    <3>2. CASE first <= i
      BY SMTT(30), <1>8, <1>11, <1>12, <2>2, <3>2
    <3> QED BY SMTT(30), <1>11, <1>12, <3>1, <3>2
  <2>3. CASE mid <= i /\ j < ind
    <3>1. /\ first + (i - mid) < first + (j - mid)
          /\ mid <= j /\ i < ind /\ first <= first + (i - mid)
      BY <1>11, <1>12, <2>3
    <3> QED BY Zenon, <1>4, <1>9, <2>3, <3>1
  <2>4. CASE ind <= i
    BY SMTT(30), <1>10, <1>11, <1>12, <2>4
  <2> QED BY SMTT(30), <1>11, <1>12, <2>1, <2>2, <2>3, <2>4
<1>15. \A i \in Indices : i < ind => e[i] < ind
  <2> SUFFICES ASSUME NEW i \in Indices, i < ind PROVE e[i] < ind
    BY Zenon
  <2>1. CASE i < first
    BY SMTT(30), <1>7, <1>11, <1>12, <2>1
  <2>2. CASE first <= i /\ i < mid
    BY SMTT(30), <1>8, <1>11, <1>12, <2>2
  <2>3. CASE mid <= i
    BY SMTT(30), <1>9, <1>11, <1>12, <2>3
  <2> QED BY SMTT(30), <1>11, <1>12, <2>1, <2>2, <2>3
<1>16. Sane(Exchanged(g))
  BY SMTT(30), <1>2, <1>3, <1>10, <1>11, <1>12, <1>13, <1>14, <1>15
     DEF Sane, Scanned, InOrder, Untouched, Together
<1> QED
  BY Zenon, <1>3, <1>6, <1>16

\* The words may be taken to reach further, and words that are none yet to
\* start further on: behind last_nonopt everything is in place.
LEMMA Widened ==
  ASSUME argc \in Nat, NEW c, NEW g \in States(c), NEW h \in States(c),
         Scanned(g), h.argv = g.argv, g.last_nonopt <= h.last_nonopt,
         \/ h.first_nonopt = g.first_nonopt
         \/ g.first_nonopt = g.last_nonopt /\ g.last_nonopt <= h.first_nonopt,
         h.first_nonopt <= h.last_nonopt
  PROVE  Scanned(h)
<1> DEFINE a == g.argv
           last == g.last_nonopt
<1>1. /\ \A i \in Indices : a[i] \in Int /\ i \in Int
      /\ last \in Int /\ g.first_nonopt \in Int
      /\ h.last_nonopt \in Int /\ h.first_nonopt \in Int
  BY DEF States, Indices
<1>2. /\ \A i, j \in Indices : i < j => a[i] # a[j]
      /\ \A i, j \in Indices : i < j /\ Together(g, i, j) => a[i] < a[j]
      /\ \A i \in Indices : i >= last => a[i] = i
      /\ \A i \in Indices : i < last => a[i] < last
  BY Zenon DEF Scanned, InOrder, Untouched
<1>3. \A i, j \in Indices : i < j /\ j >= last => a[i] < a[j]
  BY <1>1, <1>2
<1>4. \A i, j \in Indices : i < j /\ Together(h, i, j) => a[i] < a[j]
  <2> SUFFICES ASSUME NEW i \in Indices, NEW j \in Indices, i < j,
                      Together(h, i, j), j < last
               PROVE  a[i] < a[j]
    BY <1>1, <1>3
  <2>1. Together(g, i, j)
    BY <1>1 DEF Together
  <2> QED BY Zenon, <1>2, <2>1
<1>5. Untouched(h)
  <2>1. \A i \in Indices : i >= h.last_nonopt => a[i] = i
    BY <1>1, <1>2
  <2>2. \A i \in Indices : i < h.last_nonopt => a[i] < h.last_nonopt
    BY <1>1, <1>2
  <2> QED BY Zenon, <2>1, <2>2 DEF Untouched
<1> QED
  BY Zenon, <1>2, <1>4, <1>5 DEF Scanned, InOrder

\* Moving the options before the words and skipping the next words.
LEMMA PermuteSane ==
  ASSUME argc \in Nat, NEW c, NEW g \in States(c), Sane(g)
  PROVE  Permute(g) \in States(c) /\ Sane(Permute(g))
<1> DEFINE x == g.first_nonopt # g.last_nonopt /\ g.last_nonopt # g.optind
           e == IF x THEN Exchanged(g)
                ELSE [g EXCEPT !.first_nonopt =
                         IF g.last_nonopt # g.optind THEN g.optind ELSE @]
           j == SkipTo(e.argv, e.optind)
           h == [e EXCEPT !.optind = j, !.last_nonopt = j]
<1>1. h = Permute(g)
  BY Zenon DEF Permute
<1>2. e \in States(c) /\ e.optind = g.optind
  BY Zenon, ExchangedSane DEF States
<1>3. j \in e.optind..argc /\ e.optind \in 1..argc
  BY Zenon, <1>2, SkipToType DEF States
<1>4. j \in 1..argc
  BY <1>3
<1> HIDE DEF j
<1>5. /\ h \in States(c)
      /\ h.argv = e.argv /\ h.first_nonopt = e.first_nonopt
      /\ h.last_nonopt = j /\ h.optind = j
      /\ Scanned(h) => Sane(h)
  <2>1. h = [e EXCEPT !.optind = j, !.last_nonopt = j]
    BY Zenon
  <2> HIDE DEF e, h
  <2>2. /\ h \in States(c)
        /\ h.argv = e.argv /\ h.first_nonopt = e.first_nonopt
        /\ h.last_nonopt = j /\ h.optind = j
    BY Zenon, <1>2, <1>4, <2>1 DEF States
  <2> QED BY <1>4, <2>2 DEF Sane
<1> HIDE DEF h
<1>6. CASE x
  <2>1. e \in States(c) /\ Sane(e)
    BY Zenon, <1>6, ExchangedSane
  <2> HIDE DEF e
  <2>2. e.last_nonopt <= j /\ e.first_nonopt <= j
    BY <2>1, <1>3 DEF States, Sane, Scanned
  <2>3. Scanned(h)
    BY ZenonT(30), <1>5, <2>1, <2>2, Widened DEF Sane
  <2> QED BY Zenon, <1>1, <1>5, <2>3
<1>7. CASE ~x
  <2>1. /\ e.argv = g.argv
        /\ e.first_nonopt = IF g.last_nonopt # g.optind THEN g.optind
                                                       ELSE g.first_nonopt
    BY Zenon, <1>7 DEF States
  <2> HIDE DEF e
  <2>2. /\ g.last_nonopt <= j /\ h.first_nonopt <= j
        /\ \/ h.first_nonopt = g.first_nonopt
           \/ g.first_nonopt = g.last_nonopt /\ g.last_nonopt <= h.first_nonopt
    BY SMTT(30), <1>2, <1>3, <1>5, <1>7, <2>1 DEF States, Sane, Scanned
  <2>3. Scanned(h)
    BY Zenon, <1>5, <2>1, <2>2, Widened DEF Sane
  <2> QED BY Zenon, <1>1, <1>5, <2>3
<1> QED
  BY Zenon, <1>6, <1>7

\* Skipping "--" and all that follows it.
LEMMA EndOfOptionsSane ==
  ASSUME argc \in Nat, NEW c, NEW g \in States(c), Sane(g)
  PROVE  EndOfOptions(g) \in States(c) /\ Sane(EndOfOptions(g))
<1>1. CASE ~(g.optind # argc /\ text[g.argv[g.optind]] = <<"-", "-">>)
  BY Zenon, <1>1 DEF EndOfOptions
<1>2. CASE g.optind # argc /\ text[g.argv[g.optind]] = <<"-", "-">>
  <2> DEFINE s == [g EXCEPT !.optind = @ + 1]
             x == s.first_nonopt # s.last_nonopt
             e == IF x THEN Exchanged(s) ELSE [s EXCEPT !.first_nonopt = s.optind]
             h == [e EXCEPT !.last_nonopt = argc, !.optind = argc]
  <2>0. argc \in 1..argc
    BY DEF States
  <2>1. h = EndOfOptions(g)
    BY <1>2 DEF EndOfOptions
  <2>2. /\ s \in States(c) /\ s.argv = g.argv /\ s.optind = g.optind + 1
        /\ s.first_nonopt = g.first_nonopt /\ s.last_nonopt = g.last_nonopt
    BY <1>2 DEF States
  <2>3. Sane(s)
    <3>1. s.last_nonopt <= s.optind
      BY <2>2 DEF States, Sane
    <3> QED BY Zenon, <2>2, <3>1 DEF Sane, Scanned, InOrder, Untouched, Together
  <2> HIDE DEF s
  <2>4. CASE x
    <3>1. e \in States(c) /\ Sane(e)
      BY Zenon, <2>2, <2>3, <2>4, ExchangedSane
    <3>2. /\ h \in States(c) /\ h.argv = e.argv
          /\ h.first_nonopt = e.first_nonopt
          /\ h.last_nonopt = argc /\ h.optind = argc
          /\ Scanned(h) => Sane(h)
      <4>1. h = [e EXCEPT !.last_nonopt = argc, !.optind = argc]
        BY Zenon
      <4> HIDE DEF e, h
      <4>2. /\ h \in States(c) /\ h.argv = e.argv
            /\ h.first_nonopt = e.first_nonopt
            /\ h.last_nonopt = argc /\ h.optind = argc
        BY Zenon, <2>0, <3>1, <4>1 DEF States
      <4> QED BY <4>2 DEF Sane
    <3> HIDE DEF e, h
    <3>3. e.last_nonopt <= argc /\ e.first_nonopt <= argc
      BY <3>1 DEF States
    <3>4. Scanned(h)
      BY ZenonT(30), <3>1, <3>2, <3>3, Widened DEF Sane
    <3> QED BY Zenon, <2>1, <3>2, <3>4
  <2>5. CASE ~x
    <3>1. /\ e \in States(c) /\ e.argv = s.argv /\ e.first_nonopt = s.optind
          /\ s.last_nonopt <= argc /\ s.optind <= argc
      BY SMTT(30), <2>2, <2>5 DEF States
    <3>2. /\ h \in States(c) /\ h.argv = e.argv
          /\ h.first_nonopt = e.first_nonopt
          /\ h.last_nonopt = argc /\ h.optind = argc
          /\ Scanned(h) => Sane(h)
      <4>1. h = [e EXCEPT !.last_nonopt = argc, !.optind = argc]
        BY Zenon
      <4> HIDE DEF e, h
      <4>2. /\ h \in States(c) /\ h.argv = e.argv
            /\ h.first_nonopt = e.first_nonopt
            /\ h.last_nonopt = argc /\ h.optind = argc
        BY Zenon, <2>0, <3>1, <4>1 DEF States
      <4> QED BY <4>2 DEF Sane
    <3> HIDE DEF e, h
    <3>3. s.first_nonopt = s.last_nonopt /\ s.last_nonopt <= h.first_nonopt
      BY Zenon, <2>3, <2>5, <3>1, <3>2 DEF Sane
    <3>4. Scanned(h)
      BY Zenon, <2>2, <2>3, <3>1, <3>2, <3>3, Widened DEF Sane
    <3> QED BY Zenon, <2>1, <3>2, <3>4
  <2> QED BY Zenon, <2>4, <2>5
<1> QED
  BY Zenon, <1>1, <1>2

\* Everything a call does before it looks at an option.
LEMMA ScanSane ==
  ASSUME GetoptInv, result.c # EOF
  PROVE  /\ Scan(Current) \in States(Scan(Current).nextchar)
         /\ Sane(Scan(Current))
         /\ Scan(Current).nextchar # NULL => Scan(Current).optind < argc
<1> DEFINE s == Start(Current)
<1>1. argc \in Nat \ {0} /\ DOMAIN text = Indices
  BY Zenon, ArgcType DEF GetoptInv
<1>2. s \in States(s.nextchar) /\ Sane(s) /\ (s.nextchar # NULL => s.optind < argc)
  <2>1. CASE optind = 0
    <3>1. s = [argv |-> argv, optind |-> 1, nextchar |-> NULL,
               first_nonopt |-> 1, last_nonopt |-> 1]
      BY Zenon, <2>1 DEF Start, Current
    <3>2. argv = [i \in Indices |-> i]
      <4>1. ~(Current \in States(nextchar))
        BY <2>1 DEF Current, States
      <4> QED BY Zenon, <1>1, <4>1 DEF GetoptInv, FreshArgv
    <3> HIDE DEF s
    <3>3. s \in States(NULL)
      BY SMTT(30), <1>1, <3>1, <3>2 DEF States, Indices
    <3>4. Sane(s)
      BY <1>1, <3>1, <3>2
         DEF Sane, Scanned, InOrder, Untouched, Together, Indices
    <3> QED BY Zenon, <3>1, <3>3, <3>4
  <2>2. CASE optind # 0
    <3>1. s = Current
      BY Zenon, <2>2 DEF Start, Current
    <3>2. Current.nextchar = nextchar /\ Current.optind = optind
      BY Zenon DEF Current
    <3> QED BY Zenon, <2>2, <3>1, <3>2 DEF GetoptInv
  <2> QED BY Zenon, <2>1, <2>2
<1> HIDE DEF s
<1>3. CASE s.nextchar # NULL
  BY Zenon, <1>2, <1>3 DEF Scan, s
<1>4. CASE s.nextchar = NULL
  <2> DEFINE q == IF posix THEN s ELSE Permute(s)
  <2>1. q \in States(NULL) /\ Sane(q)
    BY Zenon, <1>1, <1>2, <1>4, PermuteSane
  <2>2. Scan(Current) = EndOfOptions(q)
    BY Zenon, <1>4 DEF Scan, s
  <2> HIDE DEF q
  <2>3. EndOfOptions(q) \in States(NULL) /\ Sane(EndOfOptions(q))
    BY Zenon, <1>1, <2>1, EndOfOptionsSane
  <2>4. EndOfOptions(q).nextchar = NULL
    BY Zenon, <2>3 DEF States
  <2> QED BY Zenon, <2>2, <2>3, <2>4
<1> QED
  BY Zenon, <1>3, <1>4

\* Decoding an option moves optind forward and not past argc, and stops
\* within an element only when there is one.
LEMMA DecodeBounds ==
  ASSUME argc \in Nat, NEW c, NEW g \in States(c), g.optind < argc
  PROVE  /\ Decode(g).optind \in g.optind..argc
         /\ Decode(g).nextchar # NULL => Decode(g).optind < argc
<1>1. ASSUME NEW n, n.optind = g.optind
      PROVE  /\ LongOption(n).optind \in g.optind..argc
             /\ LongOption(n).nextchar = NULL
  BY SMTT(30), <1>1 DEF LongOption, Decoded, States
<1>2. ASSUME NEW n, n.optind = g.optind
      PROVE  /\ ShortOption(n).optind \in g.optind..argc
             /\ ShortOption(n).nextchar # NULL => ShortOption(n).optind < argc
  BY <1>2 DEF ShortOption, Decoded, States, NULL
<1>3. ASSUME NEW v PROVE [g EXCEPT !.nextchar = v].optind = g.optind
  BY Zenon DEF States
<1> QED
  BY Zenon, <1>1, <1>2, <1>3 DEF Decode

\* OrderKept is InOrder of the state of the parser.
LEMMA OrderKeptIsInOrder ==
  ASSUME NEW c, Current \in States(c)
  PROVE  OrderKept <=> InOrder(Current)
  BY Zenon DEF OrderKept, InOrder, Together, Current, States, Indices

\* Every call keeps the invariant.
LEMMA CallKeeps ==
  ASSUME GetoptInv, [Next]_getoptVars
  PROVE  GetoptInv'
<1> DEFINE g == Scan(Current)
<1>1. CASE UNCHANGED getoptVars
  BY <1>1 DEF getoptVars, GetoptInv, OrderKept, Current, States, Sane, Scanned,
     InOrder, Untouched, Together, Indices, argc
<1>2. CASE Next
  <2>1. result.c # EOF /\ text' = text /\ argc' = argc
    BY Zenon, <1>2 DEF Next, getopt_long, ReturnEof, ReturnAtWord, ReturnOption, argc
  <2>2. argc \in Nat \ {0}
    BY Zenon, ArgcType DEF GetoptInv
  <2>3. /\ g \in States(g.nextchar) /\ Sane(g)
        /\ g.nextchar # NULL => g.optind < argc
    BY Zenon, <2>1, ScanSane
  <2>4. /\ argv' = g.argv /\ first_nonopt' = g.first_nonopt
        /\ last_nonopt' = g.last_nonopt
    BY Zenon, <1>2 DEF Next, getopt_long, ReturnEof, ReturnAtWord, ReturnOption, Install
  <2>5. OrderKept'
    BY SMTT(30), <2>1, <2>3, <2>4 DEF OrderKept, Sane, Scanned, InOrder, Together, States,
       Indices
  <2>6. CASE ReturnEof \/ ReturnAtWord
    BY <2>1, <2>5, <2>6 DEF ReturnEof, ReturnAtWord, GetoptInv
  <2>7. CASE ReturnOption
    <3>1. g.optind < argc
      BY <2>2, <2>3, <2>7 DEF ReturnOption, States
    <3>2. optind' = Decode(g).optind /\ nextchar' = Decode(g).nextchar
      BY Zenon, <2>7 DEF ReturnOption
    <3>3. optind' \in g.optind..argc /\ (nextchar' # NULL => optind' < argc)
      BY Zenon, <2>2, <2>3, <3>1, <3>2, DecodeBounds
    <3>4. Current' = [argv |-> g.argv, optind |-> optind', nextchar |-> nextchar',
                      first_nonopt |-> g.first_nonopt,
                      last_nonopt |-> g.last_nonopt]
      BY Zenon, <2>4 DEF Current
    <3> HIDE DEF g
    <3>5. (Current \in States(nextchar))'
      BY SMTT(30), <2>1, <2>2, <2>3, <3>3, <3>4 DEF States, Indices
    <3>6. Sane(Current)'
      BY SMTT(30), <2>1, <2>2, <2>3, <3>3, <3>4
         DEF Sane, Scanned, InOrder, Untouched, Together, States, Indices
    <3> QED BY Zenon, <2>1, <2>5, <3>3, <3>5, <3>6 DEF GetoptInv
  <2> QED BY Zenon, <1>2, <2>6, <2>7 DEF Next, getopt_long
<1> QED
  BY Zenon, <1>1, <1>2

\* No call of getopt_long loses or doubles a string of argv, and none changes
\* the order within what stands before the skipped words, within these words,
\* or within what follows them.
THEOREM AlwaysOrderKept == Spec => []OrderKept
<1>1. Init => GetoptInv
  BY DEF Init, GetoptInv, NoResult, EOF
<1>2. GetoptInv => OrderKept
  <2> SUFFICES ASSUME GetoptInv, ~OrderKept PROVE FALSE
    BY Zenon
  <2>1. argc \in Nat \ {0} /\ DOMAIN text = Indices
    BY Zenon, ArgcType DEF GetoptInv
  <2>2. argv = [i \in Indices |-> i]
    BY Zenon, <2>1 DEF GetoptInv, FreshArgv
  <2> QED BY <2>1, <2>2 DEF OrderKept, Indices
<1>3. GetoptInv /\ [Next]_getoptVars => GetoptInv'
  BY Zenon, CallKeeps
<1> QED
  BY <1>1, <1>2, <1>3, PTL DEF Spec

----------------------------------------------------------------------------
(* Induction along an interval.                                            *)

\* A nonempty set of naturals has a least element.
LEMMA Least ==
  ASSUME NEW T, T \subseteq Nat, T # {}
  PROVE  \E m \in T : \A k \in T : m <= k
<1> DEFINE R == OpToRel(<, Nat)
<1>1. IsWellFoundedOn(R, Nat)
  BY NatLessThanWellFounded, Zenon
<1>2. \A k, m \in Nat : k < m => <<k, m>> \in R
  BY Zenon DEF OpToRel
<1> HIDE DEF R
<1>3. PICK m \in T : \A k \in T : ~(<<k, m>> \in R)
  BY <1>1, WFMin, Zenon
<1>4. \A k \in T : ~(k < m)
  BY <1>2, <1>3, Zenon
<1>5. \A k \in T : m <= k
  BY <1>4
<1> QED BY Zenon, <1>5

\* What holds at b and goes on from each number to the next holds up to n.
LEMMA Upward ==
  ASSUME NEW b \in Nat, NEW n \in Int, NEW T, b \in T,
         \A k \in b..(n - 1) : k \in T => k + 1 \in T
  PROVE  b..n \subseteq T
<1> SUFFICES ASSUME (b..n) \ T # {} PROVE FALSE
  BY Zenon
<1> DEFINE X == (b..n) \ T
<1>1. PICK m \in X : \A k \in X : m <= k
  <2>1. X \subseteq Nat /\ X # {}
    OBVIOUS
  <2> HIDE DEF X
  <2> QED BY <2>1, Least, Zenon
<1>2. m - 1 \in b..(n - 1) /\ m - 1 \in b..n /\ ~(m <= m - 1) /\ (m - 1) + 1 = m
  BY <1>1
<1> QED BY Zenon, <1>1, <1>2

\* f is a at b, and each later value comes from the one before it.
Recursive(f, b, n, a, G) ==
  f = [i \in b..n |-> IF i = b THEN a ELSE G[<<i, f[i - 1]>>]]

\* A function defined by recursion on b..n exists.
LEMMA RecursiveExists ==
  ASSUME NEW b \in Nat, NEW n \in Nat, b <= n, NEW S, NEW a \in S, NEW G \in [(b..n) \X S -> S]
  PROVE  \E f \in [b..n -> S] : Recursive(f, b, n, a, G)
<1> DEFINE T == {k \in b..n : \E f \in [b..k -> S] : Recursive(f, b, k, a, G)}
<1>1. b \in T
  <2> DEFINE h == [i \in b..b |-> a]
  <2>1. h \in [b..b -> S] /\ h = [i \in b..b |-> IF i = b THEN a ELSE G[<<i, h[i - 1]>>]]
    OBVIOUS
  <2> HIDE DEF h
  <2>2. Recursive(h, b, b, a, G) /\ b \in b..n
    BY <2>1 DEF Recursive
  <2> QED BY <2>1, <2>2, Zenon
<1>2. ASSUME NEW k \in b..(n - 1), k \in T PROVE k + 1 \in T
  <2>1. PICK f \in [b..k -> S] : Recursive(f, b, k, a, G)
    BY Zenon, <1>2
  <2>2. \A i \in b..k : f[i] = IF i = b THEN a ELSE G[<<i, f[i - 1]>>]
    BY Zenon, <2>1 DEF Recursive
  <2> DEFINE h == [i \in b..(k + 1) |-> IF i = k + 1 THEN G[<<k + 1, f[k]>>] ELSE f[i]]
  <2>3. h \in [b..(k + 1) -> S]
    OBVIOUS
  <2>a. h[k + 1] = G[<<k + 1, f[k]>>] /\ \A i \in b..k : h[i] = f[i]
    OBVIOUS
  <2> HIDE DEF h
  <2>4. ASSUME NEW i \in b..(k + 1) PROVE h[i] = IF i = b THEN a ELSE G[<<i, h[i - 1]>>]
    <3>1. CASE i = k + 1
      <4>1. i # b /\ i - 1 = k /\ k \in b..k
        BY <3>1
      <4> QED BY <2>a, <3>1, <4>1, Zenon
    <3>2. CASE i # k + 1
      <4>1. i \in b..k /\ (i # b => i - 1 \in b..k)
        BY <3>2
      <4> QED BY <2>2, <2>a, <4>1, Zenon
    <3> QED BY Zenon, <3>1, <3>2
  <2>5. h = [i \in b..(k + 1) |-> IF i = b THEN a ELSE G[<<i, h[i - 1]>>]]
    BY Zenon, <2>3, <2>4
  <2>6. Recursive(h, b, k + 1, a, G)
    BY Zenon, <2>5 DEF Recursive
  <2>7. \E e \in [b..(k + 1) -> S] : Recursive(e, b, k + 1, a, G)
    BY <2>3, <2>6, Zenon
  <2>8. k + 1 \in b..n
    OBVIOUS
  <2> QED BY <2>7, <2>8, Zenon
<1> HIDE DEF T
<1>3. n \in T
  <2>1. b..n \subseteq T
    <3>1. \A k \in b..(n - 1) : k \in T => k + 1 \in T
      BY Zenon, <1>2
    <3>2. n \in Int
      OBVIOUS
    <3> QED BY <1>1, <3>1, <3>2, Upward, Zenon
  <2> QED BY <2>1
<1> QED BY Zenon, <1>3 DEF T

----------------------------------------------------------------------------
(* The roles of the strings.                                               *)

RoleNames == {"program", "option", "argument", "end", "word", "rest"}

\* Roles is the function its definition describes.
LEMMA RolesUnfold ==
  ASSUME NEW t, NEW px, NEW n \in Nat, DOMAIN t = 0..n
  PROVE  /\ Roles(t, px) \in [0..n -> RoleNames]
         /\ Roles(t, px)[0] = "program"
         /\ \A i \in 1..n : Roles(t, px)[i] = Role(t, px, i, Roles(t, px)[i - 1])
<1> DEFINE G == [x \in (0..n) \X RoleNames |-> Role(t, px, x[1], x[2])]
           F(f) == [i \in 0..n |-> IF i = 0 THEN "program" ELSE Role(t, px, i, f[i - 1])]
<1>1. \A i, p : Role(t, px, i, p) \in RoleNames
  BY Zenon DEF Role, RoleNames
<1>2. G \in [(0..n) \X RoleNames -> RoleNames] /\ "program" \in RoleNames
  BY Zenon, <1>1 DEF RoleNames
<1>3. PICK f \in [0..n -> RoleNames] : Recursive(f, 0, n, "program", G)
  <2> HIDE DEF G
  <2>1. 0 \in Nat /\ 0 <= n
    OBVIOUS
  <2> QED BY <1>2, <2>1, RecursiveExists, Zenon
<1>4. f = F(f)
  <2>1. f = [i \in 0..n |-> IF i = 0 THEN "program" ELSE G[<<i, f[i - 1]>>]]
    BY <1>3, Zenon DEF Recursive
  <2>2. \A i \in 0..n : i # 0 => G[<<i, f[i - 1]>>] = Role(t, px, i, f[i - 1])
    <3>1. \A i \in 0..n : i # 0 => f[i - 1] \in RoleNames
      OBVIOUS
    <3> QED BY Zenon, <3>1
  <2> HIDE DEF G
  <2> QED BY Zenon, <2>1, <2>2
<1>5. Roles(t, px) = CHOOSE g : g = F(g)
  BY Zenon DEF Roles
<1>6. Roles(t, px) = F(Roles(t, px))
  BY <1>4, <1>5, Zenon
<1> DEFINE r == Roles(t, px)
<1> HIDE DEF r
<1>7. r = [i \in 0..n |-> IF i = 0 THEN "program" ELSE Role(t, px, i, r[i - 1])]
  BY <1>6, Zenon DEF r
<1>8. r[0] = "program" /\ \A i \in 1..n : r[i] = Role(t, px, i, r[i - 1])
  BY <1>7
<1>9. \A i \in 0..n : r[i] \in RoleNames
  BY <1>1, <1>7 DEF RoleNames
<1>10. r \in [0..n -> RoleNames]
  <2>1. r = [i \in 0..n |-> r[i]]
    BY Zenon, <1>7
  <2> QED BY Zenon, <1>9, <2>1
<1> QED BY Zenon, <1>8, <1>10 DEF r

\* What each string of the present line is.
role == Roles(text, posix)

\* The string at index i begins anew: it is neither an argument nor behind the
\* end of the options.
Fresh(i) ==
  /\ role[i - 1] \notin {"end", "rest"}
  /\ ~(role[i - 1] = "word" /\ posix)
  /\ ~(role[i - 1] = "option" /\ TakesNext(text[i - 1]))

\* What the string at i is, by the one before it.
LEMMA RoleFacts ==
  ASSUME text \in CommandLines
  PROVE  /\ role[0] = "program"
         /\ \A i \in 1..(argc - 1) :
              /\ Fresh(i) => role[i] = IF text[i] = <<"-", "-">> THEN "end"
                                       ELSE IF NonOption(text[i]) THEN "word"
                                       ELSE "option"
              /\ role[i - 1] \in {"end", "rest"} => role[i] = "rest"
              /\ role[i - 1] = "word" /\ posix => role[i] = "rest"
              /\ role[i - 1] = "option" /\ TakesNext(text[i - 1]) => role[i] = "argument"
<1>1. argc - 1 \in Nat /\ DOMAIN text = 0..(argc - 1)
  BY ArgcType DEF Indices
<1>2. /\ role[0] = "program"
      /\ \A i \in 1..(argc - 1) : role[i] = Role(text, posix, i, role[i - 1])
  BY Zenon, <1>1, RolesUnfold DEF role
<1>3. ASSUME NEW i \in 1..(argc - 1)
      PROVE  /\ Fresh(i) => role[i] = IF text[i] = <<"-", "-">> THEN "end"
                                       ELSE IF NonOption(text[i]) THEN "word"
                                       ELSE "option"
             /\ role[i - 1] \in {"end", "rest"} => role[i] = "rest"
             /\ role[i - 1] = "word" /\ posix => role[i] = "rest"
             /\ role[i - 1] = "option" /\ TakesNext(text[i - 1]) => role[i] = "argument"
  <2>1. role[i] = Role(text, posix, i, role[i - 1])
    BY Zenon, <1>2
  <2> DEFINE p == role[i - 1]
             q == role[i]
  <2>2. q = Role(text, posix, i, p)
    BY Zenon, <2>1
  <2> HIDE DEF p, q
  <2> QED BY <2>2, Zenon DEF Role, Fresh, p, q
<1> QED BY Zenon, <1>2, <1>3

\* "--" is no word.
LEMMA EndIsNoWord == ~NonOption(<<"-", "-">>)
<1> DEFINE s == <<"-", "-">>
<1>1. Len(s) > 1 /\ s[1] = "-"
  OBVIOUS
<1> HIDE DEF s
<1>2. ~NonOption(s)
  BY Zenon, <1>1 DEF NonOption
<1> QED BY Zenon, <1>2 DEF s

\* Words that follow each other where a string begins anew are words, and behind
\* them a string begins anew.
LEMMA WordsAreWords ==
  ASSUME text \in CommandLines, ~posix, NEW i \in 1..argc, NEW j \in i..argc,
         i < argc => Fresh(i), \A l \in i..(j - 1) : NonOption(text[l])
  PROVE  /\ \A l \in i..(j - 1) : role[l] = "word"
         /\ j < argc => Fresh(j)
<1>1. argc \in Nat
  BY Zenon, ArgcType
<1> DEFINE T == {k \in i..j : k < argc => Fresh(k)}
<1>2. ASSUME NEW k \in i..(j - 1), k \in T PROVE role[k] = "word" /\ k + 1 \in T
  <2>1. k \in 1..(argc - 1) /\ k + 1 \in i..j /\ (k + 1) - 1 = k /\ Fresh(k)
    BY <1>1, <1>2
  <2>2. NonOption(text[k])
    BY Zenon
  <2>3. text[k] # <<"-", "-">>
    BY <2>2, EndIsNoWord, Zenon
  <2>4. role[k] = "word"
    BY Zenon, <2>1, <2>2, <2>3, RoleFacts
  <2>5. Fresh(k + 1)
    BY Zenon, <2>1, <2>4 DEF Fresh
  <2> QED BY Zenon, <2>1, <2>4, <2>5
<1>3. i \in T
  OBVIOUS
<1>4. i..j \subseteq T
  <2>1. \A k \in i..(j - 1) : k \in T => k + 1 \in T
    BY Zenon, <1>2
  <2>2. i \in Nat /\ j \in Int
    BY <1>1
  <2> HIDE DEF T
  <2> QED BY Zenon, <1>3, <2>1, <2>2, Upward
<1>5. \A l \in i..(j - 1) : l \in T
  BY <1>4
<1>6. j \in T
  BY <1>4
<1> HIDE DEF T
<1>7. \A l \in i..(j - 1) : role[l] = "word"
  BY Zenon, <1>2, <1>5
<1> QED BY Zenon, <1>6, <1>7 DEF T

\* Behind "--", or behind the first word with POSIXLY_CORRECT, all are words.
LEMMA RestFollows ==
  ASSUME text \in CommandLines, NEW i \in Indices,
         role[i] = "end" \/ (role[i] = "word" /\ posix)
  PROVE  \A l \in (i + 1)..(argc - 1) : role[l] = "rest"
<1>1. argc \in Nat /\ i \in Nat
  BY ArgcType DEF Indices
<1> DEFINE T == {k \in (i + 1)..(argc - 1) : role[k] = "rest"}
<1>2. ASSUME (i + 1)..(argc - 1) # {} PROVE i + 1 \in T
  <2>1. i + 1 \in 1..(argc - 1) /\ (i + 1) - 1 = i /\ i + 1 \in (i + 1)..(argc - 1)
    BY <1>1, <1>2
  <2> QED BY Zenon, <2>1, RoleFacts
<1>3. ASSUME NEW k \in (i + 1)..((argc - 1) - 1), k \in T PROVE k + 1 \in T
  <2>1. k + 1 \in 1..(argc - 1) /\ (k + 1) - 1 = k /\ k + 1 \in (i + 1)..(argc - 1)
    BY <1>1
  <2>2. role[k] = "rest"
    BY Zenon, <1>3
  <2> QED BY Zenon, <2>1, <2>2, RoleFacts
<1>4. ASSUME (i + 1)..(argc - 1) # {} PROVE (i + 1)..(argc - 1) \subseteq T
  <2>1. \A k \in (i + 1)..((argc - 1) - 1) : k \in T => k + 1 \in T
    BY Zenon, <1>3
  <2>2. i + 1 \in Nat /\ argc - 1 \in Int
    BY <1>1
  <2>3. i + 1 \in T
    BY Zenon, <1>2, <1>4
  <2> HIDE DEF T
  <2> QED BY <2>1, <2>2, <2>3, Upward, Zenon
<1> QED BY Zenon, <1>4

\* The loop over the words passes words, and stops at the first string that is
\* none.
LEMMA SkipToStops ==
  ASSUME argc \in Nat, NEW a, NEW i \in 1..argc
  PROVE  /\ SkipTo(a, i) \in i..argc
         /\ \A l \in i..(SkipTo(a, i) - 1) : NonOption(text[a[l]])
         /\ SkipTo(a, i) < argc => ~NonOption(text[a[SkipTo(a, i)]])
<1> DEFINE K == {k \in i..(argc - 1) : \A l \in i..k : NonOption(text[a[l]])}
           X == (i..argc) \ K
<1>1. PICK m \in X : \A k \in X : m <= k
  <2>1. X \subseteq Nat /\ argc \in X
    OBVIOUS
  <2> HIDE DEF X
  <2> QED BY <2>1, Least, Zenon
<1>2. m \in i..argc /\ m \notin K
  BY Zenon
<1>3. \A k \in i..(m - 1) : k \in K
  <2> SUFFICES ASSUME NEW k \in i..(m - 1), k \notin K PROVE FALSE
    BY Zenon
  <2>1. k \in i..argc /\ ~(m <= k)
    BY <1>2
  <2>2. k \in X
    BY Zenon, <2>1
  <2> QED BY Zenon, <1>1, <2>1, <2>2
<1>4. K \subseteq i..(m - 1)
  <2> SUFFICES ASSUME NEW k \in K, k \notin i..(m - 1) PROVE FALSE
    BY Zenon
  <2>1. m <= k /\ m \in i..(argc - 1) /\ \A l \in i..m : l \in i..k
    BY <1>2
  <2>2. m \in K
    BY Zenon, <2>1
  <2> QED BY Zenon, <1>2, <2>2
<1>5. K = i..(m - 1)
  BY Zenon, <1>3, <1>4
<1>6. \A l \in i..(m - 1) : NonOption(text[a[l]])
  <2> SUFFICES ASSUME NEW l \in i..(m - 1) PROVE NonOption(text[a[l]])
    BY Zenon
  <2>1. l \in i..l
    <3> HIDE DEF K, X
    <3> QED BY <1>2
  <2> QED BY Zenon, <1>3, <2>1
<1>7. m < argc => ~NonOption(text[a[m]])
  <2> SUFFICES ASSUME m < argc, NonOption(text[a[m]]) PROVE FALSE
    BY Zenon
  <2>1. \A l \in i..m : l \in i..(m - 1) \/ l = m
    BY <1>2
  <2>2. \A l \in i..m : NonOption(text[a[l]])
    BY Zenon, <1>6, <2>1
  <2>3. m \in i..(argc - 1)
    BY <1>2
  <2> QED BY Zenon, <1>2, <2>2, <2>3
<1>8. Cardinality(i..(m - 1)) = m - i
  <2>1. i \in Int /\ m - 1 \in Int /\ i <= m /\ m \in Int
    BY <1>2
  <2>2. Cardinality(i..(m - 1)) = IF i > m - 1 THEN 0 ELSE (m - 1) - i + 1
    BY Zenon, <2>1, FS_Interval
  <2> QED BY <2>1, <2>2
<1>9. SkipTo(a, i) = m
  <2>1. SkipTo(a, i) = i + Cardinality(K)
    BY Zenon DEF SkipTo
  <2>2. i + (m - i) = m
    BY <1>2
  <2> HIDE DEF K
  <2> QED BY Zenon, <1>5, <1>8, <2>1, <2>2
<1> HIDE DEF K, X
<1> QED BY Zenon, <1>2, <1>6, <1>7, <1>9

\* The words among the strings before optind are those that were skipped.
WordsSkipped(g) ==
  \A i \in Indices : i < g.optind =>
    (role[g.argv[i]] \in {"word", "rest"} <=> g.first_nonopt <= i /\ i < g.last_nonopt)

\* An exchange keeps track of the words it moves.
LEMMA ExchangedWords ==
  ASSUME argc \in Nat, NEW c, NEW g \in States(c), Sane(g), WordsSkipped(g)
  PROVE  WordsSkipped(Exchanged(g))
<1> DEFINE a == g.argv
           first == g.first_nonopt
           last == g.last_nonopt
           ind == g.optind
           mid == first + (ind - last)
           e == exchange(a, first, last, ind)
<1>1. /\ a \in [Indices -> Indices] /\ first \in 1..argc
      /\ last \in first..argc /\ ind \in last..argc
  BY DEF States, Sane, Scanned
<1>2. /\ Exchanged(g).argv = e
      /\ Exchanged(g).first_nonopt = mid
      /\ Exchanged(g).last_nonopt = ind
      /\ Exchanged(g).optind = ind
  BY Zenon DEF Exchanged, States
<1>3. \A i \in Indices :
           /\ first <= i /\ i < mid =>
                last + (i - first) \in Indices /\ e[i] = a[last + (i - first)]
           /\ mid <= i /\ i < ind =>
                first + (i - mid) \in Indices /\ e[i] = a[first + (i - mid)]
           /\ i < first \/ ind <= i => e[i] = a[i]
  BY Zenon, <1>1, ExchangeMovesBlocks
<1>4. \A i \in Indices : i < ind =>
        (role[a[i]] \in {"word", "rest"} <=> first <= i /\ i < last)
  BY Zenon DEF WordsSkipped
<1>5. /\ first \in Int /\ last \in Int /\ ind \in Int /\ mid \in Int
      /\ first <= last /\ last <= ind /\ first <= mid /\ mid <= ind
      /\ mid - first = ind - last /\ ind - mid = last - first
      /\ \A i \in Indices : i \in Int
  <2> HIDE DEF a, first, last, ind, e
  <2>1. first \in Int /\ last \in Int /\ ind \in Int /\ first <= last /\ last <= ind
    BY <1>1
  <2>2. \A i \in Indices : i \in Int
    BY DEF Indices
  <2> QED BY <2>1, <2>2
<1> HIDE DEF a, first, last, ind, mid, e
<1>6. ASSUME NEW i \in Indices, i < ind
      PROVE  role[e[i]] \in {"word", "rest"} <=> mid <= i /\ i < ind
  <2>1. CASE i < first
    <3>1. e[i] = a[i] /\ ~(mid <= i) /\ ~(first <= i)
      BY SMTT(30), <1>3, <1>5, <2>1
    <3> QED BY <1>4, <1>6, <3>1, Zenon
  <2>2. CASE first <= i /\ i < mid
    <3> DEFINE k == last + (i - first)
    <3>1. k \in Indices /\ e[i] = a[k]
      BY Zenon, <1>3, <2>2
    <3>2. k < ind /\ ~(k < last) /\ ~(mid <= i)
      BY <1>5, <2>2
    <3> HIDE DEF k
    <3> QED BY <1>4, <3>1, <3>2, Zenon
  <2>3. CASE mid <= i
    <3> DEFINE k == first + (i - mid)
    <3>1. k \in Indices /\ e[i] = a[k]
      BY Zenon, <1>3, <1>6, <2>3
    <3>2. k < ind /\ k < last /\ first <= k
      BY SMTT(30), <1>5, <1>6, <2>3
    <3> HIDE DEF k
    <3> QED BY <1>4, <1>6, <2>3, <3>1, <3>2, ZenonT(30)
  <2> QED BY SMTT(30), <1>5, <2>1, <2>2, <2>3
<1> QED BY <1>2, <1>6, Zenon DEF WordsSkipped

\* A character of an option string that takes an argument.
Takes(x) == x \in DOMAIN ShortOpts /\ ShortOpts[x] # "no"

\* c is what is left of a group s of short options, none of which has taken an
\* argument so far.
LeftOf(s, c, k) ==
  /\ k \in 2..Len(s) /\ c = SubSeq(s, k, Len(s))
  /\ \A l \in 2..(k - 1) : ~Takes(s[l])

\* Where the parser stands: before a string that begins anew, or in a group.
AtString(g) ==
  IF g.nextchar = NULL THEN g.optind < argc => Fresh(g.optind)
  ELSE /\ g.optind < argc /\ role[g.optind] = "option"
       /\ ~IsLong(text[g.optind])
       /\ \E k \in Nat : LeftOf(text[g.optind], g.nextchar, k)

\* Before a call: what has been read is what the line means.
Tracked(g) ==
  /\ WordsSkipped(g) /\ AtString(g)
  /\ posix => g.first_nonopt = g.last_nonopt

\* Permute keeps track of the words it skips.
LEMMA PermuteTracked ==
  ASSUME text \in CommandLines, ~posix, NEW g \in States(NULL), Sane(g), Tracked(g)
  PROVE  LET h == Permute(g)
         IN /\ WordsSkipped(h) /\ h.last_nonopt = h.optind
            /\ h.optind < argc => Fresh(h.optind) /\ ~NonOption(text[h.optind])
<1> DEFINE x == g.first_nonopt # g.last_nonopt /\ g.last_nonopt # g.optind
           e == IF x THEN Exchanged(g)
                ELSE [g EXCEPT !.first_nonopt =
                         IF g.last_nonopt # g.optind THEN g.optind ELSE @]
           j == SkipTo(e.argv, e.optind)
           h == [e EXCEPT !.optind = j, !.last_nonopt = j]
<1>0. argc \in Nat
  BY Zenon, ArgcType
<1>1. h = Permute(g)
  BY Zenon DEF Permute
<1>2. e \in States(NULL) /\ e.optind = g.optind
  BY Zenon, <1>0, ExchangedSane DEF States
<1>3. /\ WordsSkipped(e)
      /\ e.last_nonopt = e.optind \/ e.first_nonopt = e.optind
      /\ e.first_nonopt <= e.optind
      /\ \A i \in Indices : i >= e.optind => e.argv[i] = i
  <2>1. CASE x
    <3>1. /\ e = Exchanged(g) /\ WordsSkipped(Exchanged(g)) /\ Sane(Exchanged(g))
          /\ Exchanged(g) \in States(NULL) /\ Exchanged(g).optind = g.optind
      BY Zenon, <1>0, <2>1, ExchangedSane, ExchangedWords DEF Tracked
    <3>2. Exchanged(g).last_nonopt = g.optind
      BY Zenon DEF Exchanged, States
    <3> HIDE DEF e
    <3>3. \A i \in Indices : i >= e.optind => e.argv[i] = i
      BY Zenon, <3>1, <3>2 DEF Sane, Scanned, Untouched
    <3>4. e.first_nonopt <= e.optind
      BY Zenon, <3>1, <3>2 DEF Sane, Scanned
    <3> QED BY Zenon, <3>1, <3>2, <3>3, <3>4
  <2>2. CASE ~x
    <3>1. /\ e.argv = g.argv /\ e.last_nonopt = g.last_nonopt
          /\ e.first_nonopt = IF g.last_nonopt # g.optind THEN g.optind
                                                         ELSE g.first_nonopt
      BY Zenon, <2>2 DEF States
    <3>2. /\ g.optind \in Int /\ g.first_nonopt \in Int /\ g.last_nonopt \in Int
          /\ g.first_nonopt <= g.last_nonopt /\ g.last_nonopt <= g.optind
          /\ \A i \in Indices : i \in Int
          /\ \A i \in Indices : i >= g.last_nonopt => g.argv[i] = i
          /\ \A i \in Indices : i < g.optind =>
               (role[g.argv[i]] \in {"word", "rest"} <=> g.first_nonopt <= i /\ i < g.last_nonopt)
      BY DEF States, Sane, Scanned, Untouched, Tracked, WordsSkipped, Indices
    <3> HIDE DEF e
    <3>3. CASE g.last_nonopt # g.optind
      <4>1. e.first_nonopt = g.optind /\ g.first_nonopt = g.last_nonopt
        BY Zenon, <2>2, <3>1, <3>3
      <4>2. \A i \in Indices : i < e.optind =>
              (role[e.argv[i]] \in {"word", "rest"} <=> e.first_nonopt <= i /\ i < e.last_nonopt)
        <5>1. \A i \in Indices : i < g.optind =>
                ~(g.first_nonopt <= i /\ i < g.last_nonopt) /\ ~(g.optind <= i)
          BY SMTT(30), <3>2, <4>1
        <5> QED BY <1>2, <3>1, <3>2, <4>1, <5>1, ZenonT(30)
      <4>3. \A i \in Indices : i >= e.optind => e.argv[i] = i
        BY SMTT(30), <1>2, <3>1, <3>2
      <4>4. e.first_nonopt <= e.optind
        BY SMTT(30), <1>2, <3>2, <4>1
      <4> QED BY ZenonT(30), <1>2, <4>1, <4>2, <4>3, <4>4 DEF WordsSkipped
    <3>4. CASE g.last_nonopt = g.optind
      <4>1. e.first_nonopt = g.first_nonopt
        BY Zenon, <3>1, <3>4
      <4> QED BY ZenonT(30), <1>2, <3>1, <3>2, <3>4, <4>1 DEF WordsSkipped
    <3> QED BY Zenon, <3>3, <3>4
  <2> QED BY Zenon, <2>1, <2>2
<1> HIDE DEF e, x
<1>4. /\ j \in e.optind..argc /\ e.optind \in 1..argc
      /\ \A l \in e.optind..(j - 1) : NonOption(text[e.argv[l]])
      /\ j < argc => ~NonOption(text[e.argv[j]])
  <2>1. e.optind \in 1..argc
    BY Zenon, <1>2 DEF States
  <2> QED BY Zenon, <1>0, <2>1, SkipToStops
<1> HIDE DEF j
<1>5. /\ h.argv = e.argv /\ h.first_nonopt = e.first_nonopt
      /\ h.last_nonopt = j /\ h.optind = j
  BY Zenon, <1>2 DEF States
<1> HIDE DEF h
<1>6. \A l \in Indices : l \in e.optind..(j - 1) => e.argv[l] = l
  BY SMTT(30), <1>3, <1>4 DEF Indices
<1>7. \A l \in e.optind..(j - 1) : l \in Indices
  BY <1>0, <1>4 DEF Indices
<1>8. \A l \in e.optind..(j - 1) : NonOption(text[l])
  BY Zenon, <1>4, <1>6, <1>7
<1>9. e.optind < argc => Fresh(e.optind)
  BY Zenon, <1>2 DEF Tracked, AtString, States
<1>10. /\ \A l \in e.optind..(j - 1) : role[l] = "word"
       /\ j < argc => Fresh(j)
  BY Zenon, <1>4, <1>8, <1>9, WordsAreWords
<1>11. WordsSkipped(h)
  <2> SUFFICES ASSUME NEW i \in Indices, i < j
               PROVE  role[e.argv[i]] \in {"word", "rest"} <=> e.first_nonopt <= i /\ i < j
    BY Zenon, <1>5 DEF WordsSkipped
  <2>1. i \in Int /\ e.first_nonopt \in Int /\ e.optind \in Int
    BY <1>2 DEF Indices, States
  <2>2. CASE i < e.optind
    <3>1. role[e.argv[i]] \in {"word", "rest"} <=> e.first_nonopt <= i /\ i < e.last_nonopt
      BY Zenon, <1>3, <2>2 DEF WordsSkipped
    <3>2. e.first_nonopt <= i => i < e.last_nonopt
      BY SMTT(30), <1>3, <2>1, <2>2
    <3> QED BY Zenon, <3>1, <3>2
  <2>3. CASE ~(i < e.optind)
    <3>1. i \in e.optind..(j - 1) /\ e.first_nonopt <= i
      BY SMTT(30), <1>3, <1>4, <2>1, <2>3
    <3> QED BY Zenon, <1>6, <1>10, <3>1
  <2> QED BY Zenon, <2>2, <2>3
<1>12. j < argc => e.argv[j] = j
  BY SMTT(30), <1>0, <1>3, <1>4 DEF Indices
<1> QED BY ZenonT(30), <1>1, <1>4, <1>5, <1>10, <1>11, <1>12

\* "--" is no word, and all behind it are.
LEMMA EndTracked ==
  ASSUME text \in CommandLines, NEW g \in States(NULL), Sane(g), WordsSkipped(g),
         g.optind < argc => Fresh(g.optind),
         g.first_nonopt = g.last_nonopt \/ g.last_nonopt = g.optind
  PROVE  LET h == EndOfOptions(g)
         IN /\ WordsSkipped(h)
            /\ h.first_nonopt = h.last_nonopt \/ h.last_nonopt = h.optind
            /\ h.optind < argc => h = g /\ text[h.optind] # <<"-", "-">>
<1>0. argc \in Nat \ {0}
  BY Zenon, ArgcType
<1>1. /\ g.optind \in Int /\ g.first_nonopt \in Int /\ g.last_nonopt \in Int
      /\ g.first_nonopt <= g.last_nonopt /\ g.last_nonopt <= g.optind
      /\ g.optind \in 1..argc /\ \A i \in Indices : i \in Int
      /\ \A i \in Indices : i >= g.last_nonopt => g.argv[i] = i
  BY DEF States, Sane, Scanned, Untouched, Indices
<1>2. g.optind # argc => g.optind \in Indices /\ g.argv[g.optind] = g.optind
  BY <1>0, <1>1 DEF Indices
<1>3. CASE ~(g.optind # argc /\ text[g.argv[g.optind]] = <<"-", "-">>)
  <2>1. EndOfOptions(g) = g
    BY <1>3, Zenon DEF EndOfOptions
  <2>2. g.optind < argc => text[g.optind] # <<"-", "-">>
    BY SMTT(30), <1>0, <1>1, <1>2, <1>3
  <2> QED BY Zenon, <2>1, <2>2
<1>4. CASE g.optind # argc /\ text[g.argv[g.optind]] = <<"-", "-">>
  <2> DEFINE s == [g EXCEPT !.optind = @ + 1]
             x == s.first_nonopt # s.last_nonopt
             e == IF x THEN Exchanged(s) ELSE [s EXCEPT !.first_nonopt = s.optind]
             h == [e EXCEPT !.last_nonopt = argc, !.optind = argc]
  <2>1. h = EndOfOptions(g)
    BY <1>4 DEF EndOfOptions
  <2>2. /\ s \in States(NULL) /\ s.argv = g.argv /\ s.optind = g.optind + 1
        /\ s.first_nonopt = g.first_nonopt /\ s.last_nonopt = g.last_nonopt
    <3>1. g.optind + 1 \in 1..argc
      BY SMTT(30), <1>0, <1>1, <1>4
    <3> QED BY <3>1, Zenon DEF States
  <2>3. Sane(s)
    <3>1. s.last_nonopt <= s.optind
      BY SMTT(30), <2>2 DEF States, Sane
    <3> QED BY Zenon, <2>2, <3>1 DEF Sane, Scanned, InOrder, Untouched, Together
  <2>4. g.optind \in 1..(argc - 1) /\ g.optind \in Indices /\ Fresh(g.optind)
        /\ text[g.optind] = <<"-", "-">>
    BY SMTT(30), <1>0, <1>1, <1>2, <1>4 DEF Indices
  <2>5. role[g.optind] = "end"
    BY Zenon, <2>4, RoleFacts
  <2>6. \A l \in (g.optind + 1)..(argc - 1) : role[l] = "rest"
    BY Zenon, <2>4, <2>5, RestFollows
  <2> HIDE DEF s
  <2>7. WordsSkipped(s)
    <3> SUFFICES ASSUME NEW i \in Indices, i < g.optind + 1
                 PROVE  role[g.argv[i]] \in {"word", "rest"} <=>
                          g.first_nonopt <= i /\ i < g.last_nonopt
      BY Zenon, <2>2 DEF WordsSkipped
    <3>1. CASE i < g.optind
      BY Zenon, <3>1 DEF WordsSkipped
    <3>2. CASE i = g.optind
      <4>1. ~(i < g.last_nonopt) /\ role[g.argv[i]] = "end"
        BY SMTT(30), <1>1, <1>2, <2>4, <2>5, <3>2
      <4> QED BY Zenon, <4>1
    <3> QED BY SMTT(30), <1>1, <3>1, <3>2
  <2>8. /\ e \in States(NULL) /\ WordsSkipped(e) /\ e.optind = g.optind + 1
        /\ e.first_nonopt <= e.optind
        /\ e.last_nonopt = e.optind \/ e.first_nonopt = e.optind
        /\ \A i \in Indices : i >= e.optind => e.argv[i] = i
    <3>1. CASE x
      <4>1. /\ e = Exchanged(s) /\ Exchanged(s) \in States(NULL) /\ Sane(Exchanged(s))
            /\ Exchanged(s).optind = s.optind /\ WordsSkipped(Exchanged(s))
        BY ZenonT(30), <1>0, <2>2, <2>3, <2>7, <3>1, ExchangedSane, ExchangedWords
      <4>2. Exchanged(s).last_nonopt = s.optind
        BY Zenon, <2>2 DEF Exchanged, States
      <4> HIDE DEF e
      <4>3. \A i \in Indices : i >= e.optind => e.argv[i] = i
        BY Zenon, <4>1, <4>2 DEF Sane, Scanned, Untouched
      <4>4. e.first_nonopt <= e.optind
        BY Zenon, <4>1, <4>2 DEF Sane, Scanned
      <4> QED BY ZenonT(30), <2>2, <4>1, <4>2, <4>3, <4>4
    <3>2. CASE ~x
      <4>1. /\ e \in States(NULL) /\ e.argv = g.argv /\ e.last_nonopt = g.last_nonopt
            /\ e.first_nonopt = g.optind + 1 /\ e.optind = g.optind + 1
        BY Zenon, <2>2, <3>2 DEF States
      <4>2. g.first_nonopt = g.last_nonopt
        BY Zenon, <2>2, <3>2
      <4> HIDE DEF e
      <4>3. \A i \in Indices : i < e.optind =>
              (role[e.argv[i]] \in {"word", "rest"} <=> e.first_nonopt <= i /\ i < e.last_nonopt)
        <5>1. \A i \in Indices : i < g.optind + 1 =>
                ~(g.first_nonopt <= i /\ i < g.last_nonopt) /\ ~(g.optind + 1 <= i)
          BY <1>1, <4>2
        <5>2. \A i \in Indices : i < g.optind + 1 =>
                (role[g.argv[i]] \in {"word", "rest"} <=>
                   g.first_nonopt <= i /\ i < g.last_nonopt)
          BY Zenon, <2>2, <2>7 DEF WordsSkipped
        <5> QED BY <4>1, <5>1, <5>2, Zenon
      <4>4. \A i \in Indices : i >= e.optind => e.argv[i] = i
        BY SMTT(30), <1>1, <4>1
      <4>5. e.first_nonopt <= e.optind
        BY SMTT(30), <1>1, <4>1
      <4> QED BY ZenonT(30), <4>1, <4>3, <4>4, <4>5 DEF WordsSkipped
    <3> QED BY Zenon, <3>1, <3>2
  <2> HIDE DEF e, x
  <2>9. /\ h.argv = e.argv /\ h.first_nonopt = e.first_nonopt
        /\ h.last_nonopt = argc /\ h.optind = argc
    BY Zenon, <2>8 DEF States
  <2> HIDE DEF h
  <2>10. WordsSkipped(h)
    <3> SUFFICES ASSUME NEW i \in Indices, i < argc
                 PROVE  role[e.argv[i]] \in {"word", "rest"} <=> e.first_nonopt <= i /\ i < argc
      BY Zenon, <2>9 DEF WordsSkipped
    <3>1. i \in Int /\ e.first_nonopt \in Int /\ e.optind \in Int
      BY <2>8 DEF Indices, States
    <3>2. CASE i < e.optind
      <4>1. role[e.argv[i]] \in {"word", "rest"} <=> e.first_nonopt <= i /\ i < e.last_nonopt
        BY Zenon, <2>8, <3>2 DEF WordsSkipped
      <4>2. e.first_nonopt <= i => i < e.last_nonopt
        BY SMTT(30), <2>8, <3>1, <3>2
      <4> QED BY Zenon, <4>1, <4>2
    <3>3. CASE ~(i < e.optind)
      <4>1. i \in (g.optind + 1)..(argc - 1) /\ e.first_nonopt <= i /\ e.argv[i] = i
        BY SMTT(30), <1>0, <1>1, <2>8, <3>1, <3>3
      <4> QED BY Zenon, <2>6, <4>1
    <3> QED BY Zenon, <3>2, <3>3
  <2>11. ~(h.optind < argc)
    BY SMTT(30), <1>0, <2>9
  <2> QED BY ZenonT(30), <2>1, <2>9, <2>10, <2>11
<1> QED BY Zenon, <1>3, <1>4

\* What a call knows before it looks at an option.
LEMMA ScanTracked ==
  ASSUME GetoptInv, result.c # EOF, optind # 0 => Tracked(Current)
  PROVE  LET g == Scan(Current)
         IN /\ WordsSkipped(g)
            /\ g.nextchar # NULL => Tracked(g)
            /\ g.nextchar = NULL =>
                 /\ g.first_nonopt = g.last_nonopt \/ g.last_nonopt = g.optind
                 /\ g.optind < argc =>
                      /\ Fresh(g.optind) /\ text[g.optind] # <<"-", "-">>
                      /\ IF posix THEN g.first_nonopt = g.last_nonopt
                         ELSE ~NonOption(text[g.optind])
<1> DEFINE s == Start(Current)
<1>1. text \in CommandLines /\ argc \in Nat \ {0} /\ DOMAIN text = Indices
  BY Zenon, ArgcType DEF GetoptInv
<1>2. s \in States(s.nextchar) /\ Sane(s) /\ Tracked(s)
  <2>1. CASE optind = 0
    <3>1. s = [argv |-> argv, optind |-> 1, nextchar |-> NULL,
               first_nonopt |-> 1, last_nonopt |-> 1]
      BY Zenon, <2>1 DEF Start, Current
    <3>2. argv = [i \in Indices |-> i]
      <4>1. ~(Current \in States(nextchar))
        BY <2>1 DEF Current, States
      <4> QED BY Zenon, <1>1, <4>1 DEF GetoptInv, FreshArgv
    <3> HIDE DEF s
    <3>3. s \in States(NULL)
      BY SMTT(30), <1>1, <3>1, <3>2 DEF States, Indices
    <3>4. Sane(s)
      BY SMTT(30), <1>1, <3>1, <3>2
         DEF Sane, Scanned, InOrder, Untouched, Together, Indices
    <3>5. role[0] = "program"
      BY Zenon, <1>1, RoleFacts
    <3>6. WordsSkipped(s)
      <4> SUFFICES ASSUME NEW i \in Indices, i < 1
                   PROVE  role[argv[i]] \in {"word", "rest"} <=> 1 <= i /\ i < 1
        BY Zenon, <3>1 DEF WordsSkipped
      <4>1. i = 0 /\ argv[i] = 0
        BY <1>1, <3>2 DEF Indices
      <4> QED BY <3>5, <4>1
    <3>7. Fresh(1)
      BY <3>5 DEF Fresh
    <3>8. Tracked(s)
      BY Zenon, <3>1, <3>6, <3>7 DEF Tracked, AtString
    <3> QED BY Zenon, <3>1, <3>3, <3>4, <3>8
  <2>2. CASE optind # 0
    <3>1. s = Current
      BY Zenon, <2>2 DEF Start, Current
    <3>2. Current.nextchar = nextchar /\ Current.optind = optind
      BY Zenon DEF Current
    <3> QED BY Zenon, <2>2, <3>1, <3>2 DEF GetoptInv
  <2> QED BY Zenon, <2>1, <2>2
<1> HIDE DEF s
<1>3. CASE s.nextchar # NULL
  <2>1. Scan(Current) = s
    BY Zenon, <1>3 DEF Scan, s
  <2> QED BY Zenon, <1>2, <1>3, <2>1 DEF Tracked
<1>4. CASE s.nextchar = NULL
  <2> DEFINE q == IF posix THEN s ELSE Permute(s)
  <2>1. q \in States(NULL) /\ Sane(q)
    BY Zenon, <1>1, <1>2, <1>4, PermuteSane
  <2>2. Scan(Current) = EndOfOptions(q)
    BY Zenon, <1>4 DEF Scan, s
  <2>3. /\ WordsSkipped(q)
        /\ q.optind < argc => Fresh(q.optind)
        /\ q.first_nonopt = q.last_nonopt \/ q.last_nonopt = q.optind
        /\ posix => q.first_nonopt = q.last_nonopt
        /\ ~posix /\ q.optind < argc => ~NonOption(text[q.optind])
    <3>1. CASE posix
      <4>1. q = s
        BY Zenon, <3>1
      <4> QED BY Zenon, <1>2, <1>4, <3>1, <4>1 DEF Tracked, AtString
    <3>2. CASE ~posix
      <4>1. q = Permute(s)
        BY Zenon, <3>2
      <4> QED BY ZenonT(30), <1>1, <1>2, <1>4, <3>2, <4>1, PermuteTracked
    <3> QED BY Zenon, <3>1, <3>2
  <2> HIDE DEF q
  <2> DEFINE g == EndOfOptions(q)
  <2>4. /\ WordsSkipped(g)
        /\ g.first_nonopt = g.last_nonopt \/ g.last_nonopt = g.optind
        /\ g.optind < argc => g = q /\ text[g.optind] # <<"-", "-">>
    BY Zenon, <1>1, <2>1, <2>3, EndTracked
  <2>5. g.nextchar = NULL
    <3>1. g \in States(NULL)
      BY Zenon, <1>1, <2>1, EndOfOptionsSane
    <3> QED BY Zenon, <3>1 DEF States
  <2> HIDE DEF g
  <2>6. Scan(Current) = g
    BY Zenon, <2>2 DEF g
  <2> QED BY Zenon, <2>3, <2>4, <2>5, <2>6
<1> QED BY Zenon, <1>3, <1>4

\* The option the table is searched for is the one meant, and only one.
LEMMA FoundIsMeant ==
  ASSUME NEW name
  PROVE  /\ Found(name) = {i \in Matches(name) : \/ name = <<LongOpts[i].name>>
                                                 \/ Matches(name) = {i}}
         /\ \A i, j \in Found(name) : i = j
<1> DEFINE M == Matches(name)
           E == Exact(name)
           R == {i \in M : name = <<LongOpts[i].name>> \/ M = {i}}
<1>1. E = {i \in M : name = <<LongOpts[i].name>>}
  BY Zenon DEF Exact, Matches
<1>2. \A i, j \in E : i = j
  <2> SUFFICES ASSUME NEW i \in E, NEW j \in E PROVE i = j
    BY Zenon
  <2>1. /\ i \in 1..Len(LongOpts) /\ j \in 1..Len(LongOpts)
        /\ <<LongOpts[i].name>> = <<LongOpts[j].name>>
    BY Zenon DEF Exact
  <2>2. LongOpts[i].name = LongOpts[j].name
    BY Zenon, <2>1
  <2> QED BY Zenon, <2>1, <2>2, TableAssumption
<1> HIDE DEF M, E
<1>3. CASE E # {}
  <2>1. Found(name) = E
    BY <1>3, Zenon DEF Found, E
  <2>2. R = E
    BY Zenon, <1>1, <1>3
  <2> QED BY Zenon, <1>2, <2>1, <2>2 DEF M
<1>4. CASE E = {}
  <2>1. R = {i \in M : M = {i}}
    BY Zenon, <1>1, <1>4
  <2>2. Found(name) = IF Cardinality(M) = 1 THEN M ELSE {}
    BY <1>4, Zenon DEF Found, E, M
  <2>3. CASE \E i : M = {i}
    <3>1. PICK i : M = {i}
      BY Zenon, <2>3
    <3>2. Cardinality(M) = 1
      BY Zenon, <3>1, FS_Singleton
    <3>3. Found(name) = M /\ R = M
      BY Zenon, <2>1, <2>2, <3>1, <3>2
    <3> QED BY Zenon, <3>1, <3>3 DEF M
  <2>4. CASE ~\E i : M = {i}
    <3>1. R = {}
      BY Zenon, <2>1, <2>4
    <3>2. Found(name) = {}
      <4>1. IsFiniteSet(M)
        <5>1. M \subseteq 1..Len(LongOpts)
          BY Zenon DEF M, Matches
        <5>2. IsFiniteSet(1..Len(LongOpts))
          BY SMTT(30), TableAssumption, FS_Interval
        <5> QED BY <5>1, <5>2, FS_Subset, Zenon
      <4>2. Cardinality(M) # 1
        BY Zenon, <2>4, <4>1, FS_Singleton
      <4> QED BY Zenon, <2>2, <4>2
    <3> QED BY Zenon, <3>1, <3>2 DEF M
  <2> QED BY Zenon, <2>3, <2>4
<1> QED BY Zenon, <1>3, <1>4

\* The next character of a group, and what is left behind it.
LEMMA GroupGoesOn ==
  ASSUME NEW s \in Seq(STRING), NEW k \in 2..Len(s), NEW c, c = SubSeq(s, k, Len(s))
  PROVE  /\ c # << >> /\ c[1] = s[k] /\ Tail(c) = SubSeq(s, k + 1, Len(s))
         /\ Tail(c) = << >> <=> k = Len(s)
<1>1. Len(s) \in Nat /\ k \in 1..Len(s) + 1 /\ Len(s) \in (k - 1)..Len(s)
  OBVIOUS
<1>2. /\ c \in Seq(STRING) /\ Len(c) = Len(s) - k + 1
      /\ 1 \in 1..(Len(s) - k + 1) /\ c[1] = s[k]
  BY SMTT(30), <1>1, SubSeqProperties
<1>3. Len(c) # 0
  BY <1>1, <1>2
<1>4. c # << >>
  BY <1>2, <1>3, Zenon
<1>5. Tail(c) = SubSeq(s, k + 1, Len(s))
  BY SMTT(30), <1>1, HeadTailOfSubSeq
<1>6. Tail(c) \in Seq(STRING) /\ Len(Tail(c)) = Len(s) - k
  BY SMTT(30), <1>1, <1>2, <1>4, HeadTailProperties
<1>7. Tail(c) = << >> <=> Len(Tail(c)) = 0
  BY <1>6, EmptySeq, Zenon
<1>8. Len(s) - k = 0 <=> k = Len(s)
  BY <1>1
<1> QED BY <1>2, <1>4, <1>5, <1>6, <1>7, <1>8, ZenonT(30)

\* The string after a group is its argument when the first character that takes
\* one is the last and requires it.
LEMMA GroupTakesNext ==
  ASSUME NEW s \in Seq(STRING), NEW c, NEW k \in Nat, LeftOf(s, c, k), ~IsLong(s)
  PROVE  /\ Takes(s[k]) => (TakesNext(s) <=> k = Len(s) /\ ShortOpts[s[k]] = "required")
         /\ ~Takes(s[k]) /\ k = Len(s) => ~TakesNext(s)
<1> DEFINE takes == {l \in 2..Len(s) : s[l] \in DOMAIN ShortOpts
                                        /\ ShortOpts[s[l]] # "no"}
           at == ArgumentAt(s)
<1>1. at = IF takes = {} THEN Len(s) ELSE Min(takes)
  BY Zenon DEF ArgumentAt
<1>2. takes = {l \in 2..Len(s) : Takes(s[l])}
  BY Zenon DEF Takes
<1>3. TakesNext(s) <=> /\ at = Len(s) /\ s[at] \in DOMAIN ShortOpts
                       /\ ShortOpts[s[at]] = "required"
  BY Zenon DEF TakesNext
<1> HIDE DEF takes, at
<1>4. k \in 2..Len(s) /\ \A l \in 2..(k - 1) : ~Takes(s[l])
  BY Zenon DEF LeftOf
<1>5. CASE Takes(s[k])
  <2>1. k \in takes /\ \A l \in takes : k <= l
    <3>1. \A l \in 2..Len(s) : ~(k <= l) => l \in 2..(k - 1)
      BY <1>4
    <3> QED BY ZenonT(30), <1>2, <1>4, <1>5, <3>1
  <2>2. takes \subseteq Int
    BY <1>2
  <2>3. Min(takes) = k
    <3>1. Min(takes) = CHOOSE x \in takes : \A y \in takes : x <= y
      BY Zenon DEF Min
    <3>2. \A x \in takes : (\A y \in takes : x <= y) => x = k
      BY SMTT(30), <2>1, <2>2
    <3> QED BY <2>1, <3>1, <3>2, Zenon
  <2>4. at = k
    BY Zenon, <1>1, <2>1, <2>3
  <2> QED BY <1>3, <1>5, <2>4, Zenon DEF Takes
<1>6. CASE ~Takes(s[k]) /\ k = Len(s)
  <2>1. TakesNext(s) => Takes(s[k])
    BY Zenon, <1>3, <1>6 DEF Takes
  <2> QED BY Zenon, <1>6, <2>1
<1> QED BY Zenon, <1>5, <1>6

\* A long option is one string, or two when it takes the next.
LEMMA LongDecoded ==
  ASSUME NEW s, IsLong(s), NEW g, g.nextchar = SubSeq(s, 3, Len(s)),
         g.optind \in Nat, argc \in Nat
  PROVE  LET d == LongOption(g)
         IN /\ d.nextchar = NULL
            /\ \/ d.optind = g.optind + 1 /\ (d.optind < argc => ~TakesNext(s))
               \/ d.optind = g.optind + 2 /\ d.optind <= argc /\ TakesNext(s)
<1> DEFINE l == SubSeq(s, 3, Len(s))
           F == Found(Name(l))
           p == LongOpts[CHOOSE i \in F : TRUE]
           ind == g.optind + 1
           d == LongOption(g)
<1>1. F = Meant(s) /\ \A i, j \in F : i = j
  BY Zenon, FoundIsMeant DEF Meant
<1>2. TakesNext(s) <=> ~HasValue(l) /\ \E i \in F : LongOpts[i].has_arg = "required"
  BY <1>1, Zenon DEF TakesNext
<1>3. F # {} => ((\E i \in F : LongOpts[i].has_arg = "required") <=> p.has_arg = "required")
  <2> SUFFICES ASSUME F # {}
               PROVE  (\E i \in F : LongOpts[i].has_arg = "required") <=> p.has_arg = "required"
    BY Zenon
  <2> DEFINE m == CHOOSE i \in F : TRUE
  <2>1. m \in F
    BY Zenon
  <2> HIDE DEF m, F
  <2>2. (\E i \in F : LongOpts[i].has_arg = "required") <=> LongOpts[m].has_arg = "required"
    BY <1>1, <2>1, Zenon
  <2> QED BY Zenon, <2>2 DEF m
<1> HIDE DEF F, p
<1>4. d = IF F = {} THEN Decoded(BAD_OPTION, NULL, ind, NULL)
          ELSE IF HasValue(l)
               THEN IF p.has_arg = "no" THEN Decoded(BAD_OPTION, NULL, ind, NULL)
                    ELSE [Decoded(IF p.flag THEN "0" ELSE p.val, <<Value(l)>>, ind, NULL)
                            EXCEPT !.set = IF p.flag THEN {p.name} ELSE {}]
          ELSE IF p.has_arg # "required"
               THEN [Decoded(IF p.flag THEN "0" ELSE p.val, NULL, ind, NULL)
                            EXCEPT !.set = IF p.flag THEN {p.name} ELSE {}]
          ELSE IF ind < argc
               THEN [Decoded(IF p.flag THEN "0" ELSE p.val, <<text[g.argv[ind]]>>,
                             ind + 1, NULL)
                            EXCEPT !.set = IF p.flag THEN {p.name} ELSE {}]
          ELSE Decoded(BAD_OPTION, NULL, ind, NULL)
  BY Zenon DEF LongOption, F, p
<1>5. \A v, a, n, c : Decoded(v, a, n, c).optind = n /\ Decoded(v, a, n, c).nextchar = c
  BY Zenon DEF Decoded
<1>6. \A v, a, n, c, e : /\ [Decoded(v, a, n, c) EXCEPT !.set = e].optind = n
                         /\ [Decoded(v, a, n, c) EXCEPT !.set = e].nextchar = c
  BY Zenon DEF Decoded
<1>7. d.nextchar = NULL
  BY SMTT(30), <1>4, <1>5, <1>6
<1>8. d.optind = IF F # {} /\ ~HasValue(l) /\ p.has_arg = "required" /\ ind < argc
                 THEN ind + 1 ELSE ind
  BY SMTT(30), <1>4, <1>5, <1>6
<1>9. F = {} => ~TakesNext(s)
  BY Zenon, <1>2
<1> HIDE DEF d, l
<1>10. CASE F # {} /\ ~HasValue(l) /\ p.has_arg = "required" /\ ind < argc
  <2>1. TakesNext(s)
    BY <1>2, <1>3, <1>10, Zenon
  <2>2. d.optind = ind + 1
    BY <1>8, <1>10, Zenon
  <2>3. ind + 1 = g.optind + 2 /\ ind + 1 <= argc
    BY <1>10
  <2> QED BY ZenonT(30), <1>7, <2>1, <2>2, <2>3 DEF d
<1>11. CASE ~(F # {} /\ ~HasValue(l) /\ p.has_arg = "required" /\ ind < argc)
  <2>1. ind < argc => ~TakesNext(s)
    BY <1>2, <1>3, <1>9, <1>11, ZenonT(30)
  <2>2. d.optind = ind
    BY <1>8, <1>11, Zenon
  <2> QED BY Zenon, <1>7, <2>1, <2>2 DEF d
<1> QED BY Zenon, <1>10, <1>11

\* A short option leaves the parser in the group, behind it, or behind the
\* string after it when it takes that.
LEMMA ShortDecoded ==
  ASSUME NEW s \in Seq(STRING), ~IsLong(s), NEW g, NEW k \in Nat, LeftOf(s, g.nextchar, k),
         g.optind \in Nat, argc \in Nat, g.optind < argc
  PROVE  LET d == ShortOption(g)
         IN IF d.nextchar # NULL
            THEN d.optind = g.optind /\ LeftOf(s, d.nextchar, k + 1)
            ELSE \/ d.optind = g.optind + 1 /\ (d.optind < argc => ~TakesNext(s))
                 \/ d.optind = g.optind + 2 /\ d.optind <= argc /\ TakesNext(s)
<1> DEFINE c == g.nextchar[1]
           rest == Tail(g.nextchar)
           ind == IF rest = << >> THEN g.optind + 1 ELSE g.optind
           d == ShortOption(g)
<1>1. /\ k \in 2..Len(s) /\ c = s[k] /\ rest = SubSeq(s, k + 1, Len(s))
      /\ rest = << >> <=> k = Len(s)
  <2>1. k \in 2..Len(s) /\ g.nextchar = SubSeq(s, k, Len(s))
    BY Zenon DEF LeftOf
  <2> QED BY ZenonT(30), <2>1, GroupGoesOn
<1>2. /\ Takes(s[k]) => (TakesNext(s) <=> k = Len(s) /\ ShortOpts[s[k]] = "required")
      /\ ~Takes(s[k]) /\ k = Len(s) => ~TakesNext(s)
  BY Zenon, GroupTakesNext
<1>3. d = IF c \notin DOMAIN ShortOpts THEN Decoded(BAD_OPTION, NULL, ind, rest)
          ELSE IF ShortOpts[c] = "no" THEN Decoded(c, NULL, ind, rest)
          ELSE IF rest # << >> THEN Decoded(c, <<rest>>, ind + 1, NULL)
          ELSE IF ShortOpts[c] = "optional" THEN Decoded(c, NULL, ind, NULL)
          ELSE IF ind = argc THEN Decoded(BAD_OPTION, NULL, ind, NULL)
          ELSE Decoded(c, <<text[g.argv[ind]]>>, ind + 1, NULL)
  BY Zenon DEF ShortOption
<1>4. \A v, a, n, e : Decoded(v, a, n, e).optind = n /\ Decoded(v, a, n, e).nextchar = e
  BY Zenon DEF Decoded
<1> HIDE DEF c, rest, d, ind
<1>5. CASE ~Takes(s[k])
  <2>1. d.optind = ind /\ d.nextchar = rest
    <3>1. CASE c \notin DOMAIN ShortOpts
      <4>1. d = Decoded(BAD_OPTION, NULL, ind, rest)
        BY <1>3, <3>1, Zenon
      <4> QED BY SMTT(30), <1>4, <4>1
    <3>2. CASE c \in DOMAIN ShortOpts /\ ShortOpts[c] = "no"
      <4>1. d = Decoded(c, NULL, ind, rest)
        BY <1>3, <3>2, Zenon
      <4> QED BY SMTT(30), <1>4, <4>1
    <3> QED BY ZenonT(30), <1>1, <1>5, <3>1, <3>2 DEF Takes
  <2>2. CASE rest = << >>
    <3>1. ind = g.optind + 1 /\ rest = NULL
      BY Zenon, <2>2 DEF ind, NULL
    <3> QED BY ZenonT(30), <1>1, <1>2, <1>5, <2>1, <2>2, <3>1 DEF d
  <2>3. CASE rest # << >>
    <3>1. ind = g.optind /\ rest # NULL
      BY Zenon, <2>3 DEF ind, NULL
    <3>2. k + 1 \in 2..Len(s) /\ \A l \in 2..((k + 1) - 1) : l \in 2..(k - 1) \/ l = k
      BY SMTT(30), <1>1, <2>3
    <3>3. LeftOf(s, rest, k + 1)
      BY Zenon, <1>1, <1>5, <3>2 DEF LeftOf
    <3> QED BY Zenon, <2>1, <3>1, <3>3 DEF d
  <2> QED BY Zenon, <2>2, <2>3
<1>6. CASE Takes(s[k]) /\ rest # << >>
  <2>1. d.optind = ind + 1 /\ d.nextchar = NULL
    BY SMTT(30), <1>1, <1>3, <1>4, <1>6 DEF Takes
  <2>2. ind = g.optind /\ ~TakesNext(s)
    BY Zenon, <1>1, <1>2, <1>6 DEF ind
  <2> QED BY ZenonT(30), <2>1, <2>2 DEF d
<1>7. CASE Takes(s[k]) /\ rest = << >>
  <2>1. ind = g.optind + 1 /\ k = Len(s)
    BY Zenon, <1>1, <1>7 DEF ind
  <2>2. ShortOpts[s[k]] \in {"required", "optional"}
    BY Zenon, <1>7, TableAssumption DEF Takes
  <2>3. CASE ShortOpts[s[k]] = "optional"
    <3>1. d.optind = ind /\ d.nextchar = NULL
      BY SMTT(30), <1>1, <1>3, <1>4, <1>7, <2>3 DEF Takes
    <3>2. ~TakesNext(s)
      BY ZenonT(30), <1>2, <1>7, <2>3
    <3> QED BY ZenonT(30), <2>1, <3>1, <3>2 DEF d
  <2>4. CASE ShortOpts[s[k]] = "required" /\ ind = argc
    <3>1. d.optind = ind /\ d.nextchar = NULL
      <4>1. ShortOpts[s[k]] # "optional"
        BY Zenon, <2>4
      <4> QED BY SMTT(30), <1>1, <1>3, <1>4, <1>7, <2>4, <4>1 DEF Takes
    <3> QED BY SMTT(30), <2>1, <2>4, <3>1 DEF d
  <2>5. CASE ShortOpts[s[k]] = "required" /\ ind # argc
    <3>1. d.optind = ind + 1 /\ d.nextchar = NULL
      <4>1. ShortOpts[s[k]] # "optional"
        BY Zenon, <2>5
      <4> QED BY SMTT(30), <1>1, <1>3, <1>4, <1>7, <2>5, <4>1 DEF Takes
    <3>2. TakesNext(s)
      BY ZenonT(30), <1>2, <1>7, <2>1, <2>5
    <3>3. ind + 1 = g.optind + 2 /\ ind + 1 <= argc
      BY SMTT(30), <2>1, <2>5
    <3> QED BY ZenonT(30), <3>1, <3>2, <3>3 DEF d
  <2> QED BY ZenonT(30), <2>2, <2>3, <2>4, <2>5
<1> QED BY Zenon, <1>5, <1>6, <1>7

\* A group is entered past its "-".
LEMMA EntersGroup ==
  ASSUME NEW s \in Seq(STRING), ~NonOption(s)
  PROVE  LeftOf(s, SubSeq(s, 2, Len(s)), 2) /\ 2 \in Nat
<1>1. 2 \in 2..Len(s)
  BY DEF NonOption
<1>2. 2..(2 - 1) = {}
  OBVIOUS
<1> QED BY Zenon, <1>1, <1>2 DEF LeftOf

\* A decoded option leaves the parser in its group, or before a string that
\* begins anew; what it passed are no words.
LEMMA DecodeTracked ==
  ASSUME text \in CommandLines, NEW c, NEW g \in States(c), Sane(g), g.optind < argc,
         role[g.optind] = "option", g.nextchar = NULL => ~NonOption(text[g.optind]),
         g.nextchar # NULL => AtString(g)
  PROVE  LET d == Decode(g)
         IN /\ AtString([g EXCEPT !.optind = d.optind, !.nextchar = d.nextchar])
            /\ d.optind \in g.optind..argc
            /\ \A i \in g.optind..(d.optind - 1) : role[i] \in {"option", "argument"}
<1> DEFINE s == text[g.optind]
           n == IF g.nextchar # NULL THEN g
                ELSE [g EXCEPT !.nextchar = SubSeq(s, IF IsLong(s) THEN 3 ELSE 2, Len(s))]
           d == Decode(g)
           h == [g EXCEPT !.optind = d.optind, !.nextchar = d.nextchar]
<1>0. argc \in Nat \ {0} /\ DOMAIN text = Indices
  BY Zenon, ArgcType
<1>1. /\ g.optind \in 1..(argc - 1) /\ g.optind \in Indices
      /\ g.argv[g.optind] = g.optind
  <2>1. /\ g.optind \in 1..argc /\ g.last_nonopt \in Int /\ g.last_nonopt <= g.optind
        /\ \A i \in Indices : i >= g.last_nonopt => g.argv[i] = i
    BY DEF States, Sane, Scanned, Untouched
  <2>2. /\ g.optind \in 1..(argc - 1) /\ g.optind \in Indices
        /\ g.optind >= g.last_nonopt
    BY SMTT(30), <1>0, <2>1 DEF Indices
  <2> QED BY Zenon, <2>1, <2>2
<1>2. s \in Seq(STRING)
  BY Zenon, <1>0, <1>1, LinesAssumption
<1>3. d = IF IsLong(s) THEN LongOption(n) ELSE ShortOption(n)
  BY Zenon, <1>1 DEF Decode
<1>4. n.optind = g.optind
  BY Zenon DEF States
<1>5. h.optind = d.optind /\ h.nextchar = d.nextchar
  BY Zenon DEF States
<1>6. IsLong(s) => n.nextchar = SubSeq(s, 3, Len(s))
  <2>1. IsLong(s) => g.nextchar = NULL
    BY Zenon DEF AtString
  <2> QED BY <2>1, Zenon DEF States
<1>7. ~IsLong(s) => \E k \in Nat : LeftOf(s, n.nextchar, k)
  <2>1. CASE g.nextchar # NULL
    BY Zenon, <2>1 DEF AtString
  <2>2. CASE g.nextchar = NULL /\ ~IsLong(s)
    <3>1. n.nextchar = SubSeq(s, 2, Len(s))
      BY <2>2, Zenon DEF States
    <3>2. LeftOf(s, SubSeq(s, 2, Len(s)), 2) /\ 2 \in Nat
      BY Zenon, <1>2, <2>2, EntersGroup
    <3> QED BY <3>1, <3>2, Zenon
  <2> QED BY Zenon, <2>1, <2>2
<1> HIDE DEF d, n, h, s
<1>8. IF d.nextchar # NULL
      THEN d.optind = g.optind /\ ~IsLong(s) /\ \E k \in Nat : LeftOf(s, d.nextchar, k)
      ELSE \/ d.optind = g.optind + 1 /\ (d.optind < argc => ~TakesNext(s))
           \/ d.optind = g.optind + 2 /\ d.optind <= argc /\ TakesNext(s)
  <2>1. CASE IsLong(s)
    BY SMTT(30), <1>0, <1>1, <1>3, <1>4, <1>6, <2>1, LongDecoded
  <2>2. CASE ~IsLong(s)
    <3>1. PICK k \in Nat : LeftOf(s, n.nextchar, k)
      BY Zenon, <1>7, <2>2
    <3>2. d = ShortOption(n) /\ k + 1 \in Nat /\ n.optind \in Nat /\ argc \in Nat
          /\ n.optind < argc
      BY SMTT(30), <1>0, <1>1, <1>3, <1>4, <2>2
    <3>3. IF d.nextchar # NULL
          THEN d.optind = n.optind /\ LeftOf(s, d.nextchar, k + 1)
          ELSE \/ d.optind = n.optind + 1 /\ (d.optind < argc => ~TakesNext(s))
               \/ d.optind = n.optind + 2 /\ d.optind <= argc /\ TakesNext(s)
      BY ZenonT(30), <1>2, <2>2, <3>1, <3>2, ShortDecoded
    <3> QED BY ZenonT(30), <1>4, <2>2, <3>2, <3>3
  <2> QED BY ZenonT(30), <2>1, <2>2
<1>9. CASE d.nextchar # NULL
  <2>1. AtString(h)
    BY ZenonT(30), <1>1, <1>5, <1>8, <1>9 DEF AtString, s
  <2>2. d.optind \in g.optind..argc /\ g.optind..(d.optind - 1) = {}
    BY SMTT(30), <1>0, <1>1, <1>8, <1>9
  <2> QED BY Zenon, <2>1, <2>2 DEF d, h
<1>10. CASE d.nextchar = NULL /\ d.optind = g.optind + 1 /\ (d.optind < argc => ~TakesNext(s))
  <2>1. (g.optind + 1) - 1 = g.optind
    BY <1>1
  <2>2. d.optind < argc => Fresh(d.optind)
    BY Zenon, <1>10, <2>1 DEF Fresh, s
  <2>3. AtString(h)
    BY ZenonT(30), <1>5, <1>10, <2>2 DEF AtString
  <2>4. d.optind \in g.optind..argc /\ \A i \in g.optind..(d.optind - 1) : i = g.optind
    BY SMTT(30), <1>0, <1>1, <1>10
  <2> QED BY Zenon, <2>3, <2>4 DEF d, h
<1>11. CASE d.nextchar = NULL /\ d.optind = g.optind + 2 /\ d.optind <= argc /\ TakesNext(s)
  <2>1. /\ (g.optind + 1) - 1 = g.optind /\ (g.optind + 2) - 1 = g.optind + 1
        /\ g.optind + 1 \in 1..(argc - 1)
    BY SMTT(30), <1>0, <1>1, <1>11
  <2>2. role[g.optind + 1] = "argument"
    BY Zenon, <1>11, <2>1, RoleFacts DEF s
  <2>3. Fresh(d.optind)
    BY Zenon, <1>11, <2>1, <2>2 DEF Fresh
  <2>4. AtString(h)
    BY ZenonT(30), <1>5, <1>11, <2>3 DEF AtString
  <2>5. /\ d.optind \in g.optind..argc
        /\ \A i \in g.optind..(d.optind - 1) : i = g.optind \/ i = g.optind + 1
    BY SMTT(30), <1>0, <1>1, <1>11
  <2> QED BY ZenonT(30), <2>2, <2>4, <2>5 DEF d, h
<1> QED BY ZenonT(30), <1>8, <1>9, <1>10, <1>11

\* An option that is decoded is not the end.
LEMMA DecodeIsNoEof ==
  ASSUME NEW g
  PROVE  Decode(g).c # EOF
<1>1. BAD_OPTION # EOF /\ "0" # EOF
  BY Zenon DEF BAD_OPTION, EOF
<1>2. \A v, a, n, c, e : /\ Decoded(v, a, n, c).c = v
                         /\ [Decoded(v, a, n, c) EXCEPT !.set = e].c = v
  BY Zenon DEF Decoded
<1>3. ASSUME NEW n PROVE LongOption(n).c # EOF
  <2> DEFINE F == Found(Name(n.nextchar))
             m == CHOOSE i \in F : TRUE
             p == LongOpts[m]
             v == IF p.flag THEN "0" ELSE p.val
  <2>1. F \subseteq 1..Len(LongOpts)
    <3>1. \A name : Matches(name) \subseteq 1..Len(LongOpts)
      BY Zenon DEF Matches
    <3> QED BY Zenon, <3>1, FoundIsMeant
  <2>2. F # {} => v # EOF
    <3>1. F # {} => m \in F
      BY Zenon
    <3> HIDE DEF F, m
    <3> QED BY <1>1, <2>1, <3>1, TableAssumption, ZenonT(30)
  <2> HIDE DEF v
  <2>3. LongOption(n).c = BAD_OPTION \/ (F # {} /\ LongOption(n).c = v)
    BY <1>2 DEF LongOption, v
  <2> QED BY Zenon, <1>1, <2>2, <2>3
<1>4. ASSUME NEW n PROVE ShortOption(n).c # EOF
  <2> DEFINE c == n.nextchar[1]
  <2>1. ShortOption(n).c = BAD_OPTION \/ (c \in DOMAIN ShortOpts /\ ShortOption(n).c = c)
    <3> DEFINE rest == Tail(n.nextchar)
               ind == IF rest = << >> THEN n.optind + 1 ELSE n.optind
               d == ShortOption(n)
    <3>1. d = IF c \notin DOMAIN ShortOpts THEN Decoded(BAD_OPTION, NULL, ind, rest)
              ELSE IF ShortOpts[c] = "no" THEN Decoded(c, NULL, ind, rest)
              ELSE IF rest # << >> THEN Decoded(c, <<rest>>, ind + 1, NULL)
              ELSE IF ShortOpts[c] = "optional" THEN Decoded(c, NULL, ind, NULL)
              ELSE IF ind = argc THEN Decoded(BAD_OPTION, NULL, ind, NULL)
              ELSE Decoded(c, <<text[n.argv[ind]]>>, ind + 1, NULL)
      BY Zenon DEF ShortOption
    <3> HIDE DEF c, rest, ind, d
    <3>2. d.c = BAD_OPTION \/ (c \in DOMAIN ShortOpts /\ d.c = c)
      BY SMTT(30), <1>2, <3>1
    <3> QED BY Zenon, <3>2 DEF d
  <2> HIDE DEF c
  <2> QED BY Zenon, <1>1, <2>1, TableAssumption
<1> QED BY <1>3, <1>4, Zenon DEF Decode

\* Every string of the line is still in argv.
LEMMA ArgvOnto ==
  ASSUME text \in CommandLines, NEW c, NEW g \in States(c), Sane(g)
  PROVE  \A k \in Indices : \E i \in Indices : g.argv[i] = k
<1>0. argc \in Nat
  BY Zenon, ArgcType
<1>1. g.argv \in [Indices -> Indices] /\ \A i, j \in Indices : i < j => g.argv[i] # g.argv[j]
  BY Zenon DEF States, Sane, Scanned, InOrder
<1>2. IsFiniteSet(Indices)
  BY SMTT(30), <1>0, FS_Interval DEF Indices
<1>3. \A i, j \in Indices : g.argv[i] = g.argv[j] => i = j
  <2>1. \A i, j \in Indices : i # j => i < j \/ j < i
    BY DEF Indices
  <2> QED BY <1>1, <2>1, Zenon
<1>4. g.argv \in Injection(Indices, Indices)
  BY Zenon, <1>1, <1>3 DEF Injection, IsInjective
<1>5. g.argv \in Surjection(Indices, Indices)
  BY ZenonT(30), <1>2, <1>4, FS_Injection
<1> QED BY Zenon, <1>5 DEF Surjection

\* Where the options end.
Ends(g, n) ==
  /\ \A i, j \in Indices : i < j /\ (j < n \/ i >= n) => g.argv[i] < g.argv[j]
  /\ {g.argv[i] : i \in n..(argc - 1)} = Words(text, posix)

\* Without skipped words nothing has been moved.
LEMMA NothingMoved ==
  ASSUME argc \in Nat, NEW c, NEW g \in States(c), Sane(g), g.first_nonopt = g.last_nonopt
  PROVE  \A i, j \in Indices : i < j => g.argv[i] < g.argv[j]
<1>1. /\ g.first_nonopt \in Int /\ g.argv \in [Indices -> Indices]
      /\ \A i, j \in Indices : i < j /\ (j < g.last_nonopt \/ g.last_nonopt <= i) =>
           g.argv[i] < g.argv[j]
      /\ \A i \in Indices : i >= g.last_nonopt => g.argv[i] = i
      /\ \A i \in Indices : i < g.last_nonopt => g.argv[i] < g.last_nonopt
  BY DEF States, Sane, Scanned, InOrder, Untouched, Together
<1>2. \A i \in Indices : i \in Int
  BY DEF Indices
<1> SUFFICES ASSUME NEW i \in Indices, NEW j \in Indices, i < j
             PROVE  g.argv[i] < g.argv[j]
  BY Zenon
<1>3. CASE j < g.last_nonopt \/ g.last_nonopt <= i
  BY Zenon, <1>1, <1>3
<1>4. CASE i < g.last_nonopt /\ j >= g.last_nonopt
  <2>1. g.argv[j] = j /\ g.argv[i] < g.last_nonopt /\ g.argv[i] \in Indices
    BY Zenon, <1>1, <1>4
  <2> QED BY SMTT(30), <1>1, <1>2, <1>4, <2>1
<1> QED BY SMTT(30), <1>1, <1>2, <1>3, <1>4

\* The words are those from n on when this is where WordsSkipped has them.
LEMMA WordsFrom ==
  ASSUME text \in CommandLines, NEW c, NEW g \in States(c), Sane(g), NEW n \in 1..argc,
         \A i \in Indices : role[g.argv[i]] \in {"word", "rest"} <=> i >= n
  PROVE  {g.argv[i] : i \in n..(argc - 1)} = Words(text, posix)
<1>0. argc \in Nat /\ DOMAIN text = Indices
  BY Zenon, ArgcType
<1>1. Words(text, posix) = {k \in Indices : role[k] \in {"word", "rest"}}
  BY Zenon, <1>0 DEF Words, role
<1>2. \A i : i \in n..(argc - 1) <=> i \in Indices /\ i >= n
  BY <1>0 DEF Indices
<1>3. \A i \in Indices : g.argv[i] \in Indices
  BY Zenon DEF States
<1>4. \A k \in Indices : \E i \in Indices : g.argv[i] = k
  BY Zenon, ArgvOnto
<1> QED BY SMTT(30), <1>1, <1>2, <1>3, <1>4

\* All strings are read.
LEMMA EndsAtEof ==
  ASSUME text \in CommandLines, NEW c, NEW g \in States(c), Sane(g), WordsSkipped(g),
         g.optind = argc, g.first_nonopt = g.last_nonopt \/ g.last_nonopt = g.optind
  PROVE  Ends(g, IF g.first_nonopt # g.last_nonopt THEN g.first_nonopt ELSE g.optind)
<1>0. argc \in Nat \ {0}
  BY Zenon, ArgcType
<1>1. /\ g.first_nonopt \in 1..argc /\ g.last_nonopt \in 1..argc
      /\ \A i \in Indices : i \in Int /\ i < argc
      /\ \A i \in Indices :
           role[g.argv[i]] \in {"word", "rest"} <=> g.first_nonopt <= i /\ i < g.last_nonopt
  BY <1>0 DEF States, WordsSkipped, Indices
<1>2. CASE g.first_nonopt = g.last_nonopt
  <2>1. \A i \in Indices : role[g.argv[i]] \in {"word", "rest"} <=> i >= argc
    <3>1. \A i \in Indices : ~(g.first_nonopt <= i /\ i < g.last_nonopt) /\ ~(i >= argc)
      BY SMTT(30), <1>0, <1>1, <1>2
    <3> QED BY <1>1, <3>1, Zenon
  <2>2. argc \in 1..argc
    BY SMTT(30), <1>0
  <2>3. {g.argv[i] : i \in argc..(argc - 1)} = Words(text, posix)
    BY SMTT(30), <2>1, <2>2, WordsFrom
  <2>4. \A i, j \in Indices : i < j => g.argv[i] < g.argv[j]
    BY Zenon, <1>0, <1>2, NothingMoved
  <2>5. Ends(g, argc)
    BY <2>3, <2>4, Zenon DEF Ends
  <2> QED BY Zenon, <1>2, <2>5
<1>3. CASE g.first_nonopt # g.last_nonopt
  <2> DEFINE n == g.first_nonopt
  <2>1. g.last_nonopt = argc
    BY Zenon, <1>3
  <2>2. \A i \in Indices : role[g.argv[i]] \in {"word", "rest"} <=> i >= n
    <3>1. \A i \in Indices : g.first_nonopt <= i /\ i < g.last_nonopt <=> i >= n
      BY ZenonT(30), <1>0, <1>1, <2>1
    <3> QED BY <1>1, <3>1, Zenon
  <2>3. {g.argv[i] : i \in n..(argc - 1)} = Words(text, posix)
    BY SMTT(30), <1>1, <2>2, WordsFrom
  <2>4. \A i, j \in Indices : i < j /\ (j < n \/ i >= n) => g.argv[i] < g.argv[j]
    BY Zenon, <1>1, <2>1 DEF Sane, Scanned, InOrder, Together
  <2>5. Ends(g, n)
    BY <2>3, <2>4, Zenon DEF Ends
  <2> QED BY Zenon, <1>3, <2>5
<1> QED BY Zenon, <1>2, <1>3

\* With POSIXLY_CORRECT the first word ends the options.
LEMMA EndsAtWord ==
  ASSUME text \in CommandLines, posix, NEW c, NEW g \in States(c), Sane(g), WordsSkipped(g),
         g.optind < argc, Fresh(g.optind), text[g.optind] # <<"-", "-">>,
         NonOption(text[g.optind]), g.first_nonopt = g.last_nonopt
  PROVE  Ends(g, g.optind)
<1>0. argc \in Nat \ {0}
  BY Zenon, ArgcType
<1>1. /\ g.optind \in 1..(argc - 1) /\ g.optind \in Indices /\ g.optind \in 1..argc
      /\ \A i \in Indices : i \in Int /\ i < argc
      /\ \A i \in Indices : i >= g.optind => g.argv[i] = i
      /\ g.first_nonopt \in Int
  <2>1. /\ g.optind \in 1..argc /\ g.first_nonopt \in Int /\ g.last_nonopt \in Int
        /\ g.last_nonopt <= g.optind
        /\ \A i \in Indices : i >= g.last_nonopt => g.argv[i] = i
    BY DEF States, Sane, Scanned, Untouched
  <2>2. \A i \in Indices : i \in Int /\ i < argc
    BY SMTT(30), <1>0 DEF Indices
  <2>3. g.optind \in 1..(argc - 1) /\ g.optind \in Indices
    BY SMTT(30), <1>0, <2>1 DEF Indices
  <2>4. \A i \in Indices : i >= g.optind => i >= g.last_nonopt
    BY SMTT(30), <2>1, <2>2
  <2> QED BY ZenonT(30), <2>1, <2>2, <2>3, <2>4
<1>2. role[g.optind] = "word"
  BY Zenon, <1>1, RoleFacts
<1>3. \A l \in (g.optind + 1)..(argc - 1) : role[l] = "rest"
  BY ZenonT(30), <1>1, <1>2, RestFollows
<1>4. ASSUME NEW i \in Indices
      PROVE  role[g.argv[i]] \in {"word", "rest"} <=> i >= g.optind
  <2>1. CASE i < g.optind
    <3>1. ~(g.first_nonopt <= i /\ i < g.last_nonopt) /\ ~(i >= g.optind)
      BY SMTT(30), <1>1, <2>1
    <3> QED BY ZenonT(30), <2>1, <3>1 DEF WordsSkipped
  <2>2. CASE i = g.optind
    BY SMTT(30), <1>1, <1>2, <2>2
  <2>3. CASE i > g.optind
    <3>1. g.argv[i] = i /\ i \in (g.optind + 1)..(argc - 1)
      BY SMTT(30), <1>0, <1>1, <2>3
    <3> QED BY SMTT(30), <1>1, <1>3, <2>3, <3>1
  <2> QED BY SMTT(30), <1>1, <2>1, <2>2, <2>3
<1>5. {g.argv[i] : i \in g.optind..(argc - 1)} = Words(text, posix)
  <2>1. \A i \in Indices : role[g.argv[i]] \in {"word", "rest"} <=> i >= g.optind
    BY Zenon, <1>4
  <2>2. g.optind \in 1..argc
    BY Zenon, <1>1
  <2> QED BY <2>1, <2>2, WordsFrom, ZenonT(30)
<1>6. \A i, j \in Indices : i < j => g.argv[i] < g.argv[j]
  BY ZenonT(30), <1>0, NothingMoved
<1> QED BY <1>5, <1>6, Zenon DEF Ends

\* The invariant: until EOF what was read is what the line means, and at EOF
\* the words are at the end.
PermutedInv ==
  /\ GetoptInv
  /\ result.c # EOF /\ optind # 0 => Tracked(Current)
  /\ Permuted

\* Every call keeps track.
LEMMA CallKeepsTrack ==
  ASSUME PermutedInv, [Next]_getoptVars
  PROVE  PermutedInv'
<1> DEFINE g == Scan(Current)
<1>1. GetoptInv'
  BY Zenon, CallKeeps DEF PermutedInv
<1>2. CASE UNCHANGED getoptVars
  BY <1>1, <1>2, Zenon DEF getoptVars, PermutedInv, Permuted, Tracked, Current, WordsSkipped,
     AtString, Fresh, LeftOf, role, Indices, argc
<1>3. CASE Next
  <2>1. /\ result.c # EOF /\ text' = text /\ posix' = posix
        /\ argc' = argc /\ role' = role /\ Indices' = Indices
    BY <1>3, Zenon DEF Next, getopt_long, ReturnEof, ReturnAtWord, ReturnOption, argc, role, Indices
  <2>2. text \in CommandLines /\ argc \in Nat \ {0}
    BY Zenon, ArgcType DEF PermutedInv, GetoptInv
  <2>3. /\ g \in States(g.nextchar) /\ Sane(g)
        /\ g.nextchar # NULL => g.optind < argc
    BY ZenonT(30), <2>1, ScanSane DEF PermutedInv
  <2>4. /\ argv' = g.argv /\ first_nonopt' = g.first_nonopt
        /\ last_nonopt' = g.last_nonopt
    BY Zenon, <1>3 DEF Next, getopt_long, ReturnEof, ReturnAtWord, ReturnOption, Install
  <2>5. /\ WordsSkipped(g)
        /\ g.nextchar # NULL => Tracked(g)
        /\ g.nextchar = NULL =>
             /\ g.first_nonopt = g.last_nonopt \/ g.last_nonopt = g.optind
             /\ g.optind < argc =>
                  /\ Fresh(g.optind) /\ text[g.optind] # <<"-", "-">>
                  /\ IF posix THEN g.first_nonopt = g.last_nonopt
                     ELSE ~NonOption(text[g.optind])
    BY Zenon, <2>1, ScanTracked DEF PermutedInv
  <2>6. DOMAIN g.argv = Indices /\ g.optind \in 1..argc
    BY Zenon, <2>3 DEF States
  <2>7. g.optind # argc => g.optind < argc /\ g.argv[g.optind] = g.optind
                             /\ g.optind \in 1..(argc - 1)
    BY SMTT(30), <2>2, <2>3 DEF States, Sane, Scanned, Untouched, Indices
  <2>8. ASSUME NEW n, optind' = n, result'.c = EOF, Ends(g, n)
        PROVE  PermutedInv'
    <3>1. Permuted'
      BY ZenonT(30), <2>1, <2>4, <2>6, <2>8 DEF Permuted, Ends
    <3> QED BY ZenonT(30), <1>1, <2>8, <3>1 DEF PermutedInv
  <2>9. CASE ReturnEof
    <3> DEFINE n == IF g.first_nonopt # g.last_nonopt THEN g.first_nonopt ELSE g.optind
    <3>1. g.nextchar = NULL /\ g.optind = argc /\ optind' = n /\ result'.c = EOF
      BY <2>9 DEF ReturnEof
    <3>2. Ends(g, n)
      BY ZenonT(30), <2>2, <2>3, <2>5, <3>1, EndsAtEof
    <3> HIDE DEF n
    <3> QED BY ZenonT(30), <2>8, <3>1, <3>2
  <2>10. CASE ReturnAtWord
    <3>1. /\ g.nextchar = NULL /\ g.optind # argc /\ optind' = g.optind /\ result'.c = EOF
          /\ NonOption(text[g.argv[g.optind]])
      BY <2>10 DEF ReturnAtWord
    <3>2. Ends(g, g.optind)
      BY <2>2, <2>3, <2>5, <2>7, <3>1, EndsAtWord, ZenonT(30)
    <3> QED BY ZenonT(30), <2>8, <3>1, <3>2
  <2>11. CASE ReturnOption
    <3> DEFINE d == Decode(g)
               h == [g EXCEPT !.optind = d.optind, !.nextchar = d.nextchar]
    <3>1. /\ optind' = d.optind /\ nextchar' = d.nextchar /\ result'.c = d.c
          /\ g.nextchar # NULL \/ (g.optind # argc /\ ~NonOption(text[g.argv[g.optind]]))
      BY SMTT(30), <2>11 DEF ReturnOption
    <3>2. g.optind < argc /\ g.argv[g.optind] = g.optind /\ g.optind \in 1..(argc - 1)
      BY SMTT(30), <2>2, <2>3, <2>6, <2>7, <3>1
    <3>3. role[g.optind] = "option" /\ (g.nextchar = NULL => ~NonOption(text[g.optind]))
      BY <2>2, <2>5, <3>1, <3>2, RoleFacts, ZenonT(30) DEF Tracked, AtString
    <3>4. d.c # EOF
      BY Zenon, DecodeIsNoEof
    <3>5. /\ AtString(h) /\ d.optind \in g.optind..argc
          /\ \A i \in g.optind..(d.optind - 1) : role[i] \in {"option", "argument"}
      BY <2>2, <2>3, <2>5, <3>2, <3>3, DecodeTracked, ZenonT(30) DEF Tracked
    <3>6. /\ h.optind = d.optind /\ h.nextchar = d.nextchar /\ h.argv = g.argv
          /\ h.first_nonopt = g.first_nonopt /\ h.last_nonopt = g.last_nonopt
      BY <2>3, Zenon DEF States
    <3> HIDE DEF d, h
    <3>7. WordsSkipped(h)
      <4> SUFFICES ASSUME NEW i \in Indices, i < d.optind
                   PROVE  role[g.argv[i]] \in {"word", "rest"} <=>
                            g.first_nonopt <= i /\ i < g.last_nonopt
        BY Zenon, <3>6 DEF WordsSkipped
      <4>1. CASE i < g.optind
        BY Zenon, <2>5, <4>1 DEF WordsSkipped
      <4>2. CASE ~(i < g.optind)
        <5>1. /\ i \in Int /\ g.optind \in Int /\ g.last_nonopt \in Int
              /\ g.last_nonopt <= g.optind
              /\ \A k \in Indices : k >= g.last_nonopt => g.argv[k] = k
          BY SMTT(30), <2>3 DEF States, Sane, Scanned, Untouched, Indices
        <5>2. i \in g.optind..(d.optind - 1) /\ ~(i < g.last_nonopt) /\ i >= g.last_nonopt
          BY SMTT(30), <3>5, <4>2, <5>1
        <5>3. role[g.argv[i]] \in {"option", "argument"}
          BY ZenonT(30), <3>5, <5>1, <5>2
        <5> QED BY ZenonT(30), <5>2, <5>3
      <4> QED BY Zenon, <4>1, <4>2
    <3>8. posix => g.first_nonopt = g.last_nonopt
      BY Zenon, <2>5, <3>2 DEF Tracked
    <3>9. Tracked(h)
      BY ZenonT(30), <3>5, <3>6, <3>7, <3>8 DEF Tracked
    <3>10. Current' = [argv |-> h.argv, optind |-> h.optind, nextchar |-> h.nextchar,
                       first_nonopt |-> h.first_nonopt, last_nonopt |-> h.last_nonopt]
      BY ZenonT(30), <2>4, <3>1, <3>6 DEF Current
    <3>11. Tracked(Current)'
      BY ZenonT(30), <2>1, <3>9, <3>10 DEF Tracked, WordsSkipped, AtString, Fresh, LeftOf
    <3>12. Permuted'
      BY Zenon, <3>1, <3>4 DEF Permuted
    <3> QED BY ZenonT(30), <1>1, <3>11, <3>12 DEF PermutedInv
  <2> QED BY ZenonT(30), <1>3, <2>9, <2>10, <2>11 DEF Next, getopt_long
<1> QED BY Zenon, <1>2, <1>3

\* When getopt_long is done the options and their arguments precede the words,
\* each in the order of the command line, and optind is the first word: for
\* every table, every command line, with and without POSIXLY_CORRECT.
THEOREM AlwaysPermuted == CLSpec => []Permuted
<1>1. CLInit => PermutedInv
  <2> SUFFICES ASSUME CLInit PROVE PermutedInv
    BY Zenon
  <2>1. GetoptInv /\ result.c # EOF /\ optind = 0
    BY Zenon DEF CLInit, Init, GetoptInv, NoResult, EOF
  <2> QED BY Zenon, <2>1 DEF PermutedInv, Permuted
<1>2. PermutedInv /\ [CLNext]_clVars => PermutedInv'
  <2> SUFFICES ASSUME PermutedInv, [CLNext]_clVars PROVE PermutedInv'
    BY Zenon
  <2>1. [Next]_getoptVars
    BY Zenon DEF CLNext, clVars
  <2> QED BY ZenonT(30), <2>1, CallKeepsTrack
<1>3. PermutedInv => Permuted
  BY Zenon DEF PermutedInv
<1> QED
  BY <1>1, <1>2, <1>3, PTL DEF CLSpec
=============================================================================
