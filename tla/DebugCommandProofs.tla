------------------------- MODULE DebugCommandProofs -------------------------
(***************************************************************************)
(* For any payloads, any buffer and any output in any division into        *)
(* chunks: the scanner finds what a reader of the whole text would, the    *)
(* wait for the handshake settles once, and the message blames a bad line  *)
(* only when there was one.                                                *)
(***************************************************************************)
EXTENDS DebugCommand, Induction, SequenceTheorems

-----------------------------------------------------------------------------
(* Lines of a text.                                                         *)

\* The line a text is in the middle of.
Rest(text) == LineAt(Append(text, "nl"), Len(text) + 1)

IsLineStart(text, j, i) ==
    /\ i \in 1 .. j
    /\ i = 1 \/ text[i - 1] = "nl"
    /\ \A k \in i .. j - 1 : text[k] # "nl"

\* Sequences that agree on an interval have the same slice there.
LEMMA SubSeqAgrees ==
  ASSUME NEW S, NEW s \in Seq(S), NEW t \in Seq(S), NEW a \in Nat \ {0}, NEW b \in Nat,
         b <= Len(s), b <= Len(t), \A k \in a .. b : s[k] = t[k]
  PROVE  SubSeq(s, a, b) = SubSeq(t, a, b)
<1>1. \A k \in a .. b : s[k] \in S /\ t[k] \in S
  BY ElementOfSeq, LenProperties
<1>2. /\ SubSeq(s, a, b) \in Seq(S) /\ SubSeq(t, a, b) \in Seq(S)
      /\ Len(SubSeq(s, a, b)) = Len(SubSeq(t, a, b))
  BY <1>1, SubSeqProperties
<1>3. /\ \A k \in 1 .. b - a + 1 : SubSeq(s, a, b)[k] = s[a + k - 1]
      /\ \A k \in 1 .. b - a + 1 : SubSeq(t, a, b)[k] = t[a + k - 1]
      /\ Len(SubSeq(s, a, b)) = IF a <= b THEN b - a + 1 ELSE 0
  BY <1>1, SubSeqProperties
<1>4. \A k \in 1 .. Len(SubSeq(s, a, b)) : SubSeq(s, a, b)[k] = SubSeq(t, a, b)[k]
  BY <1>3
<1> QED BY <1>2, <1>4, SeqEqual

\* Every place is in exactly one line.
LEMMA LineStarts ==
  ASSUME NEW text, NEW j \in Nat \ {0}
  PROVE  /\ IsLineStart(text, j, LineStart(text, j))
         /\ \A i : IsLineStart(text, j, i) => i = LineStart(text, j)
<1> DEFINE starts == {i \in 1 .. j : i = 1 \/ text[i - 1] = "nl"}
<1>1. \E i : IsLineStart(text, j, i)
  <2>1. starts \in SUBSET (1 .. j) /\ 1 \in starts
    OBVIOUS
  <2>2. PICK i \in starts : \A m \in starts : m <= i
    BY <2>1, Greatest
  <2>3. ASSUME NEW k \in i .. j - 1, text[k] = "nl" PROVE FALSE
    <3>1. k + 1 \in 1 .. j /\ k + 1 - 1 = k /\ ~(k + 1 <= i)
      BY <2>1
    <3>2. k + 1 \in starts
      BY <2>3, <3>1
    <3> QED BY <2>2, <3>1, <3>2
  <2> QED BY <2>2, <2>3 DEF IsLineStart
<1>2. IsLineStart(text, j, LineStart(text, j))
  BY <1>1 DEF IsLineStart, LineStart
<1>3. ASSUME NEW a, NEW b, IsLineStart(text, j, a), IsLineStart(text, j, b), a < b
      PROVE  FALSE
  <2>1. a \in 1 .. j /\ b \in 1 .. j /\ b - 1 \in a .. j - 1 /\ b # 1
    BY <1>3 DEF IsLineStart
  <2> QED BY <1>3, <2>1 DEF IsLineStart
<1>4. ASSUME NEW i, IsLineStart(text, j, i) PROVE i = LineStart(text, j)
  <2>1. i \in 1 .. j /\ LineStart(text, j) \in 1 .. j
    BY <1>2, <1>4 DEF IsLineStart
  <2>2. ~(i < LineStart(text, j)) /\ ~(LineStart(text, j) < i)
    BY <1>2, <1>3, <1>4
  <2> QED BY <2>1, <2>2
<1> QED BY <1>2, <1>4

\* A line is settled once its newline is there, whatever comes after it.
LEMMA LineKept ==
  ASSUME NEW text \in Seq(Symbols), NEW c \in Symbols, NEW j \in 1 .. Len(text)
  PROVE  LineAt(Append(text, c), j) = LineAt(text, j)
<1> DEFINE more == Append(text, c)
<1>1. /\ more \in Seq(Symbols) /\ Len(more) = Len(text) + 1
      /\ \A k \in 1 .. Len(text) : more[k] = text[k]
  BY AppendProperties
<1> HIDE DEF more
<1>2. Len(text) \in Nat
  OBVIOUS
<1>3. IsLineStart(more, j, LineStart(text, j))
  <2>1. IsLineStart(text, j, LineStart(text, j))
    BY LineStarts, <1>2
  <2> QED BY <1>1, <1>2, <2>1 DEF IsLineStart
<1>4. LineStart(more, j) = LineStart(text, j) /\ LineStart(text, j) \in 1 .. j
  BY <1>2, <1>3, LineStarts DEF IsLineStart
<1> DEFINE m == LineStart(text, j)
<1> HIDE DEF m
<1>5. SubSeq(more, m, j - 1) = SubSeq(text, m, j - 1)
  <2>1. m \in Nat \ {0} /\ j - 1 \in Nat
    BY <1>4 DEF m
  <2>2. \A k \in m .. j - 1 : more[k] = text[k]
    BY <1>1, <1>2, <2>1
  <2>3. j - 1 <= Len(text) /\ j - 1 <= Len(more)
    BY <1>1, <1>2
  <2> QED BY <1>1, <2>1, <2>2, <2>3, SubSeqAgrees
<1> QED BY <1>4, <1>5 DEF LineAt, more, m

\* The rest of a text starts after its last newline and has none itself.
LEMMA RestIs ==
  ASSUME NEW text \in Seq(Symbols)
  PROVE  \E i \in 1 .. Len(text) + 1 :
            /\ IsLineStart(text, Len(text) + 1, i)
            /\ Rest(text) = SubSeq(text, i, Len(text))
            /\ Rest(text) \in Seq(Symbols \ {"nl"})
            /\ Len(Rest(text)) = Len(text) + 1 - i
<1> DEFINE n == Len(text)
           more == Append(text, "nl")
           i == LineStart(more, n + 1)
<1>1. n \in Nat /\ "nl" \in Symbols
  BY DEF Symbols
<1>2. /\ more \in Seq(Symbols) /\ Len(more) = n + 1
      /\ \A k \in 1 .. n : more[k] = text[k]
  BY <1>1, AppendProperties
<1>3. IsLineStart(more, n + 1, i)
  BY <1>1, LineStarts
<1> HIDE DEF more, i
<1>4. i \in 1 .. n + 1
  BY <1>3 DEF IsLineStart
<1>5. IsLineStart(text, n + 1, i)
  BY <1>1, <1>2, <1>3 DEF IsLineStart
<1>6. Rest(text) = SubSeq(more, i, n)
  <2>1. (n + 1) - 1 = n
    BY <1>1
  <2>2. Rest(text) = SubSeq(more, i, (n + 1) - 1)
    BY DEF Rest, LineAt, more, i
  <2> QED BY <2>1, <2>2
<1>7. SubSeq(more, i, n) = SubSeq(text, i, n)
  <2>1. i \in Nat \ {0} /\ n <= Len(more) /\ n <= Len(text)
    BY <1>1, <1>2, <1>4
  <2>2. \A k \in i .. n : more[k] = text[k]
    BY <1>2, <2>1
  <2> QED BY <1>1, <1>2, <2>1, <2>2, SubSeqAgrees
<1>8. \A k \in i .. n : text[k] \in Symbols \ {"nl"}
  <2>1. \A k \in i .. n : text[k] # "nl"
    BY <1>1, <1>5 DEF IsLineStart
  <2> QED BY <1>4, <2>1, ElementOfSeq
<1>9. /\ SubSeq(text, i, n) \in Seq(Symbols \ {"nl"})
      /\ Len(SubSeq(text, i, n)) = IF i <= n THEN n - i + 1 ELSE 0
  <2>1. i \in Int /\ n \in Int
    BY <1>1, <1>4
  <2> QED BY <1>8, <2>1, SubSeqProperties
<1>10. Len(SubSeq(text, i, n)) = n + 1 - i
  BY <1>1, <1>4, <1>9
<1> QED BY <1>4, <1>5, <1>6, <1>7, <1>9, <1>10

\* The rest of a text grows with it and starts again after a newline.
LEMMA RestGrows ==
  ASSUME NEW text \in Seq(Symbols)
  PROVE  /\ Rest(Append(text, "nl")) = <<>>
         /\ \A c \in Symbols \ {"nl"} : Rest(Append(text, c)) = Append(Rest(text), c)
         /\ Rest(text) \in Seq(Symbols \ {"nl"})
<1> DEFINE n == Len(text)
<1>1. n \in Nat /\ "nl" \in Symbols
  BY DEF Symbols
<1>2. PICK i \in 1 .. n + 1 : /\ IsLineStart(text, n + 1, i)
                              /\ Rest(text) = SubSeq(text, i, n)
                              /\ Rest(text) \in Seq(Symbols \ {"nl"})
                              /\ Len(Rest(text)) = n + 1 - i
  BY RestIs
<1>3. ASSUME NEW c \in Symbols
      PROVE  \E m \in 1 .. n + 2 : 
               /\ IsLineStart(Append(text, c), n + 2, m)
               /\ Rest(Append(text, c)) = SubSeq(Append(text, c), m, n + 1)
  <2>1. Append(text, c) \in Seq(Symbols) /\ Len(Append(text, c)) = n + 1
    BY AppendProperties
  <2>2. n + 1 + 1 = n + 2
    BY <1>1
  <2> QED BY RestIs, <2>1, <2>2
<1>4. Rest(Append(text, "nl")) = <<>>
  <2> DEFINE more == Append(text, "nl")
  <2>1. more \in Seq(Symbols) /\ Len(more) = n + 1 /\ more[n + 1] = "nl"
    BY <1>1, AppendProperties
  <2>2. PICK m \in 1 .. n + 2 : /\ IsLineStart(more, n + 2, m)
                                /\ Rest(more) = SubSeq(more, m, n + 1)
    BY <1>1, <1>3
  <2> HIDE DEF more
  <2>3. m = n + 2
    <3> SUFFICES ASSUME m # n + 2 PROVE FALSE
      OBVIOUS
    <3>1. n + 1 \in m .. n + 2 - 1
      BY <1>1
    <3> QED BY <2>1, <2>2, <3>1 DEF IsLineStart
  <2>4. SubSeq(more, n + 2, n + 1) = <<>>
    BY <1>1, <2>1
  <2> QED BY <2>2, <2>3, <2>4 DEF more
<1>5. ASSUME NEW c \in Symbols \ {"nl"}
      PROVE  Rest(Append(text, c)) = Append(Rest(text), c)
  <2> DEFINE more == Append(text, c)
  <2>1. /\ more \in Seq(Symbols) /\ Len(more) = n + 1 /\ more[n + 1] = c
        /\ \A k \in 1 .. n : more[k] = text[k]
    BY <1>1, AppendProperties
  <2>2. PICK m \in 1 .. n + 2 : /\ IsLineStart(more, n + 2, m)
                                /\ Rest(more) = SubSeq(more, m, n + 1)
    BY <1>1, <1>3
  <2> HIDE DEF more
  <2>3. IsLineStart(more, n + 2, i)
    <3>1. /\ i = 1 \/ text[i - 1] = "nl"
          /\ \A k \in i .. n : text[k] # "nl"
      BY <1>1, <1>2 DEF IsLineStart
    <3>2. i = 1 \/ more[i - 1] = "nl"
      BY <1>1, <2>1, <3>1
    <3>3. \A k \in i .. n + 1 : more[k] # "nl"
      BY <1>1, <2>1, <3>1
    <3> QED BY <1>1, <3>2, <3>3 DEF IsLineStart
  <2>4. m = i
    <3>1. n + 2 \in Nat \ {0}
      BY <1>1
    <3> QED BY <2>2, <2>3, <3>1, LineStarts
  <2>5. SubSeq(more, i, n + 1) = Append(SubSeq(text, i, n), c)
    <3> DEFINE short == SubSeq(text, i, n)
               long  == SubSeq(more, i, n + 1)
    <3>1. i \in Int /\ n \in Int /\ n + 1 \in Int
      BY <1>1
    <3>2. /\ \A k \in i .. n : text[k] \in Symbols
          /\ \A k \in i .. n + 1 : more[k] \in Symbols
      BY <1>1, <2>1, ElementOfSeq
    <3>3. /\ short \in Seq(Symbols) /\ Len(short) = n + 1 - i
          /\ \A k \in 1 .. n - i + 1 : short[k] = text[i + k - 1]
      BY <1>1, <1>2, <3>1, <3>2, SubSeqProperties
    <3>4. /\ long \in Seq(Symbols)
          /\ Len(long) = IF i <= n + 1 THEN n + 1 - i + 1 ELSE 0
          /\ \A k \in 1 .. n + 1 - i + 1 : long[k] = more[i + k - 1]
      BY <3>1, <3>2, SubSeqProperties
    <3> HIDE DEF short, long
    <3>5. /\ Append(short, c) \in Seq(Symbols) /\ Len(Append(short, c)) = Len(short) + 1
          /\ \A k \in 1 .. Len(short) : Append(short, c)[k] = short[k]
          /\ Append(short, c)[Len(short) + 1] = c
      BY <3>3, AppendProperties
    <3>6. Len(long) = n + 2 - i /\ Len(Append(short, c)) = n + 2 - i
      BY <1>1, <3>3, <3>4, <3>5
    <3>7. ASSUME NEW k \in 1 .. n + 2 - i PROVE long[k] = Append(short, c)[k]
      <4>1. long[k] = more[i + k - 1]
        BY <1>1, <3>4
      <4>2. CASE k = n + 2 - i
        BY <1>1, <2>1, <3>3, <3>5, <4>1, <4>2
      <4>3. CASE k # n + 2 - i
        <5>1. k \in 1 .. n + 1 - i /\ i + k - 1 \in 1 .. n
          BY <1>1, <4>3
        <5> QED BY <1>1, <2>1, <3>3, <3>5, <4>1, <5>1
      <4> QED BY <4>2, <4>3
    <3>8. long = Append(short, c)
      BY <3>4, <3>5, <3>6, <3>7, SeqEqual
    <3> QED BY <3>8 DEF short, long
  <2> QED BY <1>2, <2>2, <2>4, <2>5 DEF more
<1> QED BY <1>2, <1>4, <1>5

-----------------------------------------------------------------------------
(* A chunk, symbol by symbol.                                               *)

\* What the fold's recursion says of g.
Unfolds(g, base, seq, k) ==
    g = [s \in SUBSET (1 .. k) |->
            IF s = {} THEN base ELSE Step(g[s \ {Max(s)}], seq[Max(s)])]

\* The library's Max, on the sets of positions the fold goes through.
LEMMA MaxIs ==
  ASSUME NEW k \in Nat, NEW s \in SUBSET (1 .. k), s # {}
  PROVE  Max(s) \in s /\ \A m \in s : m <= Max(s)
<1>1. \E n \in s : \A m \in s : n >= m
  BY Greatest
<1> QED BY <1>1 DEF Max

\* A set of positions that holds k + 1 is taken apart at k + 1.
LEMMA TopIsMax ==
  ASSUME NEW k \in Nat, NEW s \in SUBSET (1 .. k + 1), k + 1 \in s
  PROVE  Max(s) = k + 1 /\ s \ {k + 1} \in SUBSET (1 .. k)
<1>1. Max(s) \in s /\ \A m \in s : m <= Max(s)
  <2>1. k + 1 \in Nat /\ s # {}
    OBVIOUS
  <2> QED BY <2>1, MaxIs
<1>2. Max(s) \in 1 .. k + 1
  BY <1>1
<1>3. Max(s) = k + 1
  BY <1>1, <1>2
<1>4. \A m \in 1 .. k + 1 : m # k + 1 => m \in 1 .. k
  OBVIOUS
<1> QED BY <1>3, <1>4

\* The recursion has a solution.
LEMMA FoldExists ==
  ASSUME NEW base, NEW seq, NEW k \in Nat
  PROVE  \E g : Unfolds(g, base, seq, k)
<1> DEFINE S == {n \in Nat : \E g : Unfolds(g, base, seq, n)}
<1>1. 0 \in S
  <2> DEFINE g == [s \in SUBSET (1 .. 0) |-> base]
  <2>1. SUBSET (1 .. 0) = {{}}
    OBVIOUS
  <2>2. Unfolds(g, base, seq, 0)
    BY <2>1 DEF Unfolds
  <2> QED BY <2>2
<1>2. ASSUME NEW n \in Nat, n \in S PROVE n + 1 \in S
  <2>1. PICK g : Unfolds(g, base, seq, n)
    BY <1>2
  <2> DEFINE h == [s \in SUBSET (1 .. n + 1) |->
                      IF n + 1 \in s THEN Step(g[s \ {n + 1}], seq[n + 1]) ELSE g[s]]
             next(s) == IF s = {} THEN base ELSE Step(h[s \ {Max(s)}], seq[Max(s)])
  <2>2. ASSUME NEW s \in SUBSET (1 .. n) PROVE h[s] = g[s] /\ s \in SUBSET (1 .. n + 1)
    <3>1. n + 1 \notin s /\ \A m \in s : m \in 1 .. n + 1
      OBVIOUS
    <3> QED BY <3>1
  <2>3. ASSUME NEW s \in SUBSET (1 .. n + 1) PROVE h[s] = next(s)
    <3>1. CASE n + 1 \in s
      <4>1. Max(s) = n + 1 /\ s \ {n + 1} \in SUBSET (1 .. n)
        BY <3>1, TopIsMax
      <4>2. h[s] = Step(g[s \ {n + 1}], seq[n + 1])
        BY <3>1
      <4>3. h[s \ {n + 1}] = g[s \ {n + 1}]
        BY <2>2, <4>1
      <4> HIDE DEF h
      <4> QED BY <3>1, <4>1, <4>2, <4>3
    <3>2. CASE n + 1 \notin s
      <4>1. s \in SUBSET (1 .. n)
        <5>1. \A m \in 1 .. n + 1 : m # n + 1 => m \in 1 .. n
          OBVIOUS
        <5> QED BY <3>2, <5>1
      <4>2. h[s] = g[s]
        BY <2>2, <4>1
      <4>3. g[s] = IF s = {} THEN base ELSE Step(g[s \ {Max(s)}], seq[Max(s)])
        BY <2>1, <4>1 DEF Unfolds
      <4>4. s # {} => h[s \ {Max(s)}] = g[s \ {Max(s)}]
        BY <2>2, <4>1
      <4> HIDE DEF h
      <4> QED BY <4>2, <4>3, <4>4
    <3> QED BY <3>1, <3>2
  <2>4. h = [s \in SUBSET (1 .. n + 1) |-> next(s)]
    <3>1. h = [s \in SUBSET (1 .. n + 1) |-> h[s]]
      OBVIOUS
    <3> HIDE DEF h, next
    <3> QED BY <2>3, <3>1
  <2>5. Unfolds(h, base, seq, n + 1)
    <3> HIDE DEF h
    <3> QED BY <2>4 DEF Unfolds
  <2> QED BY <2>5
<1> HIDE DEF S
<1>3. \A n \in 0 .. k : n \in S
  BY <1>1, <1>2, UpTo
<1> QED BY <1>3 DEF S

Folded(base, seq) == FoldLeft(Step, base, seq)

\* push() on a chunk is one symbol after the other.
LEMMA FoldSteps ==
  ASSUME NEW base, NEW seq, NEW k \in Nat, DOMAIN seq = 1 .. k
  PROVE  \E run : /\ run[0] = base
                  /\ \A n \in 0 .. k - 1 : run[n + 1] = Step(run[n], seq[n + 1])
                  /\ Folded(base, seq) = run[k]
<1> DEFINE g == CHOOSE g : Unfolds(g, base, seq, k)
<1>1. Unfolds(g, base, seq, k)
  BY FoldExists
<1>2. Folded(base, seq) = g[1 .. k]
  BY DEF Folded, FoldLeft, MapThenFoldSet, Unfolds
<1> HIDE DEF g
<1>3. \A s \in SUBSET (1 .. k) : g[s] =
        IF s = {} THEN base ELSE Step(g[s \ {Max(s)}], seq[Max(s)])
  BY <1>1 DEF Unfolds
<1> DEFINE run == [n \in 0 .. k |-> g[1 .. n]]
<1>4. run[0] = base
  BY <1>3
<1>5. ASSUME NEW n \in 0 .. k - 1 PROVE run[n + 1] = Step(run[n], seq[n + 1])
  <2>1. n \in Nat /\ n + 1 \in 0 .. k /\ n \in 0 .. k
    OBVIOUS
  <2>2. 1 .. n + 1 \in SUBSET (1 .. k) /\ n + 1 \in 1 .. n + 1
    BY <2>1
  <2>3. Max(1 .. n + 1) = n + 1
    BY <2>1, <2>2, TopIsMax
  <2>4. (1 .. n + 1) \ {n + 1} = 1 .. n
    BY <2>1
  <2>5. g[1 .. n + 1] = Step(g[1 .. n], seq[n + 1])
    <3>1. 1 .. n + 1 # {}
      BY <2>2
    <3> QED BY <1>3, <2>2, <2>3, <2>4, <3>1
  <2> QED BY <2>1, <2>5
<1>6. Folded(base, seq) = run[k]
  BY <1>2
<1> HIDE DEF run
<1> QED BY <1>4, <1>5, <1>6

-----------------------------------------------------------------------------
(* What a reader of the whole text would take.                              *)

\* A line parses to a payload that validates or not at all.
LEMMA PayloadIs ==
  ASSUME NEW line
  PROVE  Payload(line) \in Payloads \cup {NoHandshake}
BY DEF Payload

\* One symbol on, the lines are those there were, and with a newline the rest.
LEMMA LinesGrow ==
  ASSUME NEW text \in Seq(Symbols), NEW c \in Symbols
  PROVE  /\ Append(text, c) \in Seq(Symbols)
         /\ LineEnds(text) = {j \in 1 .. Len(text) : text[j] = "nl"}
         /\ LineEnds(Append(text, c)) =
               LineEnds(text) \cup (IF c = "nl" THEN {Len(text) + 1} ELSE {})
         /\ \A j \in LineEnds(text) : LineAt(Append(text, c), j) = LineAt(text, j)
         /\ c = "nl" => LineAt(Append(text, c), Len(text) + 1) = Rest(text)
<1> DEFINE n == Len(text)
           more == Append(text, c)
<1>1. /\ n \in Nat /\ more \in Seq(Symbols) /\ Len(more) = n + 1
      /\ \A k \in 1 .. n : more[k] = text[k]
      /\ more[n + 1] = c
  BY AppendProperties
<1>2. DOMAIN text = 1 .. n /\ DOMAIN more = 1 .. n + 1
  BY <1>1, LenProperties
<1>3. LineEnds(text) = {j \in 1 .. n : text[j] = "nl"}
  BY <1>2 DEF LineEnds
<1>4. LineEnds(more) = {j \in 1 .. n + 1 : more[j] = "nl"}
  BY <1>2 DEF LineEnds
<1>5. \A j \in LineEnds(text) : LineAt(more, j) = LineAt(text, j)
  BY <1>3, LineKept
<1>6. c = "nl" => LineAt(more, n + 1) = Rest(text)
  BY DEF Rest
<1> HIDE DEF more, n
<1>7. \A j : j \in 1 .. n + 1 <=> j \in 1 .. n \/ j = n + 1
  BY <1>1
<1>8. n + 1 \notin 1 .. n
  BY <1>1
<1>9. LineEnds(more) = LineEnds(text) \cup (IF c = "nl" THEN {n + 1} ELSE {})
  BY <1>1, <1>3, <1>4, <1>7, <1>8
<1> QED BY <1>1, <1>3, <1>5, <1>6, <1>9 DEF more, n

IsValid(line) == HasPrefix(line) /\ Payload(line) # NoHandshake

\* A handshake is found where the first valid line is, and only there.
LEMMA FirstIs ==
  ASSUME NEW text \in Seq(Symbols)
  PROVE  /\ ValidLines(text) = {} => FirstHandshake(text) = NoHandshake
         /\ ValidLines(text) # {} => FirstHandshake(text) # NoHandshake
         /\ \A j \in ValidLines(text) : (\A k \in ValidLines(text) : j <= k)
               => FirstHandshake(text) = Payload(LineAt(text, j))
<1> DEFINE first == CHOOSE j \in ValidLines(text) : \A k \in ValidLines(text) : j <= k
<1>1. \A j \in ValidLines(text) : j \in Nat /\ Payload(LineAt(text, j)) # NoHandshake
  BY LenProperties DEF ValidLines, LineEnds
<1>2. ValidLines(text) # {} => FirstHandshake(text) = Payload(LineAt(text, first))
  BY DEF FirstHandshake
<1>3. ASSUME ValidLines(text) # {}
      PROVE  first \in ValidLines(text) /\ \A k \in ValidLines(text) : first <= k
  <2>1. \E j \in ValidLines(text) : \A k \in ValidLines(text) : j <= k
    BY <1>1, <1>3, Least
  <2> QED BY <2>1
<1> HIDE DEF first
<1>4. ASSUME NEW j \in ValidLines(text), \A k \in ValidLines(text) : j <= k
      PROVE  FirstHandshake(text) = Payload(LineAt(text, j))
  <2>1. j <= first /\ first <= j /\ j \in Nat /\ first \in Nat
    BY <1>1, <1>3, <1>4
  <2>2. j = first
    BY <2>1
  <2> QED BY <1>2, <2>2
<1>5. ValidLines(text) = {} => FirstHandshake(text) = NoHandshake
  BY DEF FirstHandshake
<1> QED BY <1>1, <1>2, <1>3, <1>4, <1>5

\* One symbol on, the first handshake and the blame are those there were, unless
\* a newline has just ended the line that decides them.
LEMMA HandshakesGrow ==
  ASSUME NEW text \in Seq(Symbols), NEW c \in Symbols
  PROVE  /\ \A j \in ValidLines(Append(text, c)) :
               \/ j \in ValidLines(text) /\ LineAt(Append(text, c), j) = LineAt(text, j)
               \/ c = "nl" /\ LineAt(Append(text, c), j) = Rest(text) /\ IsValid(Rest(text))
         /\ FirstHandshake(Append(text, c)) =
               IF FirstHandshake(text) # NoHandshake THEN FirstHandshake(text)
               ELSE IF c = "nl" /\ HasPrefix(Rest(text)) THEN Payload(Rest(text))
               ELSE NoHandshake
         /\ HasBadLine(Append(text, c)) <=>
               \/ HasBadLine(text)
               \/ c = "nl" /\ HasPrefix(Rest(text)) /\ ~IsValid(Rest(text))
<1> DEFINE n == Len(text)
           more == Append(text, c)
<1>1. /\ more \in Seq(Symbols)
      /\ LineEnds(text) = {j \in 1 .. n : text[j] = "nl"}
      /\ LineEnds(more) = LineEnds(text) \cup (IF c = "nl" THEN {n + 1} ELSE {})
      /\ \A j \in LineEnds(text) : LineAt(more, j) = LineAt(text, j)
      /\ c = "nl" => LineAt(more, n + 1) = Rest(text)
  BY LinesGrow
<1>2. n \in Nat
  OBVIOUS
<1> HIDE DEF more, n
<1>3. \A t, j : j \in ValidLines(t) <=> j \in LineEnds(t) /\ IsValid(LineAt(t, j))
  BY DEF ValidLines, IsValid
<1>4. ValidLines(more) = ValidLines(text)
         \cup (IF c = "nl" /\ IsValid(Rest(text)) THEN {n + 1} ELSE {})
  BY <1>1, <1>3
<1>5. \A j \in ValidLines(text) : j \in 1 .. n /\ LineAt(more, j) = LineAt(text, j)
  BY <1>1, <1>3
<1>6. \A j \in ValidLines(more) :
         \/ j \in ValidLines(text) /\ LineAt(more, j) = LineAt(text, j)
         \/ c = "nl" /\ LineAt(more, j) = Rest(text) /\ IsValid(Rest(text))
  BY <1>1, <1>4, <1>5
<1>7. FirstHandshake(more) =
         IF FirstHandshake(text) # NoHandshake THEN FirstHandshake(text)
         ELSE IF c = "nl" /\ HasPrefix(Rest(text)) THEN Payload(Rest(text))
         ELSE NoHandshake
  <2>1. CASE ValidLines(text) # {}
    <3>1. PICK j \in ValidLines(text) : \A k \in ValidLines(text) : j <= k
      <4>1. ValidLines(text) \in SUBSET Nat
        BY <1>2, <1>5
      <4> QED BY <2>1, <4>1, Least
    <3>2. j \in ValidLines(more) /\ \A k \in ValidLines(more) : j <= k
      BY <1>2, <1>4, <1>5, <3>1
    <3> QED BY <1>1, <1>5, <2>1, <3>1, <3>2, FirstIs
  <2>2. CASE ValidLines(text) = {} /\ c = "nl" /\ IsValid(Rest(text))
    <3>1. ValidLines(more) = {n + 1}
      BY <1>4, <2>2
    <3>2. n + 1 <= n + 1
      BY <1>2
    <3>3. FirstHandshake(more) = Payload(LineAt(more, n + 1))
      BY <1>1, <3>1, <3>2, FirstIs
    <3> QED BY <1>1, <2>2, <3>3, FirstIs DEF IsValid
  <2>3. CASE ValidLines(text) = {} /\ ~(c = "nl" /\ IsValid(Rest(text)))
    <3>1. ValidLines(more) = {}
      BY <1>4, <2>3
    <3> QED BY <1>1, <2>3, <3>1, FirstIs DEF IsValid
  <2> QED BY <2>1, <2>2, <2>3
<1>8. HasBadLine(more) <=>
         \/ HasBadLine(text)
         \/ c = "nl" /\ HasPrefix(Rest(text)) /\ ~IsValid(Rest(text))
  <2>1. \A t : HasBadLine(t) <=>
           \E j \in LineEnds(t) : HasPrefix(LineAt(t, j)) /\ ~IsValid(LineAt(t, j))
    BY DEF HasBadLine, IsValid
  <2> QED BY <1>1, <2>1
<1> QED BY <1>6, <1>7, <1>8 DEF more

-----------------------------------------------------------------------------
(* The scanner, mid-text.                                                   *)

ScanTypes(scan) ==
    scan \in [buf : Seq(Symbols \ {"nl"}), found : Payloads \cup {NoHandshake},
              malformed : BOOLEAN]

\* What it holds says of the text so far: cut tells whether the cap has dropped
\* any of it.
ScanReads(scan, text, cut) ==
    /\ scan.buf = Rest(text) \/ (cut /\ Len(Rest(text)) > MaxBuf)
    /\ ~cut => /\ scan.found = FirstHandshake(text)
               /\ scan.found = NoHandshake => (scan.malformed <=> HasBadLine(text))
    /\ scan.found = NoHandshake =>
          \A j \in ValidLines(text) : Len(LineAt(text, j)) > MaxBuf

\* What consumeLine() does to the scanner, case by case.
LEMMA ConsumeIs ==
  ASSUME NEW scan, ScanTypes(scan), NEW line
  PROVE  /\ ScanTypes(ConsumeLine(scan, line))
         /\ ConsumeLine(scan, line).buf = scan.buf
         /\ ConsumeLine(scan, line).found =
               IF scan.found = NoHandshake /\ HasPrefix(line) THEN Payload(line)
               ELSE scan.found
         /\ ConsumeLine(scan, line).malformed <=>
               \/ scan.malformed
               \/ scan.found = NoHandshake /\ HasPrefix(line) /\ ~IsValid(line)
<1>1. CASE ~HasPrefix(line) \/ scan.found # NoHandshake
  BY <1>1 DEF ConsumeLine, ScanTypes
<1>2. CASE HasPrefix(line) /\ scan.found = NoHandshake /\ Payload(line) # NoHandshake
  BY <1>2, PayloadIs DEF ConsumeLine, ScanTypes, IsValid
<1>3. CASE HasPrefix(line) /\ scan.found = NoHandshake /\ Payload(line) = NoHandshake
  BY <1>3 DEF ConsumeLine, ScanTypes, IsValid
<1> QED BY <1>1, <1>2, <1>3

\* What one symbol of push() does to it.
LEMMA StepIs ==
  ASSUME NEW scan, ScanTypes(scan), NEW c \in Symbols
  PROVE  /\ ScanTypes(Step(scan, c))
         /\ c = "nl" => /\ Step(scan, c).buf = <<>>
                        /\ Step(scan, c).found = ConsumeLine(scan, scan.buf).found
                        /\ Step(scan, c).malformed = ConsumeLine(scan, scan.buf).malformed
         /\ c # "nl" => /\ Step(scan, c).buf = Append(scan.buf, c)
                        /\ Step(scan, c).found = scan.found
                        /\ Step(scan, c).malformed = scan.malformed
<1>1. CASE c = "nl"
  <2> DEFINE scan2 == ConsumeLine(scan, scan.buf)
  <2>1. ScanTypes(scan2) /\ <<>> \in Seq(Symbols \ {"nl"})
    BY ConsumeIs
  <2>2. Step(scan, c) = [scan2 EXCEPT !.buf = <<>>]
    BY <1>1 DEF Step
  <2> HIDE DEF scan2
  <2>3. ScanTypes(Step(scan, c))
    BY <2>1, <2>2 DEF ScanTypes
  <2>4. /\ Step(scan, c).buf = <<>> /\ Step(scan, c).found = scan2.found
        /\ Step(scan, c).malformed = scan2.malformed
    BY <2>1, <2>2 DEF ScanTypes
  <2> QED BY <1>1, <2>3, <2>4 DEF scan2
<1>2. CASE c # "nl"
  <2>1. Append(scan.buf, c) \in Seq(Symbols \ {"nl"})
    <3>1. scan.buf \in Seq(Symbols \ {"nl"}) /\ c \in Symbols \ {"nl"}
      BY <1>2 DEF ScanTypes
    <3> QED BY <3>1, AppendProperties
  <2>2. Step(scan, c) = [scan EXCEPT !.buf = Append(scan.buf, c)]
    BY <1>2 DEF Step
  <2> QED BY <1>2, <2>1, <2>2 DEF ScanTypes
<1> QED BY <1>1, <1>2

\* One symbol on, it still reads the text.
LEMMA StepReads ==
  ASSUME NEW scan, NEW text \in Seq(Symbols), NEW cut \in BOOLEAN, NEW c \in Symbols,
         ScanTypes(scan), ScanReads(scan, text, cut)
  PROVE  ScanReads(Step(scan, c), Append(text, c), cut)
<1> DEFINE more == Append(text, c)
           rest == Rest(text)
           scan2 == Step(scan, c)
<1>1. rest \in Seq(Symbols \ {"nl"}) /\ Len(rest) \in Nat /\ MaxBuf \in Nat
  BY RestGrows, DebugCommandAssumption
<1>2. /\ \A j \in ValidLines(more) :
           \/ j \in ValidLines(text) /\ LineAt(more, j) = LineAt(text, j)
           \/ c = "nl" /\ LineAt(more, j) = rest /\ IsValid(rest)
      /\ FirstHandshake(more) =
           IF FirstHandshake(text) # NoHandshake THEN FirstHandshake(text)
           ELSE IF c = "nl" /\ HasPrefix(rest) THEN Payload(rest)
           ELSE NoHandshake
      /\ HasBadLine(more) <=>
           \/ HasBadLine(text)
           \/ c = "nl" /\ HasPrefix(rest) /\ ~IsValid(rest)
  BY HandshakesGrow
<1>3. CASE c # "nl"
  <2>1. Rest(more) = Append(rest, c) /\ Len(Append(rest, c)) = Len(rest) + 1
    BY <1>1, <1>3, RestGrows, AppendProperties
  <2>2. /\ scan2.buf = Append(scan.buf, c) /\ scan2.found = scan.found
        /\ scan2.malformed = scan.malformed
    BY <1>3, StepIs
  <2> HIDE DEF more, rest, scan2
  <2>3. scan.buf = rest \/ (cut /\ Len(rest) > MaxBuf)
    BY DEF ScanReads, rest
  <2>4. scan2.buf = Rest(more) \/ (cut /\ Len(Rest(more)) > MaxBuf)
    BY <1>1, <2>1, <2>2, <2>3
  <2>5. ~cut => /\ scan2.found = FirstHandshake(more)
                /\ scan2.found = NoHandshake => (scan2.malformed <=> HasBadLine(more))
    BY <1>2, <1>3, <2>2 DEF ScanReads
  <2>6. scan2.found = NoHandshake =>
          \A j \in ValidLines(more) : Len(LineAt(more, j)) > MaxBuf
    BY <1>2, <1>3, <2>2 DEF ScanReads
  <2> QED BY <2>4, <2>5, <2>6 DEF ScanReads, more, scan2
<1>4. CASE c = "nl"
  <2>1. Rest(more) = <<>>
    BY <1>4, RestGrows
  <2>2. /\ scan2.buf = <<>>
        /\ scan2.found = IF scan.found = NoHandshake /\ HasPrefix(scan.buf)
                         THEN Payload(scan.buf) ELSE scan.found
        /\ scan2.malformed <=>
             \/ scan.malformed
             \/ scan.found = NoHandshake /\ HasPrefix(scan.buf) /\ ~IsValid(scan.buf)
    <3> DEFINE took == ConsumeLine(scan, scan.buf)
    <3>1. scan2.buf = <<>> /\ scan2.found = took.found /\ scan2.malformed = took.malformed
      BY <1>4, StepIs
    <3>2. /\ took.found = IF scan.found = NoHandshake /\ HasPrefix(scan.buf)
                          THEN Payload(scan.buf) ELSE scan.found
          /\ took.malformed <=>
               \/ scan.malformed
               \/ scan.found = NoHandshake /\ HasPrefix(scan.buf) /\ ~IsValid(scan.buf)
      BY ConsumeIs
    <3> HIDE DEF took, scan2
    <3> QED BY <3>1, <3>2
  <2> HIDE DEF more, rest, scan2
  <2>3. scan.buf = rest \/ (cut /\ Len(rest) > MaxBuf)
    BY DEF ScanReads, rest
  <2>4. ~cut => /\ scan2.found = FirstHandshake(more)
                /\ scan2.found = NoHandshake => (scan2.malformed <=> HasBadLine(more))
    BY <1>2, <1>4, <2>2, <2>3 DEF ScanReads, IsValid
  <2>5. ASSUME scan2.found = NoHandshake, NEW j \in ValidLines(more)
        PROVE  Len(LineAt(more, j)) > MaxBuf
    <3>1. scan.found = NoHandshake /\ ~IsValid(scan.buf)
      BY <2>2, <2>5 DEF IsValid
    <3>2. CASE j \in ValidLines(text) /\ LineAt(more, j) = LineAt(text, j)
      BY <3>1, <3>2 DEF ScanReads
    <3>3. CASE LineAt(more, j) = rest /\ IsValid(rest)
      BY <2>3, <3>1, <3>3
    <3> QED BY <1>2, <3>2, <3>3
  <2> QED BY <2>1, <2>2, <2>4, <2>5 DEF ScanReads, more, scan2
<1> QED BY <1>3, <1>4

\* ... and so it does after a chunk.
LEMMA PushedReads ==
  ASSUME fed \in Seq(Symbols), truncated \in BOOLEAN, NEW chunk \in Seq(Symbols),
         ScanTypes(Scanner), ScanReads(Scanner, fed, truncated)
  PROVE  /\ fed \o chunk \in Seq(Symbols)
         /\ ScanTypes(Pushed(chunk))
         /\ ScanReads(Pushed(chunk), fed \o chunk, truncated)
<1> DEFINE k == Len(chunk)
           all == fed \o chunk
           text(n) == SubSeq(all, 1, Len(fed) + n)
<1>1. /\ k \in Nat /\ Len(fed) \in Nat /\ DOMAIN chunk = 1 .. k
      /\ all \in Seq(Symbols) /\ Len(all) = Len(fed) + k
      /\ \A i \in 1 .. Len(fed) : all[i] = fed[i]
      /\ \A i \in 1 .. k : all[Len(fed) + i] = chunk[i]
  <2>1. /\ k \in Nat /\ Len(fed) \in Nat /\ DOMAIN chunk = 1 .. k
        /\ all \in Seq(Symbols) /\ Len(all) = Len(fed) + k
    BY ConcatProperties, LenProperties
  <2>2. \A i \in 1 .. Len(fed) + k :
           all[i] = IF i <= Len(fed) THEN fed[i] ELSE chunk[i - Len(fed)]
    BY ConcatProperties
  <2> HIDE DEF k, all
  <2>3. \A i \in 1 .. Len(fed) : all[i] = fed[i]
    BY <2>1, <2>2
  <2>4. ASSUME NEW i \in 1 .. k PROVE all[Len(fed) + i] = chunk[i]
    <3>1. /\ Len(fed) + i \in 1 .. Len(fed) + k /\ ~(Len(fed) + i <= Len(fed))
          /\ (Len(fed) + i) - Len(fed) = i
      BY <2>1
    <3> QED BY <2>2, <3>1
  <2> QED BY <2>1, <2>3, <2>4
<1>2. PICK run : /\ run[0] = Scanner
                 /\ \A n \in 0 .. k - 1 : run[n + 1] = Step(run[n], chunk[n + 1])
                 /\ Pushed(chunk) = run[k]
  <2>1. Pushed(chunk) = Folded(Scanner, chunk)
    BY DEF Pushed, Folded
  <2> HIDE DEF k
  <2> QED BY <1>1, <2>1, FoldSteps
<1> HIDE DEF all, k
<1>3. text(0) = fed
  <2>1. text(0) = SubSeq(fed, 1, Len(fed))
    <3>1. Len(fed) + 0 = Len(fed) /\ 1 \in Nat \ {0} /\ Len(fed) <= Len(all)
      BY <1>1
    <3> QED BY <1>1, <3>1, SubSeqAgrees
  <2> QED BY <2>1, SubSeqFull
<1>4. text(k) = all
  BY <1>1, SubSeqFull
<1>5. ASSUME NEW n \in Nat, n < k
      PROVE  /\ text(n) \in Seq(Symbols) /\ chunk[n + 1] \in Symbols
             /\ text(n + 1) = Append(text(n), chunk[n + 1])
  <2> DEFINE m == Len(fed) + n
  <2>1. /\ m \in Nat /\ Len(fed) + (n + 1) = m + 1 /\ m + 1 <= Len(all)
        /\ n + 1 \in 1 .. k /\ all[m + 1] = chunk[n + 1]
    BY <1>1, <1>5
  <2> HIDE DEF m
  <2>2. /\ SubSeq(all, 1, m + 1) \in Seq(Symbols)
        /\ Len(SubSeq(all, 1, m + 1)) = m + 1
        /\ \A i \in 1 .. m + 1 : SubSeq(all, 1, m + 1)[i] = all[i]
        /\ SubSeq(all, 1, m) \in Seq(Symbols)
        /\ Len(SubSeq(all, 1, m)) = m
        /\ \A i \in 1 .. m : SubSeq(all, 1, m)[i] = all[i]
    <3>1. /\ \A i \in 1 .. m + 1 : i \in 1 .. Len(all)
          /\ \A i \in 1 .. m : i \in 1 .. Len(all)
      BY <1>1, <2>1
    <3>2. /\ \A i \in 1 .. m + 1 : all[i] \in Symbols
          /\ \A i \in 1 .. m : all[i] \in Symbols
      BY <1>1, <3>1, ElementOfSeq
    <3>3. m \in Int /\ m + 1 \in Int /\ 1 \in Int
      BY <2>1
    <3>4. /\ SubSeq(all, 1, m + 1) \in Seq(Symbols)
          /\ Len(SubSeq(all, 1, m + 1)) = IF 1 <= m + 1 THEN (m + 1) - 1 + 1 ELSE 0
          /\ \A i \in 1 .. (m + 1) - 1 + 1 : SubSeq(all, 1, m + 1)[i] = all[1 + i - 1]
      BY <3>2, <3>3, SubSeqProperties
    <3>5. /\ SubSeq(all, 1, m) \in Seq(Symbols)
          /\ Len(SubSeq(all, 1, m)) = IF 1 <= m THEN m - 1 + 1 ELSE 0
          /\ \A i \in 1 .. m - 1 + 1 : SubSeq(all, 1, m)[i] = all[1 + i - 1]
      BY <3>2, <3>3, SubSeqProperties
    <3> QED BY <2>1, <3>4, <3>5
  <2>3. chunk[n + 1] \in Symbols
    BY <1>1, <2>1, ElementOfSeq DEF k
  <2>4. SubSeq(all, 1, m + 1) = Append(SubSeq(all, 1, m), chunk[n + 1])
    <3> DEFINE short == SubSeq(all, 1, m)
               long  == SubSeq(all, 1, m + 1)
    <3>1. /\ Append(short, chunk[n + 1]) \in Seq(Symbols)
          /\ Len(Append(short, chunk[n + 1])) = m + 1
          /\ \A i \in 1 .. m : Append(short, chunk[n + 1])[i] = short[i]
          /\ Append(short, chunk[n + 1])[m + 1] = chunk[n + 1]
      <4>1. short \in Seq(Symbols) /\ Len(short) = m
        BY <2>2
      <4> HIDE DEF short
      <4> QED BY <2>3, <4>1, AppendProperties
    <3>2. \A i \in 1 .. m + 1 : long[i] = Append(short, chunk[n + 1])[i]
      BY <2>1, <2>2, <3>1
    <3>3. long \in Seq(Symbols) /\ Len(long) = m + 1
      BY <2>2
    <3> HIDE DEF short, long
    <3>4. long = Append(short, chunk[n + 1])
      BY <3>1, <3>2, <3>3, SeqEqual
    <3> QED BY <3>4 DEF short, long
  <2> QED BY <2>1, <2>2, <2>3, <2>4 DEF m
<1> DEFINE S == {n \in 0 .. k : /\ ScanTypes(run[n])
                                /\ ScanReads(run[n], text(n), truncated)}
<1>6. 0 \in S
  <2> HIDE DEF text
  <2> QED BY <1>1, <1>2, <1>3
<1>7. ASSUME NEW n \in Nat, n < k, n \in S PROVE n + 1 \in S
  <2>1. n \in 0 .. k - 1 /\ n + 1 \in 0 .. k
    BY <1>1, <1>7
  <2>2. run[n + 1] = Step(run[n], chunk[n + 1])
    BY <1>2, <2>1
  <2>3. ScanTypes(run[n + 1])
    BY <1>5, <1>7, <2>2, StepIs
  <2>4. ScanReads(run[n + 1], text(n + 1), truncated)
    <3> HIDE DEF text
    <3> QED BY <1>5, <1>7, <2>2, StepReads
  <2> QED BY <2>1, <2>3, <2>4
<1>8. k \in S
  <2> HIDE DEF S
  <2>1. \A n \in 0 .. k : n \in S
    BY <1>1, <1>6, <1>7, UpTo
  <2> QED BY <1>1, <2>1
<1> QED BY <1>1, <1>2, <1>4, <1>8 DEF all

\* The cap leaves a buffer it can cut none the wiser about short lines.
LEMMA CappedReads ==
  ASSUME NEW scan, ScanTypes(scan), NEW text \in Seq(Symbols), NEW cut \in BOOLEAN,
         ScanReads(scan, text, cut)
  PROVE  /\ Capped(scan.buf) \in Seq(Symbols \ {"nl"})
         /\ Len(Capped(scan.buf)) <= MaxBuf
         /\ ScanReads([buf |-> Capped(scan.buf), found |-> scan.found,
                       malformed |-> scan.malformed],
                      text, cut \/ Len(scan.buf) > MaxBuf)
<1> DEFINE line == scan.buf
<1>1. /\ line \in Seq(Symbols \ {"nl"}) /\ Len(line) \in Nat /\ MaxBuf \in Nat
      /\ Len(Rest(text)) \in Nat
  BY DebugCommandAssumption, RestGrows, LenProperties DEF ScanTypes
<1>2. CASE Len(line) > MaxBuf
  <2> DEFINE a == Len(line) - MaxBuf + 1
  <2>1. a \in Int /\ Len(line) \in Int /\ \A i \in a .. Len(line) : i \in 1 .. Len(line)
    BY <1>1, <1>2
  <2>2. \A i \in a .. Len(line) : line[i] \in Symbols \ {"nl"}
    BY <1>1, <2>1, ElementOfSeq
  <2>3. /\ SubSeq(line, a, Len(line)) \in Seq(Symbols \ {"nl"})
        /\ Len(SubSeq(line, a, Len(line)))
             = IF a <= Len(line) THEN Len(line) - a + 1 ELSE 0
    <3> HIDE DEF a, line
    <3> QED BY <2>1, <2>2, SubSeqProperties
  <2>4. Len(SubSeq(line, a, Len(line))) <= MaxBuf
    BY <1>1, <1>2, <2>3
  <2>5. Capped(line) = SubSeq(line, a, Len(line))
    BY <1>2 DEF Capped
  <2>6. Len(Rest(text)) > MaxBuf
    BY <1>2 DEF ScanReads
  <2> QED BY <1>2, <2>3, <2>4, <2>5, <2>6 DEF ScanReads
<1>3. CASE ~(Len(line) > MaxBuf)
  <2>1. Capped(line) = line
    BY <1>3 DEF Capped
  <2> QED BY <1>1, <1>3, <2>1 DEF ScanReads
<1> QED BY <1>2, <1>3

\* flush() is a newline the stream did not send.
LEMMA FlushIsNewline ==
  ASSUME ScanTypes(Scanner)
  PROVE  Flushed = Step(Scanner, "nl")
<1>1. CASE buf = <<>>
  <2>1. ConsumeLine(Scanner, <<>>) = Scanner
    BY DEF ConsumeLine, HasPrefix
  <2>2. Scanner.buf = <<>> /\ [Scanner EXCEPT !.buf = <<>>] = Scanner
    BY <1>1 DEF Scanner
  <2> QED BY <1>1, <2>1, <2>2 DEF Flushed, Step
<1>2. CASE buf # <<>>
  BY <1>2 DEF Flushed, Step, Scanner
<1> QED BY <1>1, <1>2

-----------------------------------------------------------------------------
(* The wait.                                                                *)

\* While the wait is on, everything that can end it is in place; afterwards
\* nothing is, and the outcome agrees with what was found.
WaitInv ==
    /\ settled = "no" => found = NoHandshake /\ child = "running"
    /\ listening => settled = "no"
    /\ timer = "armed" => settled = "no"

\* While the wait is on the scanner reads the output so far; what it has settled
\* on stays true of the output there was.
IInv ==
    /\ TypeOK
    /\ WaitInv
    /\ settled = "no" => ScanReads(Scanner, fed, truncated)
    /\ FirstHandshakeWins /\ NoHandshakeMissed /\ BlameIsDeserved

\* Nothing has been printed, and nothing found.
LEMMA InitInv == Init => IInv
<1> SUFFICES ASSUME Init PROVE IInv
  OBVIOUS
<1> USE DEF Init
<1>1. /\ <<>> \in Seq(Symbols) /\ <<>> \in Seq(Symbols \ {"nl"})
      /\ Len(<<>>) = 0 /\ 0 <= MaxBuf
  BY EmptySeq, DebugCommandAssumption
<1>2. TypeOK /\ WaitInv
  BY <1>1 DEF TypeOK, WaitInv, Reasons
<1>3. LineEnds(<<>>) = {}
  BY DEF LineEnds
<1>4. ValidLines(<<>>) = {} /\ ~HasBadLine(<<>>)
  BY <1>3 DEF ValidLines, HasBadLine
<1>5. FirstHandshake(<<>>) = NoHandshake
  BY <1>1, <1>4, FirstIs
<1>6. Rest(<<>>) = <<>>
  <2>1. PICK i \in 1 .. Len(<<>>) + 1 : Len(Rest(<<>>)) = Len(<<>>) + 1 - i
                                        /\ Rest(<<>>) \in Seq(Symbols \ {"nl"})
    BY <1>1, RestIs
  <2>2. Len(Rest(<<>>)) = 0
    BY <1>1, <2>1
  <2> QED BY <2>1, <2>2, EmptySeq
<1>7. ScanReads(Scanner, fed, truncated)
  BY <1>4, <1>5, <1>6 DEF ScanReads, Scanner
<1> QED BY <1>2, <1>7 DEF IInv, FirstHandshakeWins, NoHandshakeMissed, BlameIsDeserved

\* A chunk, whether it settles the wait or not.
LEMMA DataStep ==
  ASSUME IInv, NEW chunk \in Chunks, Data(chunk)
  PROVE  IInv'
<1>1. /\ settled = "no" /\ child = "running" /\ found = NoHandshake
      /\ ScanReads(Scanner, fed, truncated) /\ ScanTypes(Scanner)
      /\ fed \in Seq(Symbols) /\ truncated \in BOOLEAN
  BY DEF IInv, WaitInv, Data, TypeOK, ScanTypes, Scanner
<1>2. chunk \in Seq(Symbols)
  <2>1. PICK n \in 1 .. MaxFed - Len(fed) : chunk \in [1 .. n -> Symbols]
    BY DEF Chunks
  <2>2. n \in Nat
    BY <1>1, DebugCommandAssumption
  <2> QED BY <2>1, <2>2, SeqDef
<1> DEFINE scan == Pushed(chunk)
<1>3. /\ fed \o chunk \in Seq(Symbols) /\ ScanTypes(scan)
      /\ ScanReads(scan, fed \o chunk, truncated)
  BY <1>1, <1>2, PushedReads
<1>4. /\ fed' = fed \o chunk
      /\ buf' = Capped(scan.buf)
      /\ truncated' = (truncated \/ Len(scan.buf) > MaxBuf)
      /\ found' = scan.found /\ malformed' = scan.malformed
  BY DEF Data, Scan
<1> HIDE DEF scan
<1>5. /\ Capped(scan.buf) \in Seq(Symbols \ {"nl"})
      /\ Len(Capped(scan.buf)) <= MaxBuf
      /\ ScanReads([buf |-> Capped(scan.buf), found |-> scan.found,
                    malformed |-> scan.malformed],
                   fed \o chunk, truncated \/ Len(scan.buf) > MaxBuf)
  BY <1>1, <1>3, CappedReads
<1>6. ScanReads(Scanner, fed, truncated)'
  BY <1>4, <1>5 DEF ScanReads, Scanner
<1>7. /\ fed' \in Seq(Symbols) /\ buf' \in Seq(Symbols \ {"nl"}) /\ Len(buf') <= MaxBuf
      /\ found' \in Payloads \cup {NoHandshake} /\ malformed' \in BOOLEAN
      /\ truncated' \in BOOLEAN
  BY <1>1, <1>3, <1>4, <1>5 DEF ScanTypes
<1>8. CASE found' # NoHandshake
  <2>1. SettleResolve
    BY <1>8 DEF Data
  <2>2. TypeOK' /\ WaitInv'
    BY <1>7, <2>1 DEF IInv, TypeOK, WaitInv, SettleResolve, Cleanup
  <2>3. settled' = "resolved" /\ child' = "running"
    BY <1>1, <2>1 DEF SettleResolve
  <2>4. Ended' = fed'
    BY <2>3 DEF Ended
  <2>5. ~truncated' => found' = FirstHandshake(fed')
    BY <1>6 DEF ScanReads, Scanner
  <2>6. FirstHandshakeWins'
    BY <2>4, <2>5 DEF FirstHandshakeWins
  <2> QED BY <2>2, <2>3, <2>6 DEF IInv, NoHandshakeMissed, BlameIsDeserved
<1>9. CASE found' = NoHandshake
  <2>1. UNCHANGED <<settled, reason, blamed, timer, listening, child>>
    BY <1>9 DEF Data, promise
  <2>2. TypeOK' /\ WaitInv'
    BY <1>1, <1>7, <1>9, <2>1 DEF IInv, TypeOK, WaitInv
  <2> QED BY <1>1, <1>6, <2>1, <2>2
          DEF IInv, FirstHandshakeWins, NoHandshakeMissed, BlameIsDeserved
<1> QED BY <1>8, <1>9

\* The end of the stream ends the last line and the wait.
LEMMA CloseStep ==
  ASSUME IInv, Close
  PROVE  IInv'
<1> DEFINE text == Append(fed, "nl")
<1>1. /\ settled = "no" /\ child = "running" /\ found = NoHandshake
      /\ ScanReads(Scanner, fed, truncated) /\ ScanTypes(Scanner)
      /\ fed \in Seq(Symbols) /\ truncated \in BOOLEAN
  BY DEF IInv, WaitInv, Close, TypeOK, ScanTypes, Scanner
<1>2. Flushed = Step(Scanner, "nl") /\ "nl" \in Symbols
  BY <1>1, FlushIsNewline DEF Symbols
<1>3. /\ ScanTypes(Flushed) /\ Flushed.buf = <<>>
      /\ ScanReads(Flushed, text, truncated)
  <2>1. ScanTypes(Flushed) /\ Flushed.buf = <<>>
    BY <1>1, <1>2, StepIs
  <2>2. ScanReads(Flushed, text, truncated)
    BY <1>1, <1>2, StepReads
  <2> QED BY <2>1, <2>2
<1>4. Capped(<<>>) = <<>> /\ ~(Len(<<>>) > MaxBuf) /\ <<>> \in Seq(Symbols \ {"nl"})
      /\ Len(<<>>) <= MaxBuf
  <2>1. Len(<<>>) = 0 /\ MaxBuf \in Nat /\ <<>> \in Seq(Symbols \ {"nl"})
    BY EmptySeq, DebugCommandAssumption
  <2> QED BY <2>1 DEF Capped
<1>5. /\ buf' = <<>> /\ truncated' = truncated /\ fed' = fed
      /\ found' = Flushed.found /\ malformed' = Flushed.malformed
  BY <1>1, <1>3, <1>4 DEF Close, Scan
<1>6. /\ child' = "closed" /\ listening' = FALSE /\ timer' = "cleared"
      /\ found' # NoHandshake =>
            settled' = "resolved" /\ UNCHANGED <<reason, blamed>>
      /\ found' = NoHandshake =>
            settled' = "rejected" /\ reason' = "exit" /\ blamed' = malformed'
  BY DEF Close, Cleanup
<1>7. found' \in Payloads \cup {NoHandshake} /\ malformed' \in BOOLEAN
  BY <1>3, <1>5 DEF ScanTypes
<1>8. TypeOK' /\ WaitInv' /\ settled' # "no"
  BY <1>1, <1>4, <1>5, <1>6, <1>7 DEF IInv, TypeOK, WaitInv, Reasons
<1>9. Ended' = text
  BY <1>5, <1>6, <1>8 DEF Ended
<1> HIDE DEF text
<1>10. /\ ~truncated' => found' = FirstHandshake(text)
       /\ ~truncated' /\ found' = NoHandshake => (malformed' <=> HasBadLine(text))
       /\ found' = NoHandshake =>
             \A j \in ValidLines(text) : Len(LineAt(text, j)) > MaxBuf
  BY <1>3, <1>5 DEF ScanReads
<1>11. FirstHandshakeWins'
  BY <1>9, <1>10 DEF FirstHandshakeWins
<1>12. NoHandshakeMissed'
  BY <1>6, <1>9, <1>10 DEF NoHandshakeMissed
<1>13. BlameIsDeserved'
  BY <1>6, <1>9, <1>10 DEF BlameIsDeserved
<1> QED BY <1>8, <1>11, <1>12, <1>13 DEF IInv

\* A spawn error or the timer: what was read so far is all there will be.
LEMMA RejectStep ==
  ASSUME IInv, SpawnError \/ Timeout
  PROVE  IInv'
<1>1. /\ settled = "no" /\ child = "running" /\ found = NoHandshake
      /\ ScanReads(Scanner, fed, truncated)
  BY DEF IInv, WaitInv, SpawnError, Timeout
<1>2. /\ UNCHANGED <<fed, buf, found, malformed, truncated>>
      /\ settled' = "rejected" /\ listening' = FALSE /\ child' = "killed"
      /\ \/ reason' = "spawn" /\ blamed' = FALSE /\ timer' = "cleared"
         \/ reason' = "timeout" /\ blamed' = malformed /\ timer' = "fired"
  BY <1>1 DEF SpawnError, Timeout, SettleReject, Cleanup, scanner
<1>3. TypeOK' /\ WaitInv'
  BY <1>2 DEF IInv, TypeOK, WaitInv, Reasons
<1>4. Ended' = fed
  BY <1>2 DEF Ended
<1>5. /\ ~truncated => (malformed <=> HasBadLine(fed))
      /\ \A j \in ValidLines(fed) : Len(LineAt(fed, j)) > MaxBuf
  BY <1>1 DEF ScanReads, Scanner
<1>6. NoHandshakeMissed'
  BY <1>4, <1>5 DEF NoHandshakeMissed
<1>7. BlameIsDeserved'
  BY <1>2, <1>4, <1>5 DEF BlameIsDeserved
<1> QED BY <1>2, <1>3, <1>6, <1>7 DEF IInv, FirstHandshakeWins

\* The invariant: while the wait is on, the scanner holds what a reader of the
\* whole output so far would, and the settled outcome stays right.
THEOREM Invariance == Spec => []IInv
<1>1. ASSUME IInv, [Next]_vars PROVE IInv'
  <2>1. ASSUME NEW chunk \in Chunks, Data(chunk) PROVE IInv'
    BY <1>1, <2>1, DataStep
  <2>2. CASE Close
    BY <1>1, <2>2, CloseStep
  <2>3. CASE SpawnError \/ Timeout
    BY <1>1, <2>3, RejectStep
  <2>4. CASE UNCHANGED vars
    <3>1. UNCHANGED <<fed, buf, found, malformed, truncated, settled, reason, blamed,
                      timer, listening, child>>
      BY <2>4 DEF vars, scanner, promise
    <3> QED BY <1>1, <3>1 DEF IInv, TypeOK, WaitInv, ScanReads, Scanner, Ended,
                FirstHandshakeWins, NoHandshakeMissed, BlameIsDeserved
  <2> QED BY <1>1, <2>1, <2>2, <2>3, <2>4 DEF Next
<1> QED BY InitInv, <1>1, PTL DEF Spec

\* Types of the wait and of the scanner: its buffer stays within the cap.
THEOREM TypeCorrect == Spec => []TypeOK
<1>1. IInv => TypeOK
  BY DEF IInv
<1> QED BY Invariance, <1>1, PTL

\* The wait resolves with the first valid handshake line of the output, however
\* that is cut into chunks, unless a line outgrew the buffer.
THEOREM FirstHandshakeIsTaken == Spec => []FirstHandshakeWins
<1>1. IInv => FirstHandshakeWins
  BY DEF IInv
<1> QED BY Invariance, <1>1, PTL

\* It is never rejected over output with a handshake that fits the buffer,
\* whatever the cap has cut.
THEOREM HandshakeIsFound == Spec => []NoHandshakeMissed
<1>1. IInv => NoHandshakeMissed
  BY DEF IInv
<1> QED BY Invariance, <1>1, PTL

\* The timeout and the exit blame a bad line exactly when the output had one.
THEOREM BlameIsTrue == Spec => []BlameIsDeserved
<1>1. IInv => BlameIsDeserved
  BY DEF IInv
<1> QED BY Invariance, <1>1, PTL

-----------------------------------------------------------------------------
\* Output, the end of the child, a spawn error or the timer each leave the wait
\* in order, and act on it as the promise allows.
LEMMA WaitStep ==
    ASSUME WaitInv, [Next]_vars
    PROVE  WaitInv' /\ [Wait!Next]_(Wait!vars)
<1> USE DEF WaitInv, Wait!Next, Wait!vars, Wait!HandOver, Wait!Refuse,
      scanner, promise, Cleanup, SettleResolve, SettleReject, Scan
<1>1. CASE \E chunk \in Chunks : Data(chunk)
  <2>1. PICK chunk \in Chunks : Data(chunk)
    BY <1>1
  <2>2. CASE found' = NoHandshake
    BY <2>1, <2>2 DEF Data
  <2>3. CASE found' # NoHandshake
    BY <2>1, <2>3 DEF Data
  <2> QED
    BY <2>2, <2>3
<1>2. CASE Close
  <2>1. CASE found' = NoHandshake
    BY <1>2, <2>1 DEF Close
  <2>2. CASE found' # NoHandshake
    BY <1>2, <2>2 DEF Close
  <2> QED
    BY <2>1, <2>2
<1>3. CASE SpawnError
  BY <1>3 DEF SpawnError
<1>4. CASE Timeout
  BY <1>4 DEF Timeout
<1>5. CASE UNCHANGED vars
  BY <1>5 DEF vars
<1> QED
  BY <1>1, <1>2, <1>3, <1>4, <1>5 DEF Next

\* The promise settles once, whichever of the timer, the exit, the spawn error
\* and the handshake comes first: a handshake is handed over with a child that
\* was not killed, or refused with none left running (command.ts l.197-230).
THEOREM WaitSettlesOnce == Spec => Wait!SettlesOnce
<1>1. Init => WaitInv /\ Wait!Init
  BY DEF Init, WaitInv, Wait!Init
<1> QED
  BY <1>1, WaitStep, PTL DEF Spec, Wait!SettlesOnce
=============================================================================
