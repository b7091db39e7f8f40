-------------------------- MODULE TcpServer_proofs --------------------------
(***************************************************************************)
(* Proofs about the server, for any number of sessions, any line limit and *)
(* any number of bytes.  First facts about a byte stream cut at its line   *)
(* feeds, then the invariants: who holds the mutex, what the line buffer   *)
(* of a session holds, and which lines have been executed; at the end the  *)
(* refinement of CommandService.                                           *)
(***************************************************************************)
EXTENDS TcpServer, SequenceTheorems, FiniteSetTheorems, TLAPS

Bytes == Chars \cup {LF}

-----------------------------------------------------------------------------
(***************************************************************************)
(* A byte stream and its line feeds.                                       *)
(***************************************************************************)

\* What a stream has before and after one more byte.
LEMMA EndsOfAppend ==
    ASSUME NEW b \in Seq(Bytes), NEW ch \in Bytes
    PROVE  /\ Append(b, ch) \in Seq(Bytes)
           /\ Len(b) \in Nat /\ Len(Append(b, ch)) = Len(b) + 1
           /\ \A i \in 1..Len(b) : Append(b, ch)[i] = b[i]
           /\ Append(b, ch)[Len(b) + 1] = ch
           /\ LineEnds(b) \subseteq 1..Len(b)
           /\ LineEnds(Append(b, ch)) =
                LineEnds(b) \cup (IF ch = LF THEN {Len(b) + 1} ELSE {})
           /\ \A e \in 1..(Len(b) + 1) :
                EndsBefore(Append(b, ch), e) = EndsBefore(b, e)
<1> DEFINE c == Append(b, ch)
           n == Len(b)
<1>1. /\ c \in Seq(Bytes) /\ n \in Nat /\ Len(c) = n + 1
      /\ \A i \in 1..n : c[i] = b[i]
      /\ c[n + 1] = ch
      /\ DOMAIN b = 1..n /\ DOMAIN c = 1..(n + 1)
  BY AppendProperties
<1> HIDE DEF c, n
<1>2. LineEnds(b) \subseteq 1..n
  BY <1>1 DEF LineEnds
<1>3. LineEnds(c) = LineEnds(b) \cup (IF ch = LF THEN {n + 1} ELSE {})
  BY <1>1 DEF LineEnds
<1>4. \A e \in 1..(n + 1) : EndsBefore(c, e) = EndsBefore(b, e)
  BY <1>1, <1>2, <1>3 DEF EndsBefore
<1> QED BY <1>1, <1>2, <1>3, <1>4 DEF c, n

\* The line that ends at e has a start: the last line feed before, if any.
HasStart(b, e) ==
    \E i \in EndsBefore(b, e) : \A j \in EndsBefore(b, e) : j <= i

\* LineStart is the last line end before e, whenever there is one.
LEMMA StartFacts ==
    ASSUME NEW b \in Seq(Bytes), NEW e \in Nat \ {0}
    PROVE  /\ HasStart(b, e) =>
                /\ LineStart(b, e) \in Nat /\ LineStart(b, e) < e
                /\ LineStart(b, e) \in EndsBefore(b, e)
                /\ \A j \in EndsBefore(b, e) : j <= LineStart(b, e)
           /\ \A i \in EndsBefore(b, e) :
                (\A j \in EndsBefore(b, e) : j <= i) =>
                   HasStart(b, e) /\ LineStart(b, e) = i
<1>1. \A i \in EndsBefore(b, e) : i \in Nat /\ i < e
  BY DEF EndsBefore, LineEnds
<1>2. HasStart(b, e) =>
        /\ LineStart(b, e) \in EndsBefore(b, e)
        /\ \A j \in EndsBefore(b, e) : j <= LineStart(b, e)
  BY DEF HasStart, LineStart
<1>3. ASSUME NEW i \in EndsBefore(b, e), \A j \in EndsBefore(b, e) : j <= i
      PROVE  HasStart(b, e) /\ LineStart(b, e) = i
  <2>1. HasStart(b, e)
    BY <1>3 DEF HasStart
  <2>2. LineStart(b, e) <= i /\ i <= LineStart(b, e)
    BY <1>2, <1>3, <2>1
  <2> QED BY <1>1, <1>2, <2>1, <2>2
<1> QED BY <1>1, <1>2, <1>3

\* A part of a stream, byte by byte.
LEMMA PartFacts ==
    ASSUME NEW b \in Seq(Bytes), NEW i \in Nat, NEW e \in Nat,
           i < e, e <= Len(b) + 1
    PROVE  /\ SubSeq(b, i + 1, e - 1) \in Seq(Bytes)
           /\ Len(SubSeq(b, i + 1, e - 1)) = e - 1 - i
           /\ \A k \in 1..(e - 1 - i) : SubSeq(b, i + 1, e - 1)[k] = b[i + k]
<1>1. Len(b) \in Nat
  OBVIOUS
<1>2. \A k \in (i + 1)..(e - 1) : k \in 1..Len(b)
  BY <1>1
<1> QED BY <1>1, <1>2, SubSeqProperties

\* One more byte leaves the lines before it as they are.
LEMMA EndedLineStays ==
    ASSUME NEW b \in Seq(Bytes), NEW ch \in Bytes,
           NEW e \in 1..(Len(b) + 1), HasStart(b, e)
    PROVE  /\ HasStart(Append(b, ch), e)
           /\ LineEndingAt(Append(b, ch), e) = LineEndingAt(b, e)
<1> DEFINE c == Append(b, ch)
           i == LineStart(b, e)
<1>1. EndsBefore(c, e) = EndsBefore(b, e)
  BY EndsOfAppend
<1>2. HasStart(c, e) /\ LineStart(c, e) = i
  BY <1>1 DEF HasStart, LineStart
<1>3. i \in Nat /\ i < e /\ e \in Nat /\ e <= Len(b) + 1
  BY StartFacts
<1>4. c \in Seq(Bytes) /\ e <= Len(c) + 1 /\ \A k \in 1..Len(b) : c[k] = b[k]
  BY <1>3, EndsOfAppend
<1> HIDE DEF c, i
<1>5. /\ SubSeq(c, i + 1, e - 1) \in Seq(Bytes)
      /\ SubSeq(b, i + 1, e - 1) \in Seq(Bytes)
      /\ Len(SubSeq(c, i + 1, e - 1)) = Len(SubSeq(b, i + 1, e - 1))
      /\ \A k \in 1..Len(SubSeq(c, i + 1, e - 1)) :
           SubSeq(c, i + 1, e - 1)[k] = SubSeq(b, i + 1, e - 1)[k]
  BY <1>3, <1>4, PartFacts
<1>6. SubSeq(c, i + 1, e - 1) = SubSeq(b, i + 1, e - 1)
  BY <1>5, SeqEqual
<1> QED BY <1>2, <1>6 DEF LineEndingAt, c, i

\* The rest of the stream after the last line feed.
OpenLine(b) == LineEndingAt(b, Len(b) + 1)

\* Before anything is sent there is an empty line.
LEMMA EmptyStream ==
    /\ LineEnds(<<>>) = {} /\ HasStart(<<>>, 1) /\ OpenLine(<<>>) = <<>>
<1>1. LineEnds(<<>>) = {}
  BY DEF LineEnds
<1>2. EndsBefore(<<>>, 1) = {0}
  BY <1>1 DEF EndsBefore
<1>3. HasStart(<<>>, 1) /\ LineStart(<<>>, 1) = 0
  <2>1. <<>> \in Seq(Bytes)
    OBVIOUS
  <2>2. 0 \in EndsBefore(<<>>, 1) /\ \A j \in EndsBefore(<<>>, 1) : j <= 0
    BY <1>2
  <2>3. 1 \in Nat \ {0}
    OBVIOUS
  <2>4. \A b \in Seq(Bytes) : \A i \in EndsBefore(b, 1) :
          (\A j \in EndsBefore(b, 1) : j <= i) =>
             HasStart(b, 1) /\ LineStart(b, 1) = i
    BY <2>3, StartFacts
  <2> QED BY <2>1, <2>2, <2>4
<1>4. SubSeq(<<>>, 1, 0) = <<>>
  BY SubSeqEmpty
<1> QED BY <1>1, <1>3, <1>4 DEF OpenLine, LineEndingAt

\* A byte other than the line feed goes to the end of the open line.
LEMMA OpenLineGrows ==
    ASSUME NEW b \in Seq(Bytes), NEW ch \in Chars, HasStart(b, Len(b) + 1)
    PROVE  /\ HasStart(Append(b, ch), Len(b) + 2)
           /\ LineEnds(Append(b, ch)) = LineEnds(b)
           /\ OpenLine(b) \in Seq(Bytes)
           /\ OpenLine(Append(b, ch)) = Append(OpenLine(b), ch)
<1> DEFINE c == Append(b, ch)
           n == Len(b)
           i == LineStart(b, n + 1)
           open == SubSeq(b, i + 1, n)
           grown == SubSeq(c, i + 1, n + 1)
<1>1. /\ ch \in Bytes /\ ch # LF
      /\ n \in Nat /\ c \in Seq(Bytes) /\ Len(c) = n + 1
      /\ \A k \in 1..n : c[k] = b[k]
      /\ c[n + 1] = ch
      /\ LineEnds(b) \subseteq 1..n /\ LineEnds(c) = LineEnds(b)
  <2>1. ch \in Bytes /\ ch # LF
    BY ServerAssumption DEF Bytes
  <2> QED BY <2>1, EndsOfAppend
<1>2. EndsBefore(c, n + 2) = EndsBefore(b, n + 1)
  BY <1>1 DEF EndsBefore
<1>3. i \in Nat /\ i < n + 1
  BY <1>1, StartFacts
<1>4. HasStart(c, n + 2) /\ LineStart(c, n + 2) = i
  BY <1>2 DEF HasStart, LineStart
<1> HIDE DEF c, n, i
<1>5. /\ open \in Seq(Bytes) /\ Len(open) = n - i
      /\ \A k \in 1..(n - i) : open[k] = b[i + k]
  <2>1. (n + 1) - 1 = n /\ n + 1 - 1 - i = n - i /\ n + 1 \in Nat
        /\ n + 1 <= Len(b) + 1
    BY <1>1, <1>3 DEF n
  <2>2. /\ SubSeq(b, i + 1, (n + 1) - 1) \in Seq(Bytes)
        /\ Len(SubSeq(b, i + 1, (n + 1) - 1)) = (n + 1) - 1 - i
        /\ \A k \in 1..((n + 1) - 1 - i) :
             SubSeq(b, i + 1, (n + 1) - 1)[k] = b[i + k]
    BY <1>3, <2>1, PartFacts
  <2> QED BY <1>1, <1>3, <2>2 DEF open
<1>6. /\ grown \in Seq(Bytes) /\ Len(grown) = n + 1 - i
      /\ \A k \in 1..(n + 1 - i) : grown[k] = c[i + k]
  <2>1. (n + 2) - 1 = n + 1 /\ n + 2 \in Nat /\ i < n + 2
        /\ n + 2 <= Len(c) + 1
    BY <1>1, <1>3
  <2>2. /\ SubSeq(c, i + 1, (n + 2) - 1) \in Seq(Bytes)
        /\ Len(SubSeq(c, i + 1, (n + 2) - 1)) = (n + 2) - 1 - i
        /\ \A k \in 1..((n + 2) - 1 - i) :
             SubSeq(c, i + 1, (n + 2) - 1)[k] = c[i + k]
    BY <1>1, <1>3, <2>1, PartFacts
  <2> QED BY <1>1, <1>3, <2>2 DEF grown
<1> HIDE DEF open, grown
<1>7. /\ Append(open, ch) \in Seq(Bytes) /\ Len(Append(open, ch)) = n + 1 - i
      /\ \A k \in 1..(n - i) : Append(open, ch)[k] = open[k]
      /\ Append(open, ch)[n + 1 - i] = ch
  <2>1. /\ Append(open, ch) \in Seq(Bytes)
        /\ Len(Append(open, ch)) = Len(open) + 1
        /\ \A k \in 1..Len(open) : Append(open, ch)[k] = open[k]
        /\ Append(open, ch)[Len(open) + 1] = ch
    BY <1>1, <1>5, AppendProperties
  <2>2. Len(open) + 1 = n + 1 - i
    BY <1>1, <1>3, <1>5
  <2> QED BY <1>5, <2>1, <2>2
<1>8. grown = Append(open, ch)
  <2>1. ASSUME NEW k \in 1..(n + 1 - i)
        PROVE  grown[k] = Append(open, ch)[k]
    <3>1. CASE k = n + 1 - i
      <4>1. i + k = n + 1
        BY <1>1, <1>3, <3>1
      <4> QED BY <1>1, <1>6, <1>7, <3>1, <4>1
    <3>2. CASE k \in 1..(n - i)
      <4>1. i + k \in 1..n
        BY <1>1, <1>3, <3>2
      <4> QED BY <1>1, <1>5, <1>6, <1>7, <3>2, <4>1
    <3>3. k = n + 1 - i \/ k \in 1..(n - i)
      BY <1>1, <1>3
    <3> QED BY <3>1, <3>2, <3>3
  <2> QED BY <1>6, <1>7, <2>1, SeqEqual
<1>9. OpenLine(b) = open
  <2>1. OpenLine(b) = SubSeq(b, i + 1, (n + 1) - 1)
    BY DEF OpenLine, LineEndingAt, i, n
  <2>2. (n + 1) - 1 = n
    BY <1>1
  <2> QED BY <2>1, <2>2 DEF open
<1>10. OpenLine(c) = grown
  <2>1. OpenLine(c) = SubSeq(c, LineStart(c, Len(c) + 1) + 1, (Len(c) + 1) - 1)
    BY DEF OpenLine, LineEndingAt
  <2>2. Len(c) + 1 = n + 2 /\ (Len(c) + 1) - 1 = n + 1
    BY <1>1
  <2> QED BY <1>4, <2>1, <2>2 DEF grown
<1> QED BY <1>1, <1>4, <1>5, <1>8, <1>9, <1>10 DEF c, n

\* A line feed ends the open line and opens an empty one.
LEMMA LineFeedEndsLine ==
    ASSUME NEW b \in Seq(Bytes), HasStart(b, Len(b) + 1)
    PROVE  LET c == Append(b, LF)
               e == Len(b) + 1
           IN  /\ c \in Seq(Bytes) /\ Len(c) = e
               /\ LineEnds(c) = LineEnds(b) \cup {e}
               /\ HasStart(c, e) /\ HasStart(c, e + 1)
               /\ LineEndingAt(c, e) = OpenLine(b)
<1> DEFINE c == Append(b, LF)
           e == Len(b) + 1
<1>1. /\ c \in Seq(Bytes) /\ Len(c) = e /\ e \in Nat \ {0}
      /\ LineEnds(b) \subseteq 1..Len(b)
      /\ LineEnds(c) = LineEnds(b) \cup {e}
  BY EndsOfAppend DEF Bytes
<1>2. HasStart(c, e) /\ LineEndingAt(c, e) = OpenLine(b)
  <2>1. LF \in Bytes /\ e \in 1..(Len(b) + 1)
    BY <1>1 DEF Bytes
  <2> QED BY <2>1, EndedLineStays DEF OpenLine
<1>3. HasStart(c, e + 1)
  <2>1. e \in EndsBefore(c, e + 1) /\ \A j \in EndsBefore(c, e + 1) : j <= e
    BY <1>1 DEF EndsBefore
  <2> QED BY <2>1 DEF HasStart
<1> QED BY <1>1, <1>2, <1>3

\* After a line feed the open line is empty.
LEMMA OpenAfterLineFeed ==
    ASSUME NEW b \in Seq(Bytes), Len(b) \in LineEnds(b)
    PROVE  OpenLine(b) = <<>>
<1> DEFINE n == Len(b)
<1>1. n \in Nat /\ LineEnds(b) \subseteq 1..n
  BY DEF LineEnds
<1>2. n \in EndsBefore(b, n + 1) /\ \A j \in EndsBefore(b, n + 1) : j <= n
  BY <1>1 DEF EndsBefore
<1>3. LineStart(b, n + 1) = n
  <2>1. n + 1 \in Nat \ {0}
    BY <1>1
  <2> QED BY <1>2, <2>1, StartFacts
<1>4. OpenLine(b) = SubSeq(b, n + 1, n)
  <2>1. n + 1 - 1 = n
    BY <1>1
  <2> QED BY <1>3, <2>1 DEF OpenLine, LineEndingAt
<1> QED BY <1>1, <1>4, SubSeqEmpty

\* Taking a carriage return off.
LEMMA WithoutCRType ==
    ASSUME NEW l \in Seq(Chars)
    PROVE  WithoutCR(l) \in Seq(Chars) /\ Len(WithoutCR(l)) <= Len(l)
<1>1. CASE l # <<>> /\ l[Len(l)] = CR
  <2>1. Len(l) \in Nat /\ Len(l) # 0 /\ \A i \in 1..Len(l) : l[i] \in Chars
    BY <1>1, EmptySeq
  <2>2. \A i \in 1..(Len(l) - 1) : l[i] \in Chars
    BY <2>1
  <2>3. SubSeq(l, 1, Len(l) - 1) \in Seq(Chars)
        /\ Len(SubSeq(l, 1, Len(l) - 1)) <= Len(l)
    BY <2>1, <2>2, SubSeqProperties
  <2> QED BY <1>1, <2>3 DEF WithoutCR
<1>2. CASE ~(l # <<>> /\ l[Len(l)] = CR)
  BY <1>2 DEF WithoutCR
<1> QED BY <1>1, <1>2

-----------------------------------------------------------------------------
(***************************************************************************)
(* The buffer of a session: cut at its line feeds, the stream has no line  *)
(* above the limit; while the thread reads, the buffer is the open line,   *)
(* and while it answers, the line that was ended last.                     *)
(***************************************************************************)
CutOK(b, l, p) ==
    /\ \A e \in LineEnds(b) :
         HasStart(b, e) /\ Len(LineEndingAt(b, e)) <= MaxCommandLineLength
    /\ HasStart(b, Len(b) + 1)
    /\ p \in {"Connecting", "Reading"} => l = OpenLine(b)
    /\ p = "Refusing" => Len(OpenLine(b)) > MaxCommandLineLength
    /\ p \in {"Locking", "Handling", "Writing"} =>
         Len(b) \in LineEnds(b) /\ l = WithoutCR(LineEndingAt(b, Len(b)))

Cut == \A s \in Sessions : CutOK(sent[s], line[s], pc[s])

\* A character is stored, or the line is found too long.
LEMMA CutCharacter ==
    ASSUME NEW b \in Seq(Bytes), NEW ch \in Chars, NEW l \in Seq(Chars),
           CutOK(b, l, "Reading")
    PROVE  /\ CutOK(Append(b, ch), Append(l, ch), "Reading")
           /\ Len(l) >= MaxCommandLineLength =>
                CutOK(Append(b, ch), l, "Refusing")
<1> DEFINE c == Append(b, ch)
           n == Len(b)
<1>1. /\ ch \in Bytes
      /\ c \in Seq(Bytes) /\ Len(c) = n + 1 /\ n \in Nat
      /\ LineEnds(b) \subseteq 1..n
  <2>1. ch \in Bytes
    BY DEF Bytes
  <2> QED BY <2>1, EndsOfAppend
<1>2. /\ HasStart(b, n + 1) /\ l = OpenLine(b)
      /\ \A e \in LineEnds(b) :
           HasStart(b, e) /\ Len(LineEndingAt(b, e)) <= MaxCommandLineLength
  BY DEF CutOK
<1>3. /\ HasStart(c, n + 2) /\ LineEnds(c) = LineEnds(b)
      /\ OpenLine(c) = Append(l, ch)
  BY <1>2, OpenLineGrows
<1>4. ASSUME NEW e \in LineEnds(c)
      PROVE  HasStart(c, e) /\ Len(LineEndingAt(c, e)) <= MaxCommandLineLength
  <2>1. e \in LineEnds(b) /\ e \in 1..(n + 1)
    BY <1>1, <1>3
  <2>2. HasStart(c, e) /\ LineEndingAt(c, e) = LineEndingAt(b, e)
    BY <1>1, <1>2, <2>1, EndedLineStays
  <2> QED BY <1>2, <2>1, <2>2
<1>5. HasStart(c, Len(c) + 1)
  <2>1. Len(c) + 1 = n + 2
    BY <1>1
  <2> QED BY <1>3, <2>1
<1>6. Len(Append(l, ch)) = Len(l) + 1 /\ Len(l) \in Nat
  BY AppendProperties
<1> HIDE DEF c, n
<1>7. CutOK(c, Append(l, ch), "Reading")
  BY <1>3, <1>4, <1>5 DEF CutOK
<1>8. Len(l) >= MaxCommandLineLength => CutOK(c, l, "Refusing")
  <2> HAVE Len(l) >= MaxCommandLineLength
  <2>1. Len(OpenLine(c)) > MaxCommandLineLength
    BY <1>3, <1>6, ServerAssumption
  <2> QED BY <1>4, <1>5, <2>1 DEF CutOK
<1> QED BY <1>7, <1>8 DEF c

\* The line feed ends the line, which then loses its carriage return.
LEMMA CutLineFeed ==
    ASSUME NEW b \in Seq(Bytes), NEW l, CutOK(b, l, "Reading"),
           Len(l) <= MaxCommandLineLength
    PROVE  CutOK(Append(b, LF), WithoutCR(l), "Locking")
<1> DEFINE c == Append(b, LF)
           n == Len(b)
<1>1. n \in Nat /\ LineEnds(b) \subseteq 1..n
  BY DEF LineEnds
<1>2. /\ HasStart(b, n + 1) /\ l = OpenLine(b)
      /\ \A e \in LineEnds(b) :
           HasStart(b, e) /\ Len(LineEndingAt(b, e)) <= MaxCommandLineLength
  BY DEF CutOK
<1>3. /\ c \in Seq(Bytes) /\ Len(c) = n + 1
      /\ LineEnds(c) = LineEnds(b) \cup {n + 1}
      /\ HasStart(c, n + 1) /\ HasStart(c, n + 1 + 1)
      /\ LineEndingAt(c, n + 1) = OpenLine(b)
  BY <1>2, LineFeedEndsLine
<1>4. ASSUME NEW e \in LineEnds(b)
      PROVE  HasStart(c, e) /\ Len(LineEndingAt(c, e)) <= MaxCommandLineLength
  <2>1. e \in 1..(n + 1) /\ LF \in Bytes
    BY <1>1 DEF Bytes
  <2>2. HasStart(c, e) /\ LineEndingAt(c, e) = LineEndingAt(b, e)
    BY <1>2, <2>1, EndedLineStays
  <2> QED BY <1>2, <2>2
<1> HIDE DEF c, n
<1>5. CutOK(c, WithoutCR(l), "Locking")
  BY <1>2, <1>3, <1>4 DEF CutOK
<1> QED BY <1>5 DEF c

\* Moves of a thread that read nothing.
LEMMA CutMoves ==
    ASSUME NEW b \in Seq(Bytes), NEW l, NEW p, CutOK(b, l, p)
    PROVE  /\ p = "Connecting" => CutOK(b, l, "Reading")
           /\ p = "Locking" => CutOK(b, l, "Handling")
           /\ p = "Handling" => CutOK(b, l, "Writing")
           /\ p = "Writing" => CutOK(b, <<>>, "Reading")
           /\ \A m : CutOK(b, m, "Ended")
  BY OpenAfterLineFeed DEF CutOK

-----------------------------------------------------------------------------
(***************************************************************************)
(* The mutex: it is held exactly by the session whose handler runs, and    *)
(* that handler works on the state as it is.                               *)
(***************************************************************************)
Exclusive ==
    \A s \in Sessions :
        /\ pc[s] = "Handling" <=> mutex = {s}
        /\ view[s] = IF pc[s] = "Handling" THEN executed ELSE <<>>

ServerInv == ServerTypeOK /\ Exclusive /\ Cut

\* At the start nothing was sent and nobody holds the lock.
LEMMA InitEstablishesServerInv == ServerInit => ServerInv
<1> SUFFICES ASSUME ServerInit
             PROVE  ServerInv
  OBVIOUS
<1>1. ServerTypeOK
  BY ServerAssumption DEF ServerInit, ServerTypeOK, Places
<1>2. Exclusive
  BY DEF ServerInit, Exclusive
<1>3. Cut
  <2>1. Len(<<>>) + 1 = 1
    OBVIOUS
  <2>2. CutOK(<<>>, <<>>, "Connecting")
    BY <2>1, EmptyStream DEF CutOK
  <2> QED BY <2>2 DEF ServerInit, Cut
<1> QED BY <1>1, <1>2, <1>3 DEF ServerInv

\* What a step of session s leaves alone.
OthersKept(s) ==
    \A t \in Sessions \ {s} :
        /\ pc'[t] = pc[t] /\ line'[t] = line[t]
        /\ view'[t] = view[t] /\ sent'[t] = sent[t]

Step(s) ==
    \/ Accept(s)
    \/ \E ch \in Chars : ReadCharacter(s, ch)
    \/ ReadLineFeed(s)
    \/ ReadFails(s)
    \/ WriteRefusal(s)
    \/ LockAndHandle(s)
    \/ ReturnAndUnlock(s)
    \/ WriteResponse(s)
    \/ WriteFails(s)

(***************************************************************************)
(* What a step does to its session, path by path.                          *)
(***************************************************************************)
LEMMA StepContract ==
    ASSUME ServerTypeOK, NEW s \in Sessions, Step(s)
    PROVE  /\ OthersKept(s)
           /\ pc' \in [Sessions -> Places]
           /\ line' = [line EXCEPT ![s] = line'[s]]
           /\ view' = [view EXCEPT ![s] = view'[s]]
           /\ sent' = [sent EXCEPT ![s] = sent'[s]]
           /\ pc' = [pc EXCEPT ![s] = pc'[s]]
<1> USE DEF ServerTypeOK, Goto, Receive, Places, OthersKept
<1>1. CASE Accept(s)
  BY <1>1 DEF Accept
<1>2. CASE \E ch \in Chars : ReadCharacter(s, ch)
  BY <1>2 DEF ReadCharacter
<1>3. CASE ReadLineFeed(s)
  BY <1>3 DEF ReadLineFeed
<1>4. CASE ReadFails(s)
  BY <1>4 DEF ReadFails
<1>5. CASE WriteRefusal(s)
  BY <1>5 DEF WriteRefusal
<1>6. CASE LockAndHandle(s)
  BY <1>6 DEF LockAndHandle
<1>7. CASE ReturnAndUnlock(s)
  BY <1>7 DEF ReturnAndUnlock
<1>8. CASE WriteResponse(s)
  BY <1>8 DEF WriteResponse
<1>9. CASE WriteFails(s)
  BY <1>9 DEF WriteFails
<1> QED BY <1>1, <1>2, <1>3, <1>4, <1>5, <1>6, <1>7, <1>8, <1>9 DEF Step

\* Every step keeps the types; only storing a character makes a line longer.
LEMMA StepKeepsType ==
    ASSUME ServerTypeOK, Exclusive, NEW s \in Sessions, Step(s)
    PROVE  ServerTypeOK'
<1>1. /\ pc' \in [Sessions -> Places]
      /\ line' = [line EXCEPT ![s] = line'[s]]
      /\ view' = [view EXCEPT ![s] = view'[s]]
      /\ sent' = [sent EXCEPT ![s] = sent'[s]]
  BY StepContract
<1>2. /\ line \in [Sessions -> Seq(Chars)]
      /\ \A t \in Sessions : Len(line[t]) <= MaxCommandLineLength
      /\ view \in [Sessions -> Seq(Entries)]
      /\ sent \in [Sessions -> Seq(Bytes)]
      /\ executed \in Seq(Entries)
      /\ mutex \subseteq Sessions
  BY DEF ServerTypeOK, Bytes
<1>3. ASSUME /\ line'[s] \in Seq(Chars)
             /\ Len(line'[s]) <= MaxCommandLineLength
             /\ view'[s] \in Seq(Entries)
             /\ sent'[s] \in Seq(Bytes)
             /\ executed' \in Seq(Entries)
             /\ mutex' \subseteq Sessions
      PROVE  ServerTypeOK'
  <2>1. line' \in [Sessions -> Seq(Chars)]
        /\ \A t \in Sessions : Len(line'[t]) <= MaxCommandLineLength
    <3>1. line' \in [Sessions -> Seq(Chars)]
      BY <1>1, <1>2, <1>3
    <3>2. ASSUME NEW t \in Sessions
          PROVE  Len(line'[t]) <= MaxCommandLineLength
      <4>1. line'[t] = IF t = s THEN line'[s] ELSE line[t]
        BY <1>1, <1>2
      <4> QED BY <1>2, <1>3, <4>1
    <3> QED BY <3>1, <3>2
  <2>2. view' \in [Sessions -> Seq(Entries)]
    BY <1>1, <1>2, <1>3
  <2>3. sent' \in [Sessions -> Seq(Bytes)]
    BY <1>1, <1>2, <1>3
  <2> QED BY <1>1, <1>3, <2>1, <2>2, <2>3 DEF ServerTypeOK, Bytes
<1>4. <<>> \in Seq(Chars) /\ <<>> \in Seq(Entries) /\ Len(<<>>) <= MaxCommandLineLength
  BY ServerAssumption
<1>5. CASE UNCHANGED <<line, mutex, view, executed, sent>>
  BY <1>2, <1>3, <1>5
<1>6. CASE \E ch \in Chars : ReadCharacter(s, ch)
  <2>1. PICK ch \in Chars : ReadCharacter(s, ch)
    BY <1>6
  <2>2. /\ sent'[s] = Append(sent[s], ch)
        /\ UNCHANGED <<mutex, view, executed>>
        /\ \/ line'[s] = line[s]
           \/ /\ line'[s] = Append(line[s], ch)
              /\ Len(line[s]) < MaxCommandLineLength
    BY <1>2, <2>1 DEF ReadCharacter, Receive
  <2>3. /\ Append(sent[s], ch) \in Seq(Bytes)
        /\ Append(line[s], ch) \in Seq(Chars)
        /\ Len(Append(line[s], ch)) = Len(line[s]) + 1 /\ Len(line[s]) \in Nat
    BY <1>2 DEF Bytes
  <2>4. line'[s] \in Seq(Chars) /\ Len(line'[s]) <= MaxCommandLineLength
    <3>1. CASE line'[s] = line[s]
      BY <1>2, <3>1
    <3>2. CASE line'[s] = Append(line[s], ch) /\ Len(line[s]) < MaxCommandLineLength
      BY <2>3, <3>2, ServerAssumption
    <3> QED BY <2>2, <3>1, <3>2
  <2>5. view'[s] \in Seq(Entries) /\ sent'[s] \in Seq(Bytes)
        /\ executed' \in Seq(Entries) /\ mutex' \subseteq Sessions
    BY <1>2, <2>2, <2>3
  <2> QED BY <1>3, <2>4, <2>5
<1>7. CASE ReadLineFeed(s)
  <2>1. /\ sent'[s] = Append(sent[s], LF)
        /\ line'[s] = WithoutCR(line[s])
        /\ UNCHANGED <<mutex, view, executed>>
    BY <1>2, <1>7 DEF ReadLineFeed, Receive
  <2>2. Append(sent[s], LF) \in Seq(Bytes)
    BY <1>2 DEF Bytes
  <2>3. /\ WithoutCR(line[s]) \in Seq(Chars)
        /\ Len(WithoutCR(line[s])) <= Len(line[s])
        /\ Len(line[s]) \in Nat /\ Len(WithoutCR(line[s])) \in Nat
    BY <1>2, WithoutCRType
  <2> QED BY <1>2, <1>3, <2>1, <2>2, <2>3, ServerAssumption
<1>8. CASE LockAndHandle(s)
  <2>1. /\ UNCHANGED <<line, executed, sent>> /\ mutex' = {s}
        /\ view'[s] = executed
    BY <1>2, <1>8 DEF LockAndHandle
  <2> QED BY <1>2, <1>3, <2>1
<1>9. CASE ReturnAndUnlock(s)
  <2>1. /\ UNCHANGED <<line, sent>> /\ mutex' = {} /\ view'[s] = <<>>
        /\ executed' = Append(view[s], [session |-> s, line |-> line[s]])
    BY <1>2, <1>9 DEF ReturnAndUnlock
  <2>2. [session |-> s, line |-> line[s]] \in Entries
    BY <1>2 DEF Entries
  <2>3. executed' \in Seq(Entries)
    BY <1>2, <2>1, <2>2
  <2> QED BY <1>2, <1>3, <1>4, <2>1, <2>3
<1>10. CASE WriteResponse(s)
  <2>1. line'[s] = <<>> /\ UNCHANGED <<mutex, view, executed, sent>>
    BY <1>2, <1>10 DEF WriteResponse
  <2> QED BY <1>2, <1>3, <1>4, <2>1
<1> QED BY <1>5, <1>6, <1>7, <1>8, <1>9, <1>10
        DEF Step, Accept, ReadFails, WriteRefusal, WriteFails

\* Every step keeps the mutex exclusive.
LEMMA StepKeepsExclusive ==
    ASSUME ServerTypeOK, Exclusive, NEW s \in Sessions, Step(s)
    PROVE  Exclusive'
<1>1. OthersKept(s) /\ pc' = [pc EXCEPT ![s] = pc'[s]]
  BY StepContract
<1>2. /\ pc \in [Sessions -> Places] /\ view \in [Sessions -> Seq(Entries)]
  BY DEF ServerTypeOK
<1>3. CASE LockAndHandle(s)
  <2>1. /\ pc'[s] = "Handling" /\ mutex = {} /\ mutex' = {s}
        /\ view'[s] = executed /\ executed' = executed
    BY <1>2, <1>3 DEF LockAndHandle, Goto
  <2>2. \A t \in Sessions \ {s} :
          pc'[t] # "Handling" /\ mutex' # {t} /\ view'[t] = <<>>
    BY <1>1, <2>1 DEF Exclusive, OthersKept
  <2> QED BY <2>1, <2>2 DEF Exclusive
<1>4. CASE ReturnAndUnlock(s)
  <2>1. /\ pc[s] = "Handling" /\ pc'[s] = "Writing" /\ mutex' = {}
        /\ view'[s] = <<>>
    BY <1>2, <1>4 DEF ReturnAndUnlock, Goto
  <2>2. \A t \in Sessions \ {s} : pc'[t] # "Handling" /\ view'[t] = <<>>
    BY <1>1, <2>1 DEF Exclusive, OthersKept
  <2> QED BY <2>1, <2>2 DEF Exclusive
<1>5. CASE /\ pc[s] # "Handling" /\ pc'[s] # "Handling"
           /\ UNCHANGED <<mutex, view, executed>>
  BY <1>1, <1>5 DEF Exclusive, OthersKept
<1> QED
  BY <1>2, <1>3, <1>4, <1>5
  DEF Step, Accept, ReadCharacter, ReadLineFeed, Receive, ReadFails,
      WriteRefusal, WriteResponse, WriteFails, Goto

\* Every step keeps what the buffers hold.
LEMMA StepKeepsCut ==
    ASSUME ServerTypeOK, Cut, NEW s \in Sessions, Step(s)
    PROVE  Cut'
<1>1. OthersKept(s)
  BY StepContract
<1>2. /\ pc \in [Sessions -> Places] /\ line \in [Sessions -> Seq(Chars)]
      /\ sent \in [Sessions -> Seq(Bytes)]
      /\ CutOK(sent[s], line[s], pc[s])
      /\ Len(line[s]) <= MaxCommandLineLength
  BY DEF ServerTypeOK, Cut, Bytes
<1> DEFINE b == sent[s]
           l == line[s]
<1>3. b \in Seq(Bytes) /\ l \in Seq(Chars)
  BY <1>2
<1>4. SUFFICES CutOK(sent'[s], line'[s], pc'[s])
  <2>1. \A t \in Sessions \ {s} : CutOK(sent'[t], line'[t], pc'[t])
    BY <1>1 DEF Cut, OthersKept
  <2> QED BY <1>4, <2>1 DEF Cut
<1>5. CASE Accept(s)
  <2>1. /\ pc[s] = "Connecting" /\ pc'[s] = "Reading"
        /\ UNCHANGED <<line, sent>>
    BY <1>2, <1>5 DEF Accept, Goto
  <2> QED BY <1>2, <1>3, <2>1, CutMoves
<1>6. CASE \E ch \in Chars : ReadCharacter(s, ch)
  <2>1. PICK ch \in Chars : ReadCharacter(s, ch)
    BY <1>6
  <2>2. /\ pc[s] = "Reading" /\ sent'[s] = Append(b, ch)
        /\ \/ /\ l = line'[s] /\ pc'[s] = "Refusing"
              /\ Len(l) >= MaxCommandLineLength
           \/ line'[s] = Append(l, ch) /\ pc'[s] = "Reading"
    BY <1>2, <2>1 DEF ReadCharacter, Receive, Goto
  <2> QED BY <1>2, <1>3, <2>2, CutCharacter
<1>7. CASE ReadLineFeed(s)
  <2>1. /\ pc[s] = "Reading" /\ pc'[s] = "Locking"
        /\ sent'[s] = Append(b, LF) /\ line'[s] = WithoutCR(l)
    BY <1>2, <1>7 DEF ReadLineFeed, Receive, Goto
  <2> QED BY <1>2, <1>3, <2>1, CutLineFeed
<1>8. CASE LockAndHandle(s)
  <2>1. pc[s] = "Locking" /\ pc'[s] = "Handling" /\ UNCHANGED <<line, sent>>
    BY <1>2, <1>8 DEF LockAndHandle, Goto
  <2> QED BY <1>2, <1>3, <2>1, CutMoves
<1>9. CASE ReturnAndUnlock(s)
  <2>1. pc[s] = "Handling" /\ pc'[s] = "Writing" /\ UNCHANGED <<line, sent>>
    BY <1>2, <1>9 DEF ReturnAndUnlock, Goto
  <2> QED BY <1>2, <1>3, <2>1, CutMoves
<1>10. CASE WriteResponse(s)
  <2>1. /\ pc[s] = "Writing" /\ pc'[s] \in {"Reading", "Ended"}
        /\ line'[s] = <<>> /\ sent' = sent
    BY <1>2, <1>10 DEF WriteResponse, Goto
  <2> QED BY <1>2, <1>3, <2>1, CutMoves
<1>11. CASE ReadFails(s) \/ WriteRefusal(s) \/ WriteFails(s)
  <2>1. pc'[s] = "Ended" /\ sent' = sent
    BY <1>2, <1>11 DEF ReadFails, WriteRefusal, WriteFails, Goto
  <2> QED BY <1>2, <1>3, <2>1, CutMoves
<1> QED BY <1>5, <1>6, <1>7, <1>8, <1>9, <1>10, <1>11 DEF Step

(***************************************************************************)
(* The invariant of the server, for every number of sessions.              *)
(***************************************************************************)
THEOREM ServerInvariance == ServerSpec => []ServerInv
<1>1. ServerInv /\ [ServerNext]_serverVars => ServerInv'
  <2>1. ASSUME ServerInv, NEW s \in Sessions, Step(s)
        PROVE  ServerInv'
    BY <2>1, StepKeepsType, StepKeepsExclusive, StepKeepsCut DEF ServerInv
  <2>2. ServerInv /\ UNCHANGED serverVars => ServerInv'
    BY DEF ServerInv, ServerTypeOK, Exclusive, Cut, serverVars
  <2> QED BY <2>1, <2>2 DEF ServerNext, Step
<1> QED BY <1>1, InitEstablishesServerInv, PTL DEF ServerSpec

(***************************************************************************)
(* Every variable keeps its type; in particular the buffer of a session    *)
(* never exceeds the limit.                                                *)
(***************************************************************************)
THEOREM ServerTypeCorrect == ServerSpec => []ServerTypeOK
<1>1. ServerInv => ServerTypeOK
  BY DEF ServerInv
<1> QED BY <1>1, ServerInvariance, PTL

(***************************************************************************)
(* Two handlers never run at the same time, and the one that runs works on *)
(* the state all earlier ones left.                                        *)
(***************************************************************************)
HandlersExclude ==
    \A s, t \in Sessions :
        pc[s] = "Handling" /\ pc[t] = "Handling" =>
           s = t /\ view[s] = executed

\* One handler at a time, for any number of sessions.
THEOREM HandlersRunAlone == ServerSpec => []HandlersExclude
<1>1. ServerInv => HandlersExclude
  BY DEF ServerInv, Exclusive, HandlersExclude
<1> QED BY <1>1, ServerInvariance, PTL

(***************************************************************************)
(* A line above the limit is never complete, and one within is never       *)
(* refused, for every limit.                                               *)
(***************************************************************************)
THEOREM LongLinesAreRefused == ServerSpec => []RefusesExactlyLongLines
<1>1. ServerInv => RefusesExactlyLongLines
  BY DEF ServerInv, Cut, CutOK, OpenLine, RefusesExactlyLongLines
<1> QED BY <1>1, ServerInvariance, PTL

-----------------------------------------------------------------------------
(***************************************************************************)
(* The refinement: a step of the server is a step of the service or none   *)
(* at all.                                                                 *)
(***************************************************************************)
Question(s) == IF pc[s] \in {"Locking", "Handling", "Writing"} THEN line[s] ELSE <<>>
AbstractPhase == [s \in Sessions |-> Phase[pc[s]]]
AbstractQuestion ==
    [s \in Sessions |->
       IF pc[s] \in {"Locking", "Handling", "Writing"} THEN line[s] ELSE <<>>]

\* The abstract state after a step of s differs at most at s.
LEMMA AbstractStep ==
    ASSUME ServerTypeOK, NEW s \in Sessions, Step(s)
    PROVE  /\ AbstractPhase' = [AbstractPhase EXCEPT ![s] = Phase[pc'[s]]]
           /\ AbstractQuestion' = [AbstractQuestion EXCEPT ![s] = Question(s)']
           /\ AbstractPhase[s] = Phase[pc[s]]
           /\ AbstractQuestion[s] = Question(s)
           /\ AbstractQuestion'[s] = Question(s)'
           /\ Question(s)' = Question(s) => AbstractQuestion' = AbstractQuestion
           /\ Phase[pc'[s]] = Phase[pc[s]] => AbstractPhase' = AbstractPhase
<1>1. OthersKept(s)
  BY StepContract
<1>2. \A t \in Sessions \ {s} :
        Phase[pc'[t]] = Phase[pc[t]] /\ Question(t)' = Question(t)
  BY <1>1 DEF OthersKept, Question
<1>3. AbstractPhase' = [AbstractPhase EXCEPT ![s] = Phase[pc'[s]]]
  BY <1>2 DEF AbstractPhase
<1>4. /\ AbstractQuestion = [t \in Sessions |-> Question(t)]
      /\ AbstractQuestion' = [t \in Sessions |-> Question(t)']
  BY DEF AbstractQuestion, Question
<1>5. AbstractQuestion' = [AbstractQuestion EXCEPT ![s] = Question(s)']
  BY <1>2, <1>4
<1>6. Question(s)' = Question(s) => AbstractQuestion' = AbstractQuestion
  BY <1>2, <1>4
<1>7. Phase[pc'[s]] = Phase[pc[s]] => AbstractPhase' = AbstractPhase
  BY <1>2 DEF AbstractPhase
<1> QED BY <1>3, <1>4, <1>5, <1>6, <1>7 DEF AbstractPhase

\* Each action is one of the service, or a stutter of it.
LEMMA StepImplementsService ==
    ASSUME ServerInv, NEW s \in Sessions, Step(s)
    PROVE  [Service!Next]_(Service!serviceVars)
<1>1. /\ AbstractPhase' = [AbstractPhase EXCEPT ![s] = Phase[pc'[s]]]
      /\ AbstractQuestion' = [AbstractQuestion EXCEPT ![s] = Question(s)']
      /\ AbstractPhase[s] = Phase[pc[s]]
      /\ AbstractQuestion[s] = Question(s)
      /\ AbstractQuestion'[s] = Question(s)'
      /\ Question(s)' = Question(s) => AbstractQuestion' = AbstractQuestion
      /\ Phase[pc'[s]] = Phase[pc[s]] => AbstractPhase' = AbstractPhase
  BY AbstractStep DEF ServerInv
<1>2. /\ pc \in [Sessions -> Places] /\ line \in [Sessions -> Seq(Chars)]
      /\ view[s] = IF pc[s] = "Handling" THEN executed ELSE <<>>
      /\ line'[s] \in Seq(Chars)
  <2>1. ServerTypeOK'
    BY StepKeepsType DEF ServerInv
  <2> QED BY <2>1 DEF ServerInv, ServerTypeOK, Exclusive
<1>3. /\ Phase["Connecting"] = "Closed" /\ Phase["Reading"] = "Ready"
      /\ Phase["Refusing"] = "Refusing" /\ Phase["Locking"] = "Asked"
      /\ Phase["Handling"] = "Asked" /\ Phase["Writing"] = "Answering"
      /\ Phase["Ended"] = "Closed"
  BY DEF Phase
<1> USE DEF AbstractPhase, AbstractQuestion
<1>4. CASE /\ Phase[pc[s]] = "Closed" /\ Phase[pc'[s]] = "Ready"
           /\ Question(s)' = Question(s) /\ executed' = executed
  BY <1>1, <1>4 DEF Service!Next, Service!Connect
<1>5. CASE /\ Phase[pc[s]] = "Ready" /\ Phase[pc'[s]] = "Asked"
           /\ Question(s)' \in Seq(Chars) /\ executed' = executed
  BY <1>1, <1>5 DEF Service!Next, Service!Ask
<1>6. CASE /\ Phase[pc[s]] = "Asked" /\ Phase[pc'[s]] = "Answering"
           /\ Question(s)' = Question(s)
           /\ executed' = Append(executed, [session |-> s, line |-> Question(s)])
  BY <1>1, <1>6 DEF Service!Next, Service!Execute
<1>7. CASE /\ Phase[pc[s]] = "Answering"
           /\ Phase[pc'[s]] = IF Question(s) = QuitLine THEN "Closed" ELSE "Ready"
           /\ Question(s)' = <<>> /\ executed' = executed
  BY <1>1, <1>7 DEF Service!Next, Service!Answer
<1>8. CASE /\ Phase[pc[s]] = "Ready" /\ Phase[pc'[s]] = "Refusing"
           /\ Question(s)' = Question(s) /\ executed' = executed
  BY <1>1, <1>8 DEF Service!Next, Service!Refuse
<1>9. CASE /\ Phase[pc[s]] \in {"Ready", "Answering", "Refusing"}
           /\ Phase[pc'[s]] = "Closed"
           /\ Question(s)' = <<>> /\ executed' = executed
  BY <1>1, <1>9 DEF Service!Next, Service!Close
<1>10. CASE /\ Phase[pc[s]] = Phase[pc'[s]] /\ Question(s)' = Question(s)
            /\ executed' = executed
  BY <1>1, <1>10 DEF Service!serviceVars
<1> USE DEF Goto, Question
<1>11. CASE Accept(s)
  BY <1>2, <1>3, <1>4, <1>11 DEF Accept
<1>12. CASE \E ch \in Chars : ReadCharacter(s, ch)
  BY <1>2, <1>3, <1>8, <1>10, <1>12 DEF ReadCharacter, Receive
<1>13. CASE ReadLineFeed(s)
  BY <1>2, <1>3, <1>5, <1>13 DEF ReadLineFeed, Receive
<1>14. CASE ReadFails(s) \/ WriteRefusal(s) \/ WriteFails(s)
  BY <1>2, <1>3, <1>9, <1>14 DEF ReadFails, WriteRefusal, WriteFails
<1>15. CASE LockAndHandle(s)
  BY <1>2, <1>3, <1>10, <1>15 DEF LockAndHandle
<1>16. CASE ReturnAndUnlock(s)
  BY <1>2, <1>3, <1>6, <1>16 DEF ReturnAndUnlock
<1>17. CASE WriteResponse(s)
  BY <1>2, <1>3, <1>7, <1>17 DEF WriteResponse
<1> QED BY <1>11, <1>12, <1>13, <1>14, <1>15, <1>16, <1>17 DEF Step

(***************************************************************************)
(* For any number of sessions the server implements the service: a line is *)
(* executed at one instant between its arrival and its answer.             *)
(***************************************************************************)
THEOREM ServerImplementsService == ServerSpec => ImplementsService
<1>1. ServerInit => Service!Init
  BY DEF ServerInit, Service!Init, Phase
<1>2. ServerInv /\ [ServerNext]_serverVars => [Service!Next]_(Service!serviceVars)
  <2>1. UNCHANGED serverVars => UNCHANGED Service!serviceVars
    BY DEF serverVars, Service!serviceVars
  <2> QED BY <2>1, StepImplementsService DEF ServerNext, Step
<1> QED
  BY <1>1, <1>2, ServerInvariance, PTL DEF ServerSpec, ImplementsService, Service!Spec

-----------------------------------------------------------------------------
(***************************************************************************)
(* What is executed is what was sent.                                      *)
(***************************************************************************)
Executions(ex, s) == {i \in DOMAIN ex : ex[i].session = s}

\* Ranks in a set of positions, and what a new greatest position changes.
LEMMA RankFacts ==
    ASSUME NEW n \in Nat, NEW S \in SUBSET (1..n)
    PROVE  /\ Cardinality(S) \in Nat
           /\ Cardinality(S \cup {n + 1}) = Cardinality(S) + 1
           /\ \A i : Rank(S, i) \in Nat /\ Rank(S, i) <= Cardinality(S)
           /\ \A i : Rank(S, i) = Cardinality(S) => \A j \in S : j <= i
           /\ \A i \in 1..n : Rank(S \cup {n + 1}, i) = Rank(S, i)
           /\ Rank(S \cup {n + 1}, n + 1) = Cardinality(S) + 1
<1>1. IsFiniteSet(1..n)
  BY FS_Interval
<1>2. IsFiniteSet(S)
  BY <1>1, FS_Subset
<1>3. Cardinality(S) \in Nat
  BY <1>2, FS_CardinalityType
<1>4. Cardinality(S \cup {n + 1}) = Cardinality(S) + 1
  <2>1. n + 1 \notin S
    OBVIOUS
  <2> QED BY <1>2, <2>1, FS_AddElement
<1>5. ASSUME NEW i
      PROVE  /\ Rank(S, i) \in Nat /\ Rank(S, i) <= Cardinality(S)
             /\ Rank(S, i) = Cardinality(S) => \A j \in S : j <= i
  <2> DEFINE T == {j \in S : j <= i}
  <2>1. T \in SUBSET S
    OBVIOUS
  <2>2. /\ IsFiniteSet(T) /\ Cardinality(T) <= Cardinality(S)
        /\ Cardinality(S) = Cardinality(T) => S = T
    BY <1>2, <2>1, FS_Subset
  <2>3. Cardinality(T) \in Nat
    BY <2>2, FS_CardinalityType
  <2> QED BY <2>2, <2>3 DEF Rank
<1>6. ASSUME NEW i \in 1..n
      PROVE  Rank(S \cup {n + 1}, i) = Rank(S, i)
  <2>1. {j \in S \cup {n + 1} : j <= i} = {j \in S : j <= i}
    OBVIOUS
  <2> QED BY <2>1 DEF Rank
<1>7. Rank(S \cup {n + 1}, n + 1) = Cardinality(S) + 1
  <2> DEFINE T == S \cup {n + 1}
  <2>1. {j \in T : j <= n + 1} = T
    <3>1. \A j \in T : j <= n + 1
      OBVIOUS
    <3> HIDE DEF T
    <3> QED BY <3>1
  <2> QED BY <1>4, <2>1 DEF Rank
<1> QED BY <1>3, <1>4, <1>5, <1>6, <1>7

\* The property, for one session: its bytes, what was executed, its place.
Matches(b, ex, s, p) ==
    /\ Cardinality(LineEnds(b)) =
          Cardinality(Executions(ex, s)) + (IF p \in {"Locking", "Handling"} THEN 1 ELSE 0)
    /\ \A e \in LineEnds(b), i \in Executions(ex, s) :
          Rank(LineEnds(b), e) = Rank(Executions(ex, s), i) =>
             ex[i].line = WithoutCR(LineEndingAt(b, e))

\* The executions of a session after one more, its own or another's.
LEMMA ExecutionsOfAppend ==
    ASSUME NEW ex \in Seq(Entries), NEW entry \in Entries, NEW s
    PROVE  /\ Len(ex) \in Nat
           /\ Executions(ex, s) \in SUBSET (1..Len(ex))
           /\ \A i \in 1..Len(ex) : Append(ex, entry)[i] = ex[i]
           /\ Append(ex, entry)[Len(ex) + 1] = entry
           /\ Executions(Append(ex, entry), s) =
                Executions(ex, s) \cup
                  (IF entry.session = s THEN {Len(ex) + 1} ELSE {})
<1> DEFINE n == Len(ex)
           x == Append(ex, entry)
<1>1. /\ x \in Seq(Entries) /\ n \in Nat /\ Len(x) = n + 1
      /\ \A i \in 1..n : x[i] = ex[i]
      /\ x[n + 1] = entry
      /\ DOMAIN ex = 1..n /\ DOMAIN x = 1..(n + 1)
  BY AppendProperties
<1> HIDE DEF n, x
<1>2. Executions(ex, s) \in SUBSET (1..n)
  BY <1>1 DEF Executions
<1>3. Executions(x, s) =
        Executions(ex, s) \cup (IF entry.session = s THEN {n + 1} ELSE {})
  BY <1>1 DEF Executions
<1> QED BY <1>1, <1>2, <1>3 DEF n, x

\* A character moves no line end and changes no line that has ended.
LEMMA CharacterKeepsMatches ==
    ASSUME NEW b \in Seq(Bytes), NEW ch \in Chars, NEW l, NEW ex, NEW s, NEW p,
           CutOK(b, l, "Reading"), Matches(b, ex, s, "Reading"),
           p \in {"Reading", "Refusing"}
    PROVE  Matches(Append(b, ch), ex, s, p)
<1> DEFINE c == Append(b, ch)
<1>1. LineEnds(c) = LineEnds(b)
  BY OpenLineGrows DEF CutOK
<1>2. ASSUME NEW e \in LineEnds(b)
      PROVE  LineEndingAt(c, e) = LineEndingAt(b, e)
  <2>1. ch \in Bytes /\ e \in 1..(Len(b) + 1) /\ HasStart(b, e)
    BY DEF Bytes, LineEnds, CutOK
  <2> QED BY <2>1, EndedLineStays
<1> HIDE DEF c
<1>3. Matches(c, ex, s, p)
  BY <1>1, <1>2 DEF Matches
<1> QED BY <1>3 DEF c

\* The line that a line feed ends is the first that is not executed.
LEMMA LineFeedKeepsMatches ==
    ASSUME NEW b \in Seq(Bytes), NEW l, NEW ex \in Seq(Entries), NEW s,
           CutOK(b, l, "Reading"), Matches(b, ex, s, "Reading")
    PROVE  Matches(Append(b, LF), ex, s, "Locking")
<1> DEFINE c == Append(b, LF)
           n == Len(b)
           L == LineEnds(b)
           X == Executions(ex, s)
<1>1. n \in Nat /\ L \in SUBSET (1..n)
  BY DEF LineEnds
<1>2. X \in SUBSET (1..Len(ex)) /\ Len(ex) \in Nat
  BY DEF Executions
<1>3. LineEnds(c) = L \cup {n + 1}
  BY LineFeedEndsLine DEF CutOK
<1>4. ASSUME NEW e \in L
      PROVE  LineEndingAt(c, e) = LineEndingAt(b, e)
  <2>1. LF \in Bytes /\ e \in 1..(Len(b) + 1) /\ HasStart(b, e)
    BY DEF Bytes, LineEnds, CutOK
  <2> QED BY <2>1, EndedLineStays
<1>5. Cardinality(L) = Cardinality(X) + 0
  BY DEF Matches
<1> HIDE DEF c, n, L, X
<1>6. /\ Cardinality(L) \in Nat
      /\ Cardinality(LineEnds(c)) = Cardinality(L) + 1
      /\ \A e \in L : Rank(LineEnds(c), e) = Rank(L, e)
      /\ Rank(LineEnds(c), n + 1) = Cardinality(L) + 1
  <2>1. /\ Cardinality(L) \in Nat
        /\ Cardinality(L \cup {n + 1}) = Cardinality(L) + 1
        /\ \A e \in 1..n : Rank(L \cup {n + 1}, e) = Rank(L, e)
        /\ Rank(L \cup {n + 1}, n + 1) = Cardinality(L) + 1
    BY <1>1, RankFacts
  <2> QED BY <1>1, <1>3, <2>1
<1>7. /\ Cardinality(X) \in Nat
      /\ \A i \in X : Rank(X, i) \in Nat /\ Rank(X, i) <= Cardinality(X)
  BY <1>2, RankFacts
<1>8. Cardinality(LineEnds(c)) = Cardinality(X) + 1
  BY <1>5, <1>6, <1>7
<1>9. ASSUME NEW e \in LineEnds(c), NEW i \in X,
             Rank(LineEnds(c), e) = Rank(X, i)
      PROVE  ex[i].line = WithoutCR(LineEndingAt(c, e))
  <2>1. e # n + 1
    BY <1>5, <1>6, <1>7, <1>9
  <2>2. e \in L /\ Rank(L, e) = Rank(X, i)
    BY <1>3, <1>6, <1>9, <2>1
  <2> QED BY <1>4, <2>2 DEF Matches, L, X
<1>10. Matches(c, ex, s, "Locking")
  BY <1>8, <1>9 DEF Matches, X
<1> QED BY <1>10 DEF c

\* The line a session executes is the one its client ended last.
LEMMA ExecutionKeepsMatches ==
    ASSUME NEW b \in Seq(Bytes), NEW l \in Seq(Chars), NEW ex \in Seq(Entries),
           NEW s \in Sessions,
           CutOK(b, l, "Handling"), Matches(b, ex, s, "Handling")
    PROVE  Matches(b, Append(ex, [session |-> s, line |-> l]), s, "Writing")
<1> DEFINE entry == [session |-> s, line |-> l]
           x == Append(ex, entry)
           n == Len(ex)
           L == LineEnds(b)
           X == Executions(ex, s)
<1>1. entry \in Entries /\ entry.session = s /\ entry.line = l
  BY DEF Entries
<1>2. Len(b) \in Nat /\ L \in SUBSET (1..Len(b))
  BY DEF LineEnds
<1> HIDE DEF entry
<1>3. /\ n \in Nat /\ X \in SUBSET (1..n)
      /\ \A i \in 1..n : x[i] = ex[i]
      /\ x[n + 1] = entry
      /\ Executions(x, s) = X \cup {n + 1}
  BY <1>1, ExecutionsOfAppend
<1>4. Cardinality(L) = Cardinality(X) + 1
  BY DEF Matches
<1> HIDE DEF x, n, L, X
<1>5. /\ Cardinality(X) \in Nat
      /\ Cardinality(Executions(x, s)) = Cardinality(X) + 1
      /\ \A i \in X : Rank(Executions(x, s), i) = Rank(X, i)
      /\ Rank(Executions(x, s), n + 1) = Cardinality(X) + 1
  <2>1. /\ Cardinality(X) \in Nat
        /\ Cardinality(X \cup {n + 1}) = Cardinality(X) + 1
        /\ \A i \in 1..n : Rank(X \cup {n + 1}, i) = Rank(X, i)
        /\ Rank(X \cup {n + 1}, n + 1) = Cardinality(X) + 1
    BY <1>3, RankFacts
  <2> QED BY <1>3, <2>1
<1>6. Cardinality(L) = Cardinality(Executions(x, s)) + 0
  BY <1>4, <1>5
<1>7. ASSUME NEW e \in L, NEW i \in Executions(x, s),
             Rank(L, e) = Rank(Executions(x, s), i)
      PROVE  x[i].line = WithoutCR(LineEndingAt(b, e))
  <2>1. CASE i = n + 1
    <3>1. Rank(L, e) = Cardinality(L)
      BY <1>4, <1>5, <1>7, <2>1
    <3>2. \A j \in L : j <= e
      BY <1>2, <3>1, RankFacts
    <3>3. Len(b) \in L /\ l = WithoutCR(LineEndingAt(b, Len(b)))
      BY DEF CutOK, L
    <3>4. e = Len(b)
      BY <1>2, <3>2, <3>3
    <3> QED BY <1>1, <1>3, <2>1, <3>3, <3>4
  <2>2. CASE i \in X
    <3>1. x[i] = ex[i] /\ Rank(L, e) = Rank(X, i)
      BY <1>3, <1>5, <1>7, <2>2
    <3> QED BY <2>2, <3>1 DEF Matches, L, X
  <2> QED BY <1>3, <1>7, <2>1, <2>2
<1>8. Matches(b, x, s, "Writing")
  BY <1>6, <1>7 DEF Matches, L
<1> QED BY <1>8 DEF x, entry

\* An execution for another session changes nothing for this one.
LEMMA OtherExecution ==
    ASSUME NEW b, NEW ex \in Seq(Entries), NEW entry \in Entries, NEW s, NEW p,
           entry.session # s, Matches(b, ex, s, p)
    PROVE  Matches(b, Append(ex, entry), s, p)
<1> DEFINE x == Append(ex, entry)
<1>1. /\ Executions(x, s) = Executions(ex, s)
      /\ \A i \in Executions(ex, s) : x[i] = ex[i]
  <2>1. /\ Executions(ex, s) \in SUBSET (1..Len(ex))
        /\ \A i \in 1..Len(ex) : x[i] = ex[i]
    BY ExecutionsOfAppend
  <2>2. Executions(x, s) =
          Executions(ex, s) \cup
            (IF entry.session = s THEN {Len(ex) + 1} ELSE {})
    BY ExecutionsOfAppend
  <2> HIDE DEF x
  <2> QED BY <2>1, <2>2
<1> HIDE DEF x
<1>2. Matches(b, x, s, p)
  BY <1>1 DEF Matches
<1> QED BY <1>2 DEF x

AllMatch == \A s \in Sessions : Matches(sent[s], executed, s, pc[s])

\* Every step keeps what is executed in line with what was sent.
LEMMA StepKeepsMatches ==
    ASSUME ServerInv, AllMatch, NEW s \in Sessions, Step(s)
    PROVE  AllMatch'
<1> DEFINE b == sent[s]
           l == line[s]
<1>1. OthersKept(s)
  BY StepContract DEF ServerInv
<1>2. /\ pc \in [Sessions -> Places] /\ line \in [Sessions -> Seq(Chars)]
      /\ view \in [Sessions -> Seq(Entries)]
      /\ executed \in Seq(Entries)
      /\ sent \in [Sessions -> Seq(Bytes)]
      /\ b \in Seq(Bytes) /\ l \in Seq(Chars)
      /\ view[s] = IF pc[s] = "Handling" THEN executed ELSE <<>>
  BY DEF ServerInv, ServerTypeOK, Exclusive, Bytes
<1>3. CutOK(b, l, pc[s]) /\ Matches(b, executed, s, pc[s])
  BY DEF ServerInv, Cut, AllMatch
<1>4. CASE ReturnAndUnlock(s)
  <2> DEFINE entry == [session |-> s, line |-> l]
  <2>1. /\ pc[s] = "Handling" /\ pc'[s] = "Writing" /\ sent' = sent
        /\ executed' = Append(executed, entry)
    BY <1>2, <1>4 DEF ReturnAndUnlock, Goto
  <2>2. entry \in Entries /\ entry.session = s
    BY <1>2 DEF Entries
  <2>3. Matches(sent'[s], executed', s, pc'[s])
    BY <1>2, <1>3, <2>1, ExecutionKeepsMatches
  <2> HIDE DEF entry
  <2>4. \A t \in Sessions \ {s} : Matches(sent'[t], executed', t, pc'[t])
    <3> TAKE t \in Sessions \ {s}
    <3>1. /\ Matches(sent[t], executed, t, pc[t])
          /\ sent'[t] = sent[t] /\ pc'[t] = pc[t]
      BY <1>1 DEF AllMatch, OthersKept
    <3> QED BY <1>2, <2>1, <2>2, <3>1, OtherExecution
  <2> QED BY <2>3, <2>4 DEF AllMatch
<1>5. CASE executed' = executed /\ Matches(sent'[s], executed, s, pc'[s])
  BY <1>1, <1>5 DEF AllMatch, OthersKept
<1>6. CASE \E ch \in Chars : ReadCharacter(s, ch)
  <2>1. PICK ch \in Chars : ReadCharacter(s, ch)
    BY <1>6
  <2>2. /\ pc[s] = "Reading" /\ pc'[s] \in {"Reading", "Refusing"}
        /\ sent'[s] = Append(b, ch) /\ executed' = executed
    BY <1>2, <2>1 DEF ReadCharacter, Receive, Goto
  <2>3. Matches(Append(b, ch), executed, s, pc'[s])
    BY <1>2, <1>3, <2>2, CharacterKeepsMatches
  <2> QED BY <1>5, <2>2, <2>3
<1>7. CASE ReadLineFeed(s)
  <2>1. /\ pc[s] = "Reading" /\ pc'[s] = "Locking"
        /\ sent'[s] = Append(b, LF) /\ executed' = executed
    BY <1>2, <1>7 DEF ReadLineFeed, Receive, Goto
  <2>2. Matches(Append(b, LF), executed, s, "Locking")
    BY <1>2, <1>3, <2>1, LineFeedKeepsMatches
  <2> QED BY <1>5, <2>1, <2>2
<1>8. CASE /\ executed' = executed /\ sent' = sent
           /\ pc[s] \in {"Locking", "Handling"} <=>
                pc'[s] \in {"Locking", "Handling"}
  BY <1>3, <1>5, <1>8 DEF Matches
<1> QED
  BY <1>2, <1>4, <1>6, <1>7, <1>8
  DEF Step, Accept, ReadFails, WriteRefusal, LockAndHandle, WriteResponse,
      WriteFails, Goto

(***************************************************************************)
(* No line is lost, doubled, joined with another or taken from the rest of *)
(* a long one, for any number of sessions, limit and length of the stream. *)
(***************************************************************************)
THEOREM SentIsExecuted == ServerSpec => []ExecutesWhatWasSent
<1>1. ServerInit => AllMatch
  <2> SUFFICES ASSUME ServerInit
               PROVE  AllMatch
    OBVIOUS
  <2>1. LineEnds(<<>>) = {} /\ Cardinality({}) = 0
    BY EmptyStream, FS_EmptySet
  <2>2. \A s : Executions(<<>>, s) = {}
    BY DEF Executions
  <2>3. ASSUME NEW s
        PROVE  Matches(<<>>, <<>>, s, "Connecting")
    <3>1. Cardinality(LineEnds(<<>>)) = 0
      BY <2>1
    <3>2. Cardinality(Executions(<<>>, s)) = 0
      BY <2>1, <2>2
    <3> QED BY <2>1, <3>1, <3>2 DEF Matches
  <2> QED BY <2>3 DEF ServerInit, AllMatch
<1>2. ServerInv /\ AllMatch /\ [ServerNext]_serverVars => AllMatch'
  <2>1. AllMatch /\ UNCHANGED serverVars => AllMatch'
    BY DEF AllMatch, serverVars
  <2> QED BY <2>1, StepKeepsMatches DEF ServerNext, Step
<1>3. AllMatch => ExecutesWhatWasSent
  BY DEF AllMatch, Matches, Executions, ExecutionsFor, ExecutesWhatWasSent
<1> QED BY <1>1, <1>2, <1>3, ServerInvariance, PTL DEF ServerSpec

=============================================================================
